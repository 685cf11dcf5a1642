----------------------------- MODULE Accounting -----------------------------
(***************************************************************************)
(* CGroupAccounting::load() of systemd/cgroup.rs: the files of a slice's   *)
(* cgroup, read one after the other while the kernel changes what they say *)
(* and systemd may remove the cgroup (the parameter "there").  A number    *)
(* in a file stands for its contents; the parse of a file succeeds if and  *)
(* only if the kernel offers the file.                                     *)
(***************************************************************************)
EXTENDS Naturals, Sequences

CONSTANTS
  Kernels,      \* what kernels offer: controllers enabled, files missing; and
                \* the resources that the cgroup uses
  MaxUse        \* a bound on the values of the gauges

Gauge == {"pids", "memory", "swap"}
current == [pids |-> "pids.current", memory |-> "memory.current",
            swap |-> "memory.swap.current"]
peak == [pids |-> "pids.peak", memory |-> "memory.peak",
         swap |-> "memory.swap.peak"]

Optional == {"memory.events", "memory.events.local", "memory.max"}
File == {current[g] : g \in Gauge} \cup {peak[g] : g \in Gauge}
          \cup Optional \cup {"cpu.stat"}

ASSUME KernelsAssumption ==
  /\ MaxUse \in Nat
  /\ Kernels \subseteq [controllers : SUBSET {"pids", "memory"},
                        missing : SUBSET File, used : SUBSET Gauge]

VARIABLES
  kernel,       \* the kernel we run on
  gauge,        \* what the cgroup uses now, and the most it has used
  load          \* load(): the files done, those read, and the numbers in them

accountingVars == <<kernel, gauge, load>>

NotLoaded == [read |-> {}, value |-> [f \in File |-> 0]]
LoadStart == [at |-> 0, read |-> {}, value |-> [f \in File |-> 0]]

Values == [File -> 0..MaxUse]
Accounts == [read : SUBSET File, value : Values]

AccountingInit ==
  /\ kernel \in Kernels
  /\ gauge = [g \in Gauge |-> [current |-> 0, peak |-> 0]]
  /\ load = LoadStart

\* The kernel charges or uncharges the cgroup.
Use(g, n) ==
  /\ g \in kernel.used
  /\ gauge' = [gauge EXCEPT ![g] = [current |-> n,
                                    peak |-> IF n > @.peak THEN n ELSE @.peak]]
  /\ UNCHANGED <<kernel, load>>

-----------------------------------------------------------------------------
\* Memory::load() and Pids::load(), in the order of their reads: the optional
\* files of the memory controller come before the required ones, the current
\* use of a resource before its peak.
PeakFirstOrder ==
  <<"pids.peak", "pids.current", "memory.events", "memory.events.local",
    "memory.max", "memory.peak", "memory.current", "memory.swap.peak",
    "memory.swap.current", "cpu.stat">>
OptionalLastOrder ==
  <<"pids.current", "pids.peak", "memory.current", "memory.peak",
    "memory.swap.current", "memory.swap.peak", "cpu.stat", "memory.events",
    "memory.events.local", "memory.max">>
LoadOrder ==
  <<"pids.current", "pids.peak", "memory.events", "memory.events.local",
    "memory.max", "memory.current", "memory.peak", "memory.swap.current",
    "memory.swap.peak", "cpu.stat">>

\* The files that load() turns to: those of the enabled controllers, and
\* cpu.stat whatever the controllers.
Wanted(f) ==
  \/ f = "cpu.stat"
  \/ f \in {"pids.current", "pids.peak"} /\ "pids" \in kernel.controllers
  \/ /\ f \notin {"pids.current", "pids.peak", "cpu.stat"}
     /\ "memory" \in kernel.controllers

\* The number v in a file: of the gauge it shows, if it shows one.
Shows(f, v) ==
  \/ \E g \in Gauge : f = current[g] /\ v = gauge[g].current
  \/ \E g \in Gauge : f = peak[g] /\ v = gauge[g].peak
  \/ f \in Optional \cup {"cpu.stat"} /\ v = 0

\* CPUStat::load(), MemoryEvents::load(), MemoryMax::load(): a file parses if
\* the kernel offers it.
Offered(f) == f \notin kernel.missing

\* load_scalar() and load_flat_keyed(): opening and reading a file.
Readable(there, f) == there /\ Offered(f)

Turn(f) == load.at \in 1..Len(LoadOrder) /\ f = LoadOrder[load.at]

\* enabled_controllers()
LoadControllers(there) ==
  /\ load.at = 0
  /\ there
  /\ load' = [load EXCEPT !.at = 1]
  /\ UNCHANGED <<kernel, gauge>>

LoadFile(there, f) ==
  /\ Turn(f)
  /\ Wanted(f)
  /\ Readable(there, f)
  /\ \E v \in 0..MaxUse :
       /\ Shows(f, v)
       /\ load' = [load EXCEPT !.at = @ + 1, !.read = @ \cup {f},
                               !.value = [@ EXCEPT ![f] = v]]
  /\ UNCHANGED <<kernel, gauge>>

\* A file of a controller that is not enabled, or an optional file that cannot
\* be read: the field stays None.
LoadPasses(there, f) ==
  /\ Turn(f)
  /\ Wanted(f) => f \in Optional /\ ~Readable(there, f)
  /\ load' = [load EXCEPT !.at = @ + 1]
  /\ UNCHANGED <<kernel, gauge>>

\* Any other file that cannot be read fails load() as a whole.
LoadCannot(there) ==
  \/ load.at = 0 /\ ~there
  \/ \E f \in File \ Optional : Turn(f) /\ Wanted(f) /\ ~Readable(there, f)

LoadReset ==
  /\ load' = LoadStart
  /\ UNCHANGED <<kernel, gauge>>

Loaded == load.at = Len(LoadOrder) + 1
LoadResult == [read |-> load.read, value |-> load.value]

-----------------------------------------------------------------------------
AccountingTypeOK ==
  /\ kernel \in Kernels
  /\ gauge \in [Gauge -> [current : 0..MaxUse, peak : 0..MaxUse]]
  /\ load \in [at : 0..Len(LoadOrder) + 1, read : SUBSET File, value : Values]
=============================================================================
