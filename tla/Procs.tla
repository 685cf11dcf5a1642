------------------------------- MODULE Procs --------------------------------
(***************************************************************************)
(* procs.rs: the process registry and the life of a process, from the      *)
(* request that starts it to the NotRunning notification.                  *)
(*                                                                         *)
(* Procstar runs its tasks on one thread, so a task runs without           *)
(* interruption from one await to the next.  The variable cpu names the    *)
(* start_procs() call that is between two awaits; every other task step    *)
(* needs the thread free.  The children are processes of their own: they   *)
(* step at any time.                                                       *)
(***************************************************************************)
EXTENDS Notify

CONSTANTS
  Child,          \* the children that are ever forked, one for each fork()
  Starter,        \* the concurrent callers of start_procs()
  Systemd,        \* whether a systemd client is available
  ExitMode,       \* whether Procstar runs with --exit
  Signum,         \* the signals clients send, "KILL" among them
  FdErr           \* the outcomes of in_parent(): TRUE if it may fail

ASSUME ConstantsAssumption ==
  /\ None \notin ProcId \cup Child \cup Starter
  /\ Systemd \in BOOLEAN
  /\ ExitMode \in BOOLEAN
  /\ FdErr \in (SUBSET BOOLEAN) \ {{}}

VARIABLES
  \* The registry, struct Procs.
  procs,          \* the map: ProcId -> Child, or None
  shutdown,       \* the value of the shutdown watch channel
  asked,          \* the shutdown requests made: once each, "exit" is --exit's
  \* The callers of start_procs().
  cpu,            \* the caller that holds the thread, or None
  starter,        \* where each caller is
  \* The kernel's view of a child.
  os,             \* its process state
  wrote,          \* whether it wrote to its error pipe
  holders,        \* the children holding a write end of its error pipe
  sent,           \* the signals sent to its pid
  \* struct Proc
  idOf,           \* the proc ID it was forked for
  reaped, waitInfo,
  errors,         \* where its errors come from: "fd" (parent), "child"
  \* The tasks that run_proc() spawns for it.
  errTask, waitTask, told,
  \* SIGCHLD on its way to its wait_for_proc().
  stream,         \* pending in the SignalWatcher's stream
  changed         \* unseen in the watch channel's receiver

startVars == <<cpu, starter>>
kernelVars == <<os, wrote, holders, sent>>
procVars == <<reaped, waitInfo, errors>>
taskVars == <<errTask, waitTask, told>>
sigVars == <<stream, changed>>
mapVars == <<procs, shutdown, asked>>
vars == <<mapVars, startVars, kernelVars, idOf, procVars, taskVars, sigVars,
          notifyVars>>

OsState == {"none",      \* not forked yet
            "forked",    \* blocked on the exec_ready eventfd
            "released",  \* past the eventfd, about to exec
            "exec",      \* running its program
            "zombie",    \* exited
            "gone"}      \* waited for; the pid may be reused
Live == {"forked", "released", "exec"}

\* Proc::get_state()
get_state(c) ==
  IF errors[c] # {} THEN "error"
  ELSE IF waitInfo[c] THEN "terminated" ELSE "running"

IdleStarter == [pc |-> "idle", todo |-> {}, id |-> None, child |-> None]

\* Proc::new()
ProcInit ==
  /\ reaped = [c \in Child |-> FALSE]
  /\ waitInfo = [c \in Child |-> FALSE]
  /\ errors = [c \in Child |-> {}]

Init ==
  /\ procs = [id \in ProcId |-> None]
  /\ shutdown = "active"
  /\ asked = {}
  /\ cpu = None
  /\ starter = [s \in Starter |-> IdleStarter]
  /\ os = [c \in Child |-> "none"]
  /\ wrote = [c \in Child |-> FALSE]
  /\ holders = [c \in Child |-> {}]
  /\ sent = [c \in Child |-> {}]
  /\ idOf = [c \in Child |-> None]
  /\ ProcInit
  /\ errTask = [c \in Child |-> "none"]
  /\ waitTask = [c \in Child |-> "none"]
  /\ told = [c \in Child |-> FALSE]
  /\ stream = [c \in Child |-> FALSE]
  /\ changed = [c \in Child |-> FALSE]
  /\ NotifyInit

-----------------------------------------------------------------------------
(* start_procs() *)

\* A bound: a batch is accepted only while there are children left for it.
HasSpareChildren(ids) ==
  Cardinality({c \in Child : os[c] = "none"}) >=
    Cardinality(ids) + Cardinality({x \in Starter \X ProcId :
                                      x[2] \in starter[x[1]].todo})

\* The checks of start_procs(): no proc ID is in use, no shutdown has begun.
UncheckedIds(ids) == ids \subseteq ProcId
UnusedIds(ids) == \A id \in ids : procs[id] = None

NotShuttingDown == shutdown = "active"

\* A request for the batch ids passes the checks on duplicates and shutdown.
\* (One that fails them returns an error and changes nothing.)
StartProcs(s, ids) ==
  /\ cpu = None
  /\ starter[s].pc = "idle"
  /\ ids # {}
  /\ HasSpareChildren(ids)
  /\ UnusedIds(ids)
  /\ NotShuttingDown
  /\ cpu' = s
  /\ starter' = [starter EXCEPT ![s] = [IdleStarter EXCEPT !.pc = "fork",
                                                           !.todo = ids]]
  /\ UNCHANGED <<mapVars, kernelVars, idOf, procVars, taskVars, sigVars,
                 notifyVars>>

\* fork().  The child inherits the write ends of its own error pipe and of
\* every one the parent has not closed yet, and blocks on the eventfd.  With
\* systemd, the caller then awaits set_up_slice().  The SIGCHLD receiver is
\* older than the child.
Fork(s, id, c) ==
  /\ cpu = s
  /\ starter[s].pc = "fork"
  /\ id \in starter[s].todo
  /\ os[c] = "none"
  /\ os' = [os EXCEPT ![c] = "forked"]
  /\ idOf' = [idOf EXCEPT ![c] = id]
  /\ holders' = [p \in Child |->
                   IF p = c \/ (os[p] # "none" /\ errTask[p] = "none")
                     THEN holders[p] \cup {c} ELSE holders[p]]
  /\ starter' = [starter EXCEPT
                   ![s].pc = IF Systemd THEN "slice" ELSE "register",
                   ![s].todo = @ \ {id}, ![s].id = id, ![s].child = c]
  /\ cpu' = IF Systemd THEN None ELSE s
  /\ UNCHANGED <<mapVars, wrote, sent, procVars, taskVars, sigVars, notifyVars>>

\* start_transient_unit(): the job that starts the unit is removed, whatever
\* its result.
UnitStarted(s, unit) == cpu = None /\ starter[s].pc = unit

\* set_up_slice(): the slice is started, then the scope.
SliceStarted(s) ==
  /\ UnitStarted(s, "slice")
  /\ starter' = [starter EXCEPT ![s].pc = "scope"]
  /\ UNCHANGED <<cpu, mapVars, kernelVars, idOf, procVars, taskVars, sigVars,
                 notifyVars>>

ScopeStarted(s) ==
  /\ UnitStarted(s, "scope")
  /\ starter' = [starter EXCEPT ![s].pc = "register"]
  /\ cpu' = s
  /\ UNCHANGED <<mapVars, kernelVars, idOf, procVars, taskVars, sigVars,
                 notifyVars>>

\* Starting the slice or the scope fails: start_procs() returns the error.
\* What it already started stays; the child it just forked stays blocked.
SetUpSliceFails(s) ==
  /\ cpu = None
  /\ starter[s].pc \in {"slice", "scope"}
  /\ starter' = [starter EXCEPT ![s] = IdleStarter]
  /\ UNCHANGED <<cpu, mapVars, kernelVars, idOf, procVars, taskVars, sigVars,
                 notifyVars>>

\* The rest of the loop body: release the child, run in_parent() on its fds,
\* insert it, and spawn run_proc(); then the next spec, without an await.
Register(s, fdErr) ==
  LET c == starter[s].child
      id == starter[s].id
      last == starter[s].todo = {}
  IN /\ cpu = s
     /\ starter[s].pc = "register"
     /\ os' = [os EXCEPT ![c] = IF @ = "forked" THEN "released" ELSE @]
     /\ errors' = [errors EXCEPT ![c] = IF fdErr THEN {"fd"} ELSE {}]
     /\ procs' = [procs EXCEPT ![id] = c]
     /\ waitTask' = [waitTask EXCEPT ![c] = "waiting"]
     /\ NotifyAll(<<Start(id)>>)
     /\ starter' = [starter EXCEPT
                      ![s] = IF last THEN IdleStarter
                             ELSE [@ EXCEPT !.pc = "fork", !.id = None,
                                            !.child = None]]
     /\ cpu' = IF last THEN None ELSE s
     /\ UNCHANGED <<shutdown, asked, wrote, holders, sent, idOf, reaped,
                    waitInfo, errTask, told, sigVars>>

-----------------------------------------------------------------------------
(* The child *)

\* Exec closes the child's error pipe ends (CLOEXEC); so does exiting, which
\* also raises SIGCHLD: every SignalWatcher's stream has it, coalesced.
ClosePipes(c) == holders' = [p \in Child |-> holders[p] \ {c}]

\* The children that a SignalWatcher is watching for: start_procs() creates it
\* before the fork.
WatchedSinceInsert == {c \in Child : waitTask[c] # "none"}
Watched == {c \in Child : os[c] # "none"}

Exit(c) ==
  /\ os' = [os EXCEPT ![c] = "zombie"]
  /\ ClosePipes(c)
  /\ stream' = [x \in Child |-> x \in Watched]

ChildExecs(c) ==
  /\ os[c] = "released"
  /\ os' = [os EXCEPT ![c] = "exec"]
  /\ ClosePipes(c)
  /\ UNCHANGED <<mapVars, startVars, wrote, sent, idOf, procVars, taskVars,
                 sigVars, notifyVars>>

\* A check or the execve() fails: the child reports it and exits with 63.
ChildFails(c) ==
  /\ os[c] = "released"
  /\ wrote' = [wrote EXCEPT ![c] = TRUE]
  /\ Exit(c)
  /\ UNCHANGED <<mapVars, startVars, sent, idOf, procVars, taskVars, changed,
                 notifyVars>>

\* The program ends, or a signal ends the child at any point.
ChildExits(c) ==
  /\ os[c] \in Live
  /\ Exit(c)
  /\ UNCHANGED <<mapVars, startVars, wrote, sent, idOf, procVars, taskVars,
                 changed, notifyVars>>

-----------------------------------------------------------------------------
(* The tasks of a started process *)

\* SignalWatcher::watch(): the stream's event goes into the watch channel.
\* (One watcher serves a batch; the model gives each child its own.)
WatchSigchld(c) ==
  /\ cpu = None
  /\ stream[c]
  /\ stream' = [stream EXCEPT ![c] = FALSE]
  /\ changed' = [changed EXCEPT ![c] = TRUE]
  /\ UNCHANGED <<mapVars, startVars, kernelVars, idOf, procVars, taskVars,
                 notifyVars>>

\* wait_for_proc(): on SIGCHLD, a nonblocking wait.  If it reaps the child, no
\* more signals go to the pid, and with systemd its units are finalized before
\* the termination is recorded.
WaitForProc(c) ==
  /\ cpu = None
  /\ waitTask[c] = "waiting"
  /\ changed[c]
  /\ changed' = [changed EXCEPT ![c] = FALSE]
  /\ IF os[c] = "zombie"
       THEN /\ os' = [os EXCEPT ![c] = "gone"]
            /\ reaped' = [reaped EXCEPT ![c] = TRUE]
            /\ waitTask' = [waitTask EXCEPT
                              ![c] = IF Systemd THEN "finalizing" ELSE "done"]
            /\ waitInfo' = [waitInfo EXCEPT ![c] = ~Systemd]
       ELSE UNCHANGED <<os, reaped, waitTask, waitInfo>>
  /\ UNCHANGED <<mapVars, startVars, wrote, holders, sent, idOf, errors,
                 errTask, told, stream, notifyVars>>

\* wait_for_proc(), after finalize_units()
RecordExit(c) ==
  /\ cpu = None
  /\ waitTask[c] = "finalizing"
  /\ waitTask' = [waitTask EXCEPT ![c] = "done"]
  /\ waitInfo' = [waitInfo EXCEPT ![c] = TRUE]
  /\ UNCHANGED <<mapVars, startVars, kernelVars, idOf, reaped, errors, errTask,
                 told, sigVars, notifyVars>>

\* ErrorPipe::in_parent(): close the parent's write end, then read to EOF,
\* which comes when no child holds a write end.  EOF itself is not an error.
NeverAtEof(c) == FALSE
AtEof(c) == holders[c] = {}

ErrorsReadWithEof(c) == (IF wrote[c] THEN {"child"} ELSE {}) \cup {"eof"}
ErrorsRead(c) == IF wrote[c] THEN {"child"} ELSE {}

ErrorTaskStarts(c) ==
  /\ cpu = None
  /\ waitTask[c] # "none"
  /\ errTask[c] = "none"
  /\ errTask' = [errTask EXCEPT ![c] = "reading"]
  /\ UNCHANGED <<mapVars, startVars, kernelVars, idOf, procVars, waitTask, told,
                 sigVars, notifyVars>>

ErrorTaskEnds(c) ==
  /\ cpu = None
  /\ errTask[c] = "reading"
  /\ AtEof(c)
  /\ errTask' = [errTask EXCEPT ![c] = "done"]
  /\ errors' = [errors EXCEPT ![c] = @ \cup ErrorsRead(c)]
  /\ UNCHANGED <<mapVars, startVars, kernelVars, idOf, reaped, waitInfo,
                 waitTask, told, sigVars, notifyVars>>

\* run_proc() has awaited both tasks; start_procs() has it notify.
WaitTaskAwaited(c) == waitTask[c] = "done"
TasksAwaited(c) == errTask[c] = "done" /\ waitTask[c] = "done"

RunProcEnds(c) ==
  /\ cpu = None
  /\ TasksAwaited(c)
  /\ ~told[c]
  /\ told' = [told EXCEPT ![c] = TRUE]
  /\ NotifyAll(<<NotRunning(idOf[c])>>)
  /\ UNCHANGED <<mapVars, startVars, kernelVars, idOf, procVars, errTask,
                 waitTask, sigVars>>

-----------------------------------------------------------------------------
(* The other operations of SharedProcs *)

MayRemoveAny(c) == c \in Child
MayRemove(c) == get_state(c) # "running"

remove_if_not_running(id) ==
  /\ cpu = None
  /\ procs[id] # None
  /\ MayRemove(procs[id])
  /\ procs' = [procs EXCEPT ![id] = None]
  /\ shutdown' = AfterCheckIdling(procs', shutdown)
  /\ NotifyAll(CheckIdlingSends(procs', shutdown) \o <<Delete(id)>>)
  /\ UNCHANGED <<asked, startVars, kernelVars, idOf, procVars, taskVars, sigVars>>

\* Proc::send_signal(): kill() unless the process has been reaped.
SignalledUntilRecorded(c) == ~waitInfo[c]
Signalled(c) == ~reaped[c]

SendSignal(id, sig) ==
  /\ cpu = None
  /\ procs[id] # None
  /\ Signalled(procs[id])
  /\ sent' = [sent EXCEPT ![procs[id]] = @ \cup {sig}]
  /\ UNCHANGED <<mapVars, startVars, os, wrote, holders, idOf, procVars,
                 taskVars, sigVars, notifyVars>>

\* send_signal_all(): the processes that show as running.
SendSignalAll(sig) ==
  /\ cpu = None
  /\ sent' = [c \in Child |->
                IF /\ \E id \in ProcId : procs[id] = c
                   /\ get_state(c) = "running"
                   /\ Signalled(c)
                  THEN sent[c] \cup {sig} ELSE sent[c]]
  /\ UNCHANGED <<mapVars, startVars, os, wrote, holders, idOf, procVars,
                 taskVars, sigVars, notifyVars>>

\* maybe_run_until_exit(): once nothing is running, or on shutdown, results
\* are collected and the shutdown state set.
collect_results ==
  /\ ExitMode
  /\ "exit" \notin asked
  /\ cpu = None
  /\ \/ \A id \in ProcId : procs[id] # None => get_state(procs[id]) # "running"
     \/ shutdown = "done"
  /\ procs' = [id \in ProcId |-> None]
  /\ shutdown' = "done"
  /\ asked' = asked \cup {"exit"}
  /\ \E order \in Orders({id \in ProcId : procs[id] # None}) :
       NotifyAll([i \in DOMAIN order |-> Delete(order[i])]
                   \o CheckIdlingSends(procs', shutdown)
                   \o <<ShutDown("done")>>)
  /\ UNCHANGED <<startVars, kernelVars, idOf, procVars, taskVars, sigVars>>

set_shutdown(st) ==
  /\ cpu = None
  /\ st \in {"idling", "done"} \ asked
  /\ asked' = asked \cup {st}
  /\ shutdown' = AfterCheckIdling(procs, st)
  /\ NotifyAll(<<ShutDown(st)>> \o CheckIdlingSends(procs, st))
  /\ UNCHANGED <<procs, startVars, kernelVars, idOf, procVars, taskVars, sigVars>>

SubscriberStep(s) ==
  /\ cpu = None
  /\ Subscribe(s) \/ Recv(s) \/ Unsubscribe(s)
  /\ UNCHANGED <<mapVars, startVars, kernelVars, idOf, procVars, taskVars,
                 sigVars>>

-----------------------------------------------------------------------------
StarterNext ==
  \E s \in Starter :
    \/ \E ids \in SUBSET ProcId : StartProcs(s, ids)
    \/ \E id \in ProcId, c \in Child : Fork(s, id, c)
    \/ SliceStarted(s)
    \/ ScopeStarted(s)
    \/ SetUpSliceFails(s)
    \/ \E fdErr \in FdErr : Register(s, fdErr)

ChildNext == \E c \in Child : ChildExecs(c) \/ ChildFails(c) \/ ChildExits(c)

TaskNext ==
  \E c \in Child :
    \/ WatchSigchld(c)
    \/ WaitForProc(c)
    \/ RecordExit(c)
    \/ ErrorTaskStarts(c)
    \/ ErrorTaskEnds(c)
    \/ RunProcEnds(c)

ClientNext ==
  \/ \E id \in ProcId : remove_if_not_running(id)
  \/ \E id \in ProcId, sig \in Signum : SendSignal(id, sig)
  \/ \E sig \in Signum : SendSignalAll(sig)
  \/ collect_results
  \/ \E st \in ShutdownState : set_shutdown(st)
  \/ \E s \in Sub : SubscriberStep(s)

Next == StarterNext \/ ChildNext \/ TaskNext \/ ClientNext

\* The executor runs every ready task, and the kernel every runnable child
\* until it has execed.  A program may run for ever, unless it is killed.
\* Nothing makes systemd answer set_up_slice(), which has no timeout.
Fairness ==
  /\ \A s \in Starter :
       /\ WF_vars(\E id \in ProcId, c \in Child : Fork(s, id, c))
       /\ WF_vars(\E fdErr \in FdErr : Register(s, fdErr))
  /\ \A c \in Child :
       /\ WF_vars(ChildExecs(c) \/ ChildFails(c))
       /\ WF_vars("KILL" \in sent[c] /\ ChildExits(c))
       /\ WF_vars(WatchSigchld(c))
       /\ WF_vars(WaitForProc(c))
       /\ WF_vars(RecordExit(c))
       /\ WF_vars(ErrorTaskStarts(c))
       /\ WF_vars(ErrorTaskEnds(c))
       /\ WF_vars(RunProcEnds(c))

Spec == Init /\ [][Next]_vars
FairSpec == Spec /\ Fairness

-----------------------------------------------------------------------------
(* Properties *)

StarterState ==
  [pc : {"idle", "fork", "slice", "scope", "register"}, todo : SUBSET ProcId,
   id : ProcId \cup {None}, child : Child \cup {None}]

\* Every variable has its type; a caller past fork() has a child and its ID.
TypeOK ==
  /\ procs \in [ProcId -> Child \cup {None}]
  /\ shutdown \in ShutdownState
  /\ asked \in SUBSET {"idling", "done", "exit"}
  /\ cpu \in Starter \cup {None}
  /\ starter \in [Starter -> StarterState]
  /\ os \in [Child -> OsState]
  /\ wrote \in [Child -> BOOLEAN]
  /\ holders \in [Child -> SUBSET Child]
  /\ sent \in [Child -> SUBSET Signum]
  /\ idOf \in [Child -> ProcId \cup {None}]
  /\ reaped \in [Child -> BOOLEAN]
  /\ waitInfo \in [Child -> BOOLEAN]
  /\ errors \in [Child -> SUBSET {"fd", "child"}]
  /\ errTask \in [Child -> {"none", "reading", "done"}]
  /\ waitTask \in [Child -> {"none", "waiting", "finalizing", "done"}]
  /\ told \in [Child -> BOOLEAN]
  /\ stream \in [Child -> BOOLEAN]
  /\ changed \in [Child -> BOOLEAN]

Started(c) == waitTask[c] # "none"

\* No SIGCHLD is lost: while a child that exited waits to be reaped, its
\* wait_for_proc() has a wakeup coming, however signals coalesce and whenever
\* the child died, even before start_procs() registered it.
NoLostSigchld ==
  \A c \in Child :
    os[c] = "zombie" /\ waitTask[c] \in {"none", "waiting"}
      => stream[c] \/ changed[c]

\* A started process that shows as anything but running, so that it may be
\* deleted and is passed over by send_signal_all(), is no longer alive; unless
\* what failed is the parent's own half of the fd setup.
NotRunningHasExited ==
  \A c \in Child :
    Started(c) /\ get_state(c) # "running" /\ "fd" \notin errors[c]
      => os[c] \in {"zombie", "gone"}

\* A live process is under its proc ID in the map, where clients can see it,
\* signal it and wait for it, until --exit collects the results.
LiveIsTracked ==
  "exit" \notin asked =>
    \A c \in Child :
      Started(c) /\ os[c] \in Live /\ "fd" \notin errors[c]
        => procs[idOf[c]] = c

\* While the shutdown state is idling there is still a process whose deletion
\* will complete the shutdown: no path that empties the map misses
\* check_idling().
IdlingTracksSomething == shutdown = "idling" => ~IsEmpty(procs)

\* What a child wrote to its error pipe is in its record by the time its
\* NotRunning is sent: the result clients then read shows the error.
ErrorsComplete ==
  \A c \in Child : told[c] /\ wrote[c] => "child" \in errors[c]

\* No signal is sent to the pid of a process that has been waited for, which
\* may belong to another process by then.
NoStraySignal ==
  [][\A c \in Child : sent'[c] # sent[c] => os[c] \notin {"none", "gone"}]_vars

\* Once the NotRunning of a process is sent, its record does not change.
FinalOnceTold ==
  [][\A c \in Child :
       told[c] => waitInfo'[c] = waitInfo[c] /\ errors'[c] = errors[c]]_vars

\* A process is inserted only under a proc ID that no other is under.
NoOverwrite ==
  [][\A id \in ProcId :
       procs[id] # None => procs'[id] \in {procs[id], None}]_vars

\* No process is started once a shutdown has been requested.
StartsOnlyWhileActive ==
  [][\A c \in Child : ~Started(c) /\ Started(c)' => shutdown = "active"]_vars

\* Every started process that exits is reaped and recorded.
ExitIsRecorded ==
  \A c \in Child : (Started(c) /\ os[c] = "zombie") ~> waitInfo[c]

\* Every recorded termination is followed by the NotRunning notification.
TerminationIsTold == \A c \in Child : waitInfo[c] ~> told[c]

\* The registry as its clients see it.
Reg ==
  INSTANCE Registry WITH
    Proc <- Child,
    idOf <- [c \in Child |-> IF Started(c) THEN idOf[c] ELSE None],
    state <- [c \in Child |-> IF Started(c) THEN get_state(c) ELSE "none"]

\* procs.rs implements the registry its clients rely on.
ImplementsRegistry == Reg!Spec
=============================================================================
