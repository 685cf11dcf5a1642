------------------------------- MODULE Units --------------------------------
(***************************************************************************)
(* finalize_units() of procs.rs: what happens to the systemd scope and     *)
(* slice of a process between its reaping and the record of its            *)
(* termination.  Every await is a step boundary; systemd moves on its own, *)
(* also while the files of the accounting are read, which no await divides. *)
(***************************************************************************)
EXTENDS Accounting

CONSTANT MaxTries     \* passes over the units: the first, and one retry

ASSUME MaxTriesAssumption == MaxTries \in Nat \ {0}

VARIABLES
  scope, slice,       \* the units, as systemd has them
  result,             \* the scope's Result property
  lateReset,          \* a reset request we stopped waiting for is on its way
  pc, tries, ok,      \* finalize_units_inner()
  seen,               \* the ActiveState that get_scope_state() has read
  fin                 \* struct UnitsFinal

systemdVars == <<scope, slice, result, lateReset>>
vars == <<systemdVars, accountingVars, pc, tries, ok, seen, fin>>

UnitState == {"active", "failed", "inactive", "gone"}
Pc == {"stop_scope", "active_state", "scope_result", "reset", "accounting",
       "load", "stop_slice", "done"}

Init ==
  /\ scope \in UnitState
  /\ slice = "active"
  /\ result = IF scope = "failed" THEN "failure" ELSE "success"
  /\ lateReset = FALSE
  /\ pc = "stop_scope"
  /\ tries = 1
  /\ ok = TRUE
  /\ seen = "active"
  /\ fin = [scope_result |-> "none", accounting |-> NotLoaded,
            incomplete |-> FALSE]
  /\ AccountingInit

-----------------------------------------------------------------------------
(* systemd *)

\* The scope empties, or it fails (oom-kill); an emptied transient unit is
\* unloaded unless something still refers to it.
ScopeEnds(st) ==
  /\ scope = "active"
  /\ st \in {"inactive", "gone", "failed"}
  /\ scope' = st
  /\ result' = IF st = "failed" THEN "failure" ELSE result
  /\ UNCHANGED <<slice, lateReset, pc, tries, ok, seen, fin, accountingVars>>

ScopeUnloads ==
  /\ scope = "inactive"
  /\ scope' = "gone"
  /\ UNCHANGED <<slice, result, lateReset, pc, tries, ok, seen, fin, accountingVars>>

SliceEnds ==
  /\ slice = "active"
  /\ scope # "active"
  /\ slice' = "gone"
  /\ UNCHANGED <<scope, result, lateReset, pc, tries, ok, seen, fin, accountingVars>>

\* A reset forgets the failure and its result.
Reset(st) ==
  /\ scope = "failed"
  /\ st \in {"inactive", "gone"}
  /\ scope' = st
  /\ result' = "success"

ResetTakesEffect(st) ==
  /\ lateReset
  /\ Reset(st)
  /\ lateReset' = FALSE
  /\ UNCHANGED <<slice, pc, tries, ok, seen, fin, accountingVars>>

CGroupUse(g, n) ==
  /\ slice = "active"
  /\ Use(g, n)
  /\ UNCHANGED <<systemdVars, pc, tries, ok, seen, fin>>

-----------------------------------------------------------------------------
(* UnitsFinal *)

FirstScopeResult(old, new) == IF old = "none" THEN new ELSE old
record_scope_result(old, new) ==
  IF new = "success" /\ old = "failure" THEN old ELSE new

LatestAccounting(old, new) == new
record_accounting(old, new) == IF new = NotLoaded THEN old ELSE new

-----------------------------------------------------------------------------
(* finalize_units_inner() *)

\* stop_and_wait(): a completed stop job, or NoSuchUnit, means that the unit
\* is not active; anything else (another job result, a timeout, an error)
\* means nothing.
Confirms(confirmed, unit) == confirmed => unit # "active"

\* stop_unit(scope)
StopScope(confirmed) ==
  /\ pc = "stop_scope"
  /\ Confirms(confirmed, scope)
  /\ ok' = (ok /\ confirmed)
  /\ pc' = "active_state"
  /\ UNCHANGED <<systemdVars, tries, seen, fin, accountingVars>>

\* settle_scope(): get_scope_state() reads ActiveState, then Result.  NoSuchUnit
\* is settled; a failure or a timeout at either read is not.
ReadActiveState ==
  /\ pc = "active_state"
  /\ scope # "gone"
  /\ seen' = scope
  /\ pc' = "scope_result"
  /\ UNCHANGED <<systemdVars, tries, ok, fin, accountingVars>>

ReadNoSuchUnit ==
  /\ pc \in {"active_state", "scope_result"}
  /\ scope = "gone"
  /\ pc' = "accounting"
  /\ UNCHANGED <<systemdVars, tries, ok, seen, fin, accountingVars>>

ReadFails ==
  /\ pc \in {"active_state", "scope_result"}
  /\ ok' = FALSE
  /\ pc' = "accounting"
  /\ UNCHANGED <<systemdVars, tries, seen, fin, accountingVars>>

\* The result is recorded at once; then a failed scope is to be reset, an
\* inactive one is settled, any other is not.
ReadResult ==
  /\ pc = "scope_result"
  /\ scope # "gone"
  /\ fin' = [fin EXCEPT !.scope_result = record_scope_result(@, result)]
  /\ pc' = IF seen = "failed" THEN "reset" ELSE "accounting"
  /\ ok' = (ok /\ seen \in {"failed", "inactive"})
  /\ UNCHANGED <<systemdVars, tries, seen, accountingVars>>

ResetFailedUnit(st) ==
  /\ pc = "reset"
  /\ \/ Reset(st)
     \/ scope = "inactive" /\ UNCHANGED <<scope, result>>
  /\ pc' = "accounting"
  /\ UNCHANGED <<slice, lateReset, tries, ok, seen, fin, accountingVars>>

\* The reset is refused, or we stop waiting for it.
ResetFails(late) ==
  /\ pc = "reset"
  /\ lateReset' = (lateReset \/ late)
  /\ ok' = FALSE
  /\ pc' = "accounting"
  /\ UNCHANGED <<scope, slice, result, tries, seen, fin, accountingVars>>

\* read_accounting() awaits the path of the slice's cgroup: an error or a
\* timeout gives no accounting.
GetCGroupPath(found) ==
  /\ pc = "accounting"
  /\ found => slice = "active"
  /\ fin' = [fin EXCEPT !.accounting =
                IF found THEN @ ELSE record_accounting(@, NotLoaded)]
  /\ pc' = IF found THEN "load" ELSE "stop_slice"
  /\ UNCHANGED <<systemdVars, tries, ok, seen, accountingVars>>

\* CGroupAccounting::load_or_log(), without an await.
LoadStep ==
  /\ pc = "load"
  /\ LET there == slice = "active"
     IN \/ LoadControllers(there)
        \/ \E f \in File : LoadFile(there, f) \/ LoadPasses(there, f)
  /\ UNCHANGED <<systemdVars, pc, tries, ok, seen, fin>>

RecordLoad ==
  /\ pc = "load"
  /\ \/ /\ Loaded
        /\ fin' = [fin EXCEPT !.accounting = record_accounting(@, LoadResult)]
     \/ /\ LoadCannot(slice = "active")
        /\ fin' = [fin EXCEPT !.accounting = record_accounting(@, NotLoaded)]
  /\ LoadReset
  /\ pc' = "stop_slice"
  /\ UNCHANGED <<systemdVars, tries, ok, seen>>

\* stop_unit(slice); then one retry if anything was not confirmed.
IncompleteSlice(confirmed) == ~confirmed
Incomplete(confirmed) == ~(ok /\ confirmed)

MayRetryAgain == tries <= MaxTries
MayRetry == tries < MaxTries

StopSlice(confirmed) ==
  /\ pc = "stop_slice"
  /\ Confirms(confirmed, slice)
  /\ IF Incomplete(confirmed) /\ MayRetry
       THEN /\ pc' = "stop_scope"
            /\ tries' = tries + 1
            /\ ok' = TRUE
            /\ UNCHANGED fin
       ELSE /\ pc' = "done"
            /\ fin' = [fin EXCEPT !.incomplete = Incomplete(confirmed)]
            /\ UNCHANGED <<tries, ok>>
  /\ UNCHANGED <<systemdVars, seen, accountingVars>>

\* finalize_units(): the overall budget runs out, whatever is being awaited.
InStop == pc \in {"stop_scope", "stop_slice"}
InBudget == pc \notin {"load", "done"}

BudgetExpires ==
  /\ InBudget
  /\ pc' = "done"
  /\ fin' = [fin EXCEPT !.incomplete = TRUE]
  /\ UNCHANGED <<systemdVars, tries, ok, seen, accountingVars>>

-----------------------------------------------------------------------------
SystemdNext ==
  \/ \E st \in UnitState : ScopeEnds(st) \/ ResetTakesEffect(st)
  \/ ScopeUnloads
  \/ SliceEnds
  \/ \E g \in Gauge, n \in 0..MaxUse : CGroupUse(g, n)

InnerNext ==
  \/ \E confirmed \in BOOLEAN : StopScope(confirmed) \/ StopSlice(confirmed)
  \/ ReadActiveState
  \/ ReadNoSuchUnit
  \/ ReadFails
  \/ ReadResult
  \/ \E st \in UnitState : ResetFailedUnit(st)
  \/ \E late \in BOOLEAN : ResetFails(late)
  \/ \E found \in BOOLEAN : GetCGroupPath(found)
  \/ LoadStep
  \/ RecordLoad

Next == SystemdNext \/ InnerNext \/ BudgetExpires

\* The budget is a timer, and what has no await runs on.  No other await is
\* assumed to end.
Spec ==
  /\ Init
  /\ [][Next]_vars
  /\ WF_vars(BudgetExpires)
  /\ WF_vars(LoadStep)
  /\ WF_vars(RecordLoad)

-----------------------------------------------------------------------------
(* Properties *)

Fin == [scope_result : {"none", "success", "failure"}, accounting : Accounts,
        incomplete : BOOLEAN]

\* Every variable has its type.
TypeOK ==
  /\ scope \in UnitState
  /\ slice \in {"active", "gone"}
  /\ result \in {"success", "failure"}
  /\ lateReset \in BOOLEAN
  /\ pc \in Pc
  /\ tries \in 1..MaxTries
  /\ ok \in BOOLEAN
  /\ seen \in UnitState
  /\ fin \in Fin
  /\ AccountingTypeOK

\* A termination recorded without cleanup_incomplete has left nothing behind:
\* no process in the scope, no failed unit loaded, no slice.
CleanIfNotIncomplete ==
  pc = "done" /\ ~fin.incomplete
    => scope \in {"inactive", "gone"} /\ slice = "gone"

\* The result of a failed scope is recorded before anything can reset it: once
\* a reset has been asked for, the failure is in the record.
FailureRecordedBeforeReset ==
  pc = "reset" \/ lateReset => fin.scope_result = "failure"

\* Evidence once collected is kept through the retry and through a timeout.
EvidenceKept ==
  [][/\ fin.scope_result = "failure" => fin'.scope_result = "failure"
     /\ fin.accounting # NotLoaded => fin'.accounting # NotLoaded]_vars

\* A part that the recorded accounting lacks is one the kernel does not offer:
\* None never means that the cgroup went away in the middle of the reads, which
\* would look to a reader like a process without, say, OOM events.
AbsentIsNotOffered ==
  fin.accounting # NotLoaded =>
    \A f \in File :
      Wanted(f) /\ f \notin fin.accounting.read => f \in kernel.missing

\* The accounting is consistent although its files are read one by one while
\* the cgroup is still in use: no peak is below the use read beside it.
PeakCoversCurrent ==
  \A g \in Gauge :
    peak[g] \in fin.accounting.read
      => fin.accounting.value[current[g]] <= fin.accounting.value[peak[g]]

\* The termination is recorded in the end, though systemd may never answer.
Terminates == <>(pc = "done")
=============================================================================
