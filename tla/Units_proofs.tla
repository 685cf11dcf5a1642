---------------------------- MODULE Units_proofs ----------------------------
(***************************************************************************)
(* Proofs of the safety of finalize_units(), for any number of retries,    *)
(* any kernel and any use of the cgroup.                                   *)
(***************************************************************************)
EXTENDS Units, TLAPS

\* What a pass has confirmed so far, if it is still ok: past the stop of the
\* scope, it is not active; past settle_scope(), it is settled.
PassInv ==
  /\ ok /\ pc \in {"active_state", "scope_result", "reset"} => scope # "active"
  /\ ok /\ pc \in {"accounting", "load", "stop_slice"}
       => scope \in {"inactive", "gone"}
  /\ pc = "scope_result" /\ seen = "inactive" => scope \in {"inactive", "gone"}

\* A failed scope keeps its result, and only we reset it.
ResetInv ==
  /\ scope = "failed" => result = "failure"
  /\ pc = "scope_result" /\ seen = "failed" =>
       scope = "failed" \/ fin.scope_result = "failure"
  /\ FailureRecordedBeforeReset

\* The variables of finalize_units() but the accounting.
UnitsTypeOK ==
  /\ scope \in UnitState
  /\ slice \in {"active", "gone"}
  /\ result \in {"success", "failure"}
  /\ lateReset \in BOOLEAN
  /\ pc \in Pc
  /\ tries \in 1..MaxTries
  /\ ok \in BOOLEAN
  /\ seen \in UnitState
  /\ fin \in Fin

UnitsInv == UnitsTypeOK /\ PassInv /\ ResetInv /\ CleanIfNotIncomplete

-----------------------------------------------------------------------------
(* The accounting *)

\* The files that load() is done with.
Past(f) == \E i \in 1..Len(LoadOrder) : i < load.at /\ LoadOrder[i] = f

\* A file that was passed over is not offered, or the cgroup is gone: then
\* the last file, which is required, cannot be read any more.
PassedInv ==
  /\ \A f \in load.read : Past(f)
  /\ \A f \in File :
       Past(f) /\ Wanted(f) /\ f \notin load.read
         => f \in kernel.missing \/ (slice = "gone" /\ ~Loaded)

\* What a file said of the use of a resource is covered by the peak of now,
\* which is read later and never falls.
PeakInv ==
  \A g \in Gauge :
    /\ gauge[g].current <= gauge[g].peak
    /\ load.value[current[g]] <= gauge[g].peak
    /\ peak[g] \in load.read => load.value[current[g]] <= load.value[peak[g]]

LoadInv == AccountingTypeOK /\ PassedInv /\ PeakInv

RecordInv == AbsentIsNotOffered /\ PeakCoversCurrent

IInv == UnitsInv /\ LoadInv /\ RecordInv

-----------------------------------------------------------------------------
\* Each file has its place in the order of reads.
LEMMA OrderFacts ==
  /\ Len(LoadOrder) = 10
  /\ LoadOrder[1] = "pids.current" /\ LoadOrder[2] = "pids.peak"
  /\ LoadOrder[3] = "memory.events" /\ LoadOrder[4] = "memory.events.local"
  /\ LoadOrder[5] = "memory.max" /\ LoadOrder[6] = "memory.current"
  /\ LoadOrder[7] = "memory.peak" /\ LoadOrder[8] = "memory.swap.current"
  /\ LoadOrder[9] = "memory.swap.peak" /\ LoadOrder[10] = "cpu.stat"
  BY DEF LoadOrder

\* The places 1 to 10, one by one.
LEMMA Places ==
  \A i \in 1..10 : i = 1 \/ i = 2 \/ i = 3 \/ i = 4 \/ i = 5 \/ i = 6 \/ i = 7
                     \/ i = 8 \/ i = 9 \/ i = 10
  OBVIOUS

\* The peak of a resource is read after its current use.
LEMMA PeakAfterCurrent ==
  \A g \in Gauge : \A i, j \in 1..10 :
    LoadOrder[i] = peak[g] /\ LoadOrder[j] = current[g] => j < i
<1>1. /\ peak["pids"] = "pids.peak" /\ current["pids"] = "pids.current"
      /\ peak["memory"] = "memory.peak" /\ current["memory"] = "memory.current"
      /\ peak["swap"] = "memory.swap.peak"
      /\ current["swap"] = "memory.swap.current"
  BY DEF peak, current
<1>2. \A i \in 1..10 : LoadOrder[i] = "pids.peak" => i = 2
  BY Places, OrderFacts
<1>3. \A i \in 1..10 : LoadOrder[i] = "memory.peak" => i = 7
  BY Places, OrderFacts
<1>4. \A i \in 1..10 : LoadOrder[i] = "memory.swap.peak" => i = 9
  BY Places, OrderFacts
<1>5. \A i \in 1..10 : LoadOrder[i] = "pids.current" => i = 1
  BY Places, OrderFacts
<1>6. \A i \in 1..10 : LoadOrder[i] = "memory.current" => i = 6
  BY Places, OrderFacts
<1>7. \A i \in 1..10 : LoadOrder[i] = "memory.swap.current" => i = 8
  BY Places, OrderFacts
<1> QED
  BY <1>1, <1>2, <1>3, <1>4, <1>5, <1>6, <1>7 DEF Gauge

\* The empty accounting is an accounting.
LEMMA NotLoadedType == NotLoaded \in Accounts
  BY KernelsAssumption DEF NotLoaded, Accounts, Values

\* The steps of load() keep its invariant.
LEMMA LoadInvStep == UnitsTypeOK /\ LoadInv /\ [Next]_vars => LoadInv'
<1> SUFFICES ASSUME UnitsTypeOK, LoadInv, [Next]_vars PROVE LoadInv'
  OBVIOUS
<1> USE KernelsAssumption DEF UnitsTypeOK, LoadInv, AccountingTypeOK
<1>1. ASSUME UNCHANGED accountingVars, slice' = slice \/ slice' = "gone"
      PROVE LoadInv'
  BY <1>1 DEF accountingVars, PassedInv, PeakInv, Past, Wanted, Loaded
<1>2. ASSUME NEW g \in Gauge, NEW n \in 0..MaxUse, CGroupUse(g, n)
      PROVE LoadInv'
  <2>1. gauge' \in [Gauge -> [current : 0..MaxUse, peak : 0..MaxUse]]
    BY <1>2 DEF CGroupUse, Use
  <2>2. \A h \in Gauge : gauge[h].peak <= gauge'[h].peak
    BY <1>2, <2>1 DEF CGroupUse, Use
  <2>3. \A h \in Gauge : load.value[current[h]] \in 0..MaxUse
    BY DEF Values, File
  <2>4. PeakInv'
    BY <1>2, <2>1, <2>2, <2>3 DEF CGroupUse, Use, PeakInv
  <2> QED
    BY <1>2, <2>1, <2>4 DEF CGroupUse, Use, systemdVars, PassedInv, Past, Wanted,
       Loaded
<1>3. ASSUME LoadStep, NEW there, LoadControllers(there)
      PROVE LoadInv'
  BY <1>3, OrderFacts DEF LoadStep, LoadControllers, systemdVars, PassedInv,
     PeakInv, Past, Wanted, Loaded
<1>4. ASSUME LoadStep, NEW f \in File, LoadFile(slice = "active", f)
      PROVE LoadInv'
  <2>1. /\ load.at \in 1..10 /\ f = LoadOrder[load.at]
        /\ Wanted(f) /\ slice = "active"
        /\ UNCHANGED <<kernel, gauge, slice>>
    BY <1>4, OrderFacts DEF LoadStep, LoadFile, Turn, Readable, Offered, systemdVars
  <2>2. PICK v \in 0..MaxUse :
          /\ Shows(f, v)
          /\ load' = [load EXCEPT !.at = @ + 1, !.read = @ \cup {f},
                                  !.value = [@ EXCEPT ![f] = v]]
    BY <1>4 DEF LoadFile
  <2>3. /\ load'.at = load.at + 1 /\ load'.read = load.read \cup {f}
        /\ load'.value = [load.value EXCEPT ![f] = v]
    BY <2>2
  <2>4. load'.value \in Values /\ load'.read \in SUBSET File /\ load'.at \in 0..11
    <3>1. load.value \in Values /\ load.read \in SUBSET File
      BY DEF Values
    <3>2. [load.value EXCEPT ![f] = v] \in Values
      BY ONLY <3>1, f \in File, v \in 0..MaxUse DEF Values
    <3>3. load'.at \in 0..11
      BY <2>1, <2>3
    <3> QED
      BY <2>3, <3>1, <3>2, <3>3
  <2>5. AccountingTypeOK'
    <3>1. load' = [at |-> load'.at, read |-> load'.read, value |-> load'.value]
      BY <2>2
    <3> QED
      BY <2>1, <2>4, <3>1, OrderFacts
  <2>6. \A h : Past(h)' <=> Past(h) \/ h = f
    BY <2>1, <2>3, OrderFacts DEF Past
  <2>7. PassedInv'
    BY <2>1, <2>3, <2>6 DEF PassedInv, Wanted
  <2>8. ASSUME NEW g \in Gauge
        PROVE  /\ gauge'[g].current <= gauge'[g].peak
               /\ load'.value[current[g]] <= gauge'[g].peak
               /\ peak[g] \in load'.read
                    => load'.value[current[g]] <= load'.value[peak[g]]
    <3>1. /\ current[g] \in File /\ peak[g] \in File
          /\ gauge[g].current \in 0..MaxUse /\ gauge[g].peak \in 0..MaxUse
      BY DEF File
    <3>2. /\ gauge[g].current <= gauge[g].peak
          /\ load.value[current[g]] <= gauge[g].peak
          /\ peak[g] \in load.read
               => load.value[current[g]] <= load.value[peak[g]]
      BY DEF PeakInv
    <3>3. CASE f = current[g]
      <4>1. v = gauge[g].current
        BY <2>2, <3>3 DEF Shows, Gauge, current, peak, Optional
      <4>2. ~Past(peak[g])
        <5> SUFFICES ASSUME NEW i \in 1..10, i < load.at, LoadOrder[i] = peak[g]
                     PROVE FALSE
          BY OrderFacts DEF Past
        <5>1. load.at < i
          BY <2>1, <3>3, PeakAfterCurrent
        <5> QED
          BY <2>1, <5>1
      <4>3. peak[g] \notin load.read
        BY <4>2 DEF PassedInv
      <4>4. peak[g] # current[g]
        BY DEF Gauge, current, peak
      <4> QED
        BY <2>1, <2>3, <3>1, <3>2, <3>3, <4>1, <4>3, <4>4 DEF Values
    <3>4. CASE f = peak[g]
      <4>1. v = gauge[g].peak
        BY <2>2, <3>4 DEF Shows, Gauge, current, peak, Optional
      <4>2. peak[g] # current[g]
        BY DEF Gauge, current, peak
      <4> QED
        BY <2>1, <2>3, <3>1, <3>2, <3>4, <4>1, <4>2 DEF Values
    <3>5. CASE f # current[g] /\ f # peak[g]
      BY <2>1, <2>3, <3>1, <3>2, <3>5 DEF Values
    <3> QED
      BY <3>3, <3>4, <3>5
  <2> QED
    BY <2>5, <2>7, <2>8 DEF PeakInv
<1>5. ASSUME LoadStep, NEW f \in File, LoadPasses(slice = "active", f)
      PROVE LoadInv'
  <2>1. /\ load.at \in 1..10 /\ f = LoadOrder[load.at]
        /\ Wanted(f) => f \in Optional /\ (slice = "gone" \/ f \in kernel.missing)
        /\ load' = [load EXCEPT !.at = @ + 1]
        /\ UNCHANGED <<kernel, gauge, slice>>
    BY <1>5, OrderFacts DEF LoadStep, LoadPasses, Turn, Readable, Offered, systemdVars
  <2>2. /\ load'.at = load.at + 1 /\ load'.read = load.read
        /\ load'.value = load.value
        /\ load' \in [at : 0..11, read : SUBSET File, value : Values]
    BY <2>1
  <2>3. \A h : Past(h)' <=> Past(h) \/ h = f
    BY <2>1, <2>2, OrderFacts DEF Past
  <2>4. ~Loaded'
    BY <2>1, <2>2, OrderFacts DEF Loaded, Wanted, Optional
  <2>5. PassedInv'
    BY <2>1, <2>2, <2>3, <2>4 DEF PassedInv, Wanted
  <2> QED
    BY <2>1, <2>2, <2>5, OrderFacts DEF PeakInv
<1>6. CASE RecordLoad
  <2>1. /\ load' = LoadStart
        /\ UNCHANGED <<kernel, gauge, slice>>
    BY <1>6 DEF RecordLoad, LoadReset, systemdVars
  <2>2. /\ load'.at = 0 /\ load'.read = {} /\ load'.value = [h \in File |-> 0]
        /\ load' \in [at : 0..11, read : SUBSET File, value : Values]
    BY <2>1 DEF LoadStart, Values
  <2>3. \A g \in Gauge : current[g] \in File /\ gauge[g].peak \in 0..MaxUse
    BY DEF File
  <2> QED
    BY <2>1, <2>2, <2>3, OrderFacts DEF PassedInv, PeakInv, Past, Wanted
<1>7. ~LoadStep /\ ~RecordLoad /\ ~(\E g \in Gauge, n \in 0..MaxUse : CGroupUse(g, n))
        => UNCHANGED accountingVars /\ (slice' = slice \/ slice' = "gone")
  BY DEF Next, SystemdNext, InnerNext, ScopeEnds, ResetTakesEffect, ScopeUnloads,
     SliceEnds, StopScope, StopSlice, ReadActiveState, ReadNoSuchUnit, ReadFails,
     ReadResult, ResetFailedUnit, ResetFails, GetCGroupPath, BudgetExpires,
     systemdVars, accountingVars, vars
<1> QED
  BY <1>1, <1>2, <1>3, <1>4, <1>5, <1>6, <1>7 DEF LoadStep

-----------------------------------------------------------------------------
(* The units *)

\* record_accounting() never forgets, and keeps the type.
LEMMA RecordAccounting ==
  ASSUME NEW old \in Accounts, NEW new \in Accounts
  PROVE  /\ record_accounting(old, new) \in Accounts
         /\ record_accounting(old, NotLoaded) = old
         /\ old # NotLoaded => record_accounting(old, new) # NotLoaded
  BY DEF record_accounting

\* The result of load() is an accounting.
LEMMA LoadResultType == AccountingTypeOK => LoadResult \in Accounts
  BY DEF AccountingTypeOK, LoadResult, Accounts

\* The steps keep the invariant of the units.
LEMMA UnitsInvStep ==
  UnitsInv /\ AccountingTypeOK /\ [Next]_vars => UnitsInv'
<1> SUFFICES ASSUME UnitsInv, AccountingTypeOK, [Next]_vars PROVE UnitsInv'
  OBVIOUS
<1> USE MaxTriesAssumption
<1> USE DEF UnitsInv, UnitsTypeOK, PassInv, ResetInv, FailureRecordedBeforeReset,
        CleanIfNotIncomplete, UnitState, Pc, Fin, systemdVars
<1>1. ASSUME NEW st \in UnitState, ScopeEnds(st) PROVE UnitsInv'
  BY <1>1 DEF ScopeEnds
<1>2. ASSUME NEW st \in UnitState, ResetTakesEffect(st) PROVE UnitsInv'
  BY <1>2 DEF ResetTakesEffect, Reset
<1>3. CASE ScopeUnloads
  BY <1>3 DEF ScopeUnloads
<1>4. CASE SliceEnds
  BY <1>4 DEF SliceEnds
<1>5. ASSUME NEW g \in Gauge, NEW n \in 0..MaxUse, CGroupUse(g, n)
      PROVE UnitsInv'
  BY <1>5 DEF CGroupUse
<1>6. ASSUME NEW confirmed \in BOOLEAN, StopScope(confirmed) PROVE UnitsInv'
  BY <1>6 DEF StopScope, Confirms
<1>7. CASE ReadActiveState
  BY <1>7 DEF ReadActiveState
<1>8. CASE ReadNoSuchUnit
  BY <1>8 DEF ReadNoSuchUnit
<1>9. CASE ReadFails
  BY <1>9 DEF ReadFails
<1>10. CASE ReadResult
  BY <1>10 DEF ReadResult, record_scope_result
<1>11. ASSUME NEW st \in UnitState, ResetFailedUnit(st) PROVE UnitsInv'
  BY <1>11 DEF ResetFailedUnit, Reset
<1>12. ASSUME NEW late \in BOOLEAN, ResetFails(late) PROVE UnitsInv'
  BY <1>12 DEF ResetFails
<1>13. ASSUME NEW found \in BOOLEAN, GetCGroupPath(found) PROVE UnitsInv'
  <2>1. fin' = fin
    BY <1>13, NotLoadedType, RecordAccounting DEF GetCGroupPath
  <2> QED
    BY <1>13, <2>1 DEF GetCGroupPath
<1>14. CASE LoadStep
  BY <1>14 DEF LoadStep
<1>15. CASE RecordLoad
  <2>1. PICK new \in Accounts :
          fin' = [fin EXCEPT !.accounting = record_accounting(@, new)]
    BY <1>15, NotLoadedType, LoadResultType DEF RecordLoad
  <2>2. fin' \in Fin /\ fin'.scope_result = fin.scope_result
    BY <2>1, RecordAccounting
  <2> QED
    BY <1>15, <2>2 DEF RecordLoad
<1>16. ASSUME NEW confirmed \in BOOLEAN, StopSlice(confirmed) PROVE UnitsInv'
  <2>1. CASE Incomplete(confirmed) /\ MayRetry
    BY <1>16, <2>1 DEF StopSlice, Confirms, MayRetry
  <2>2. CASE ~(Incomplete(confirmed) /\ MayRetry)
    <3>1. Incomplete(confirmed) \in BOOLEAN
      BY DEF Incomplete
    <3>2. fin' = [fin EXCEPT !.incomplete = Incomplete(confirmed)]
      BY <1>16, <2>2 DEF StopSlice, Confirms
    <3>3. /\ fin' \in Fin
          /\ fin'.incomplete = Incomplete(confirmed)
          /\ fin'.scope_result = fin.scope_result
      BY <3>1, <3>2
    <3>4. ~fin'.incomplete => ok /\ confirmed
      BY <3>3 DEF Incomplete
    <3> QED
      BY <1>16, <2>2, <3>3, <3>4 DEF StopSlice, Confirms
  <2> QED
    BY <2>1, <2>2
<1>17. CASE BudgetExpires
  BY <1>17 DEF BudgetExpires, InBudget
<1>18. CASE UNCHANGED vars
  BY <1>18 DEF vars
<1> QED
  BY <1>1, <1>2, <1>3, <1>4, <1>5, <1>6, <1>7, <1>8, <1>9, <1>10, <1>11, <1>12,
     <1>13, <1>14, <1>15, <1>16, <1>17, <1>18 DEF Next, SystemdNext, InnerNext

-----------------------------------------------------------------------------
(* The recorded accounting *)

\* Every file has its turn.
LEMMA AllPast == ASSUME Loaded PROVE \A f \in File : Past(f)
<1>1. load.at = 11
  BY OrderFacts DEF Loaded
<1>2. \A f \in File : \E i \in 1..10 : LoadOrder[i] = f
  BY OrderFacts DEF File, Gauge, current, peak, Optional
<1> QED
  BY <1>1, <1>2, OrderFacts DEF Past

\* What load() hands over when it is done is complete and consistent.
LEMMA LoadResultFacts ==
  ASSUME LoadInv, Loaded
  PROVE  /\ \A f \in File :
              Wanted(f) /\ f \notin LoadResult.read => f \in kernel.missing
         /\ \A g \in Gauge :
              peak[g] \in LoadResult.read
                => LoadResult.value[current[g]] <= LoadResult.value[peak[g]]
  BY AllPast DEF LoadInv, PassedInv, PeakInv, LoadResult

\* Apart from RecordLoad, no step changes the accounting in the record.
LEMMA AccountingKept ==
  UnitsTypeOK /\ [Next]_vars /\ ~RecordLoad => fin'.accounting = fin.accounting
<1> SUFFICES ASSUME UnitsTypeOK, [Next]_vars, ~RecordLoad
             PROVE  fin'.accounting = fin.accounting
  OBVIOUS
<1> USE DEF UnitsTypeOK, Fin
<1>1. ASSUME NEW found \in BOOLEAN, GetCGroupPath(found)
      PROVE fin'.accounting = fin.accounting
  BY <1>1, NotLoadedType, RecordAccounting DEF GetCGroupPath
<1>2. ASSUME NEW confirmed \in BOOLEAN, StopSlice(confirmed)
      PROVE fin'.accounting = fin.accounting
  BY <1>2 DEF StopSlice, Confirms
<1>3. CASE ReadResult
  BY <1>3 DEF ReadResult
<1>4. CASE BudgetExpires
  BY <1>4 DEF BudgetExpires
<1>5. CASE UNCHANGED fin
  BY <1>5
<1> QED
  BY <1>1, <1>2, <1>3, <1>4, <1>5 DEF Next, SystemdNext, InnerNext, ScopeEnds,
     ResetTakesEffect, ScopeUnloads, SliceEnds, CGroupUse, StopScope,
     ReadActiveState, ReadNoSuchUnit, ReadFails, ResetFailedUnit, ResetFails,
     LoadStep, vars

\* The kernel stays the kernel.
LEMMA KernelKept == [Next]_vars => kernel' = kernel
  BY DEF Next, SystemdNext, InnerNext, ScopeEnds,
     ResetTakesEffect, ScopeUnloads, SliceEnds, CGroupUse, StopScope, StopSlice,
     ReadActiveState, ReadNoSuchUnit, ReadFails, ReadResult, ResetFailedUnit,
     ResetFails, GetCGroupPath, BudgetExpires, LoadStep, LoadControllers, LoadFile,
     LoadPasses, RecordLoad, LoadReset, Use, accountingVars, vars

\* A step keeps what is known of the recorded accounting.
LEMMA RecordInvStep ==
  UnitsTypeOK /\ LoadInv /\ RecordInv /\ [Next]_vars => RecordInv'
<1> SUFFICES ASSUME UnitsTypeOK, LoadInv, RecordInv, [Next]_vars
             PROVE RecordInv'
  OBVIOUS
<1>1. kernel' = kernel
  BY KernelKept
<1>2. CASE fin'.accounting = fin.accounting
  BY <1>1, <1>2 DEF RecordInv, AbsentIsNotOffered, PeakCoversCurrent, Wanted
<1>3. CASE RecordLoad /\ fin'.accounting # fin.accounting
  <2>1. Loaded /\ fin'.accounting = LoadResult
    BY <1>3, NotLoadedType DEF RecordLoad, record_accounting, UnitsTypeOK, Fin
  <2> QED
    BY <1>1, <2>1, LoadResultFacts DEF RecordInv, AbsentIsNotOffered,
       PeakCoversCurrent, Wanted
<1> QED
  BY <1>2, <1>3, AccountingKept

-----------------------------------------------------------------------------
(* The theorems *)

\* The inductive invariant holds throughout.
LEMMA Invariance == Spec => []IInv
<1>1. Init => IInv
  <2> SUFFICES ASSUME Init PROVE IInv
    OBVIOUS
  <2>1. fin \in Fin
    BY NotLoadedType DEF Init, Fin
  <2>2. UnitsInv
    <3>1. tries \in 1..MaxTries
      BY MaxTriesAssumption DEF Init
    <3>2. UnitsTypeOK
      BY <2>1, <3>1 DEF Init, UnitsTypeOK, UnitState, Pc
    <3> QED
      BY <3>2 DEF Init, UnitsInv, PassInv, ResetInv, FailureRecordedBeforeReset,
         CleanIfNotIncomplete
  <2>3. load.at = 0 /\ load.read = {} /\ load.value = [f \in File |-> 0]
    BY DEF Init, AccountingInit, LoadStart
  <2>4. AccountingTypeOK
    BY KernelsAssumption, OrderFacts DEF Init, AccountingInit, AccountingTypeOK,
       LoadStart, Values
  <2>5. \A g \in Gauge :
          current[g] \in File /\ gauge[g].current = 0 /\ gauge[g].peak = 0
    BY DEF File, Init, AccountingInit
  <2>6. PassedInv /\ PeakInv
    <3>1. \A f : ~Past(f)
      BY <2>3, OrderFacts DEF Past
    <3> QED
      BY <2>3, <2>5, <3>1 DEF PassedInv, PeakInv
  <2>7. RecordInv
    BY DEF Init, RecordInv, AbsentIsNotOffered, PeakCoversCurrent, NotLoaded
  <2> QED
    BY <2>2, <2>4, <2>6, <2>7 DEF IInv, LoadInv
<1>2. IInv /\ [Next]_vars => IInv'
  BY UnitsInvStep, LoadInvStep, RecordInvStep DEF IInv, UnitsInv, LoadInv
<1> QED
  BY <1>1, <1>2, PTL DEF Spec

\* Every variable of finalize_units() and of load() keeps its type.
THEOREM TypeCorrect == Spec => []TypeOK
<1>1. IInv => TypeOK
  BY DEF IInv, UnitsInv, UnitsTypeOK, LoadInv, TypeOK
<1> QED
  BY <1>1, Invariance, PTL

\* A termination without cleanup_incomplete leaves no unit behind, whatever
\* systemd answered or failed to answer on the way.
THEOREM CleanupIsConfirmed == Spec => []CleanIfNotIncomplete
<1>1. IInv => CleanIfNotIncomplete
  BY DEF IInv, UnitsInv
<1> QED
  BY <1>1, Invariance, PTL

\* The failure of a scope is recorded before reset_failed_unit() can erase it.
THEOREM FailureIsRecorded == Spec => []FailureRecordedBeforeReset
<1>1. IInv => FailureRecordedBeforeReset
  BY DEF IInv, UnitsInv, ResetInv
<1> QED
  BY <1>1, Invariance, PTL

\* The recorded accounting lacks only what the kernel does not offer, whenever
\* systemd removes the cgroup.
THEOREM AccountingIsComplete == Spec => []AbsentIsNotOffered
<1>1. IInv => AbsentIsNotOffered
  BY DEF IInv, RecordInv
<1> QED
  BY <1>1, Invariance, PTL

\* No recorded peak is below the use recorded beside it, however the use
\* changes between the reads.
THEOREM AccountingIsConsistent == Spec => []PeakCoversCurrent
<1>1. IInv => PeakCoversCurrent
  BY DEF IInv, RecordInv
<1> QED
  BY <1>1, Invariance, PTL

\* UnitsFinal loses no failure and no accounting through the retry and the
\* timeout of the budget.
THEOREM EvidenceSurvives == Spec => EvidenceKept
<1> DEFINE A == /\ fin.scope_result = "failure" => fin'.scope_result = "failure"
                /\ fin.accounting # NotLoaded => fin'.accounting # NotLoaded
<1>1. IInv /\ [Next]_vars => [A]_vars
  <2> SUFFICES ASSUME IInv, [Next]_vars PROVE A
    OBVIOUS
  <2> USE DEF IInv, UnitsInv, UnitsTypeOK, Fin
  <2>1. fin.scope_result = "failure" => fin'.scope_result = "failure"
    BY DEF Next, SystemdNext, InnerNext, ScopeEnds, ResetTakesEffect, ScopeUnloads,
       SliceEnds, CGroupUse, StopScope, StopSlice, ReadActiveState, ReadNoSuchUnit,
       ReadFails, ReadResult, record_scope_result, ResetFailedUnit, ResetFails,
       GetCGroupPath, LoadStep, RecordLoad, BudgetExpires, vars
  <2>2. fin.accounting # NotLoaded => fin'.accounting # NotLoaded
    <3>1. CASE RecordLoad
      BY <3>1, NotLoadedType, LoadResultType, RecordAccounting
         DEF RecordLoad, LoadInv
    <3>2. CASE ~RecordLoad
      BY <3>2, AccountingKept
    <3> QED
      BY <3>1, <3>2
  <2> QED
    BY <2>1, <2>2
<1> QED
  BY <1>1, Invariance, PTL DEF Spec, EvidenceKept
=============================================================================
