-------------------------- MODULE Procs_refinement --------------------------
(***************************************************************************)
(* The proof that procs.rs implements the registry its clients rely on,    *)
(* for any number of proc IDs, children, callers and subscribers: without  *)
(* systemd, every step of Procs is a step of Registry, or changes nothing  *)
(* that Registry shows.                                                    *)
(***************************************************************************)
EXTENDS Procs_proofs

\* The refinement mapping of Reg: what clients see of a child.
ShownId == [c \in Child |-> IF Started(c) THEN idOf[c] ELSE None]
ShownState == [c \in Child |-> IF Started(c) THEN get_state(c) ELSE "none"]

\* A step that leaves these alone is a stutter of the registry.
shownVars == <<procs, shutdown, told, notifyVars, waitTask, waitInfo, errors>>

\* Forking, execing, exiting, the signals and the error task's start do not
\* show: what clients see of a child stays.
LEMMA HiddenStep ==
  ASSUME IInv, UNCHANGED shownVars,
         \A c \in Child : waitTask[c] # "none" => idOf'[c] = idOf[c]
  PROVE  UNCHANGED Reg!vars
<1>1. UNCHANGED <<ShownId, ShownState>>
  BY DEF ShownId, ShownState, Started, get_state, shownVars
<1> QED
  BY <1>1 DEF Reg!vars, Reg!registryVars, Reg!notifyVars, shownVars, notifyVars,
     ShownId, ShownState

\* A child that is registered by start_procs() is one that the registry starts.
LEMMA RegisterStarts ==
  ASSUME IInv, BatchInv, NEW s \in Starter, NEW fdErr \in FdErr,
         Register(s, fdErr)
  PROVE  Reg!Next
<1> USE DEF IInv, procVars, mapVars
<1> DEFINE c == starter[s].child
           id == starter[s].id
           st == IF fdErr THEN "error" ELSE "running"
<1>1. c \in Child /\ id \in ProcId /\ waitTask[c] = "none" /\ idOf[c] = id
  BY DEF Register, StarterInv
<1>2. shutdown = "active" /\ procs[id] = None
  BY DEF Register, BatchInv
<1>3. ~waitInfo[c] /\ errors[c] = {}
  BY <1>1 DEF TaskInv
<1>4. /\ waitTask' = [waitTask EXCEPT ![c] = "waiting"]
      /\ errors' = [errors EXCEPT ![c] = IF fdErr THEN {"fd"} ELSE {}]
      /\ waitInfo' = waitInfo /\ idOf' = idOf
  BY DEF Register
<1>5. ShownState[c] = "none"
  BY <1>1 DEF ShownState, Started
<1>6. ShownId' = [ShownId EXCEPT ![c] = id]
  BY <1>1, <1>4 DEF ShownId, Started, TypeOK
<1>7. ShownState' = [ShownState EXCEPT ![c] = st]
  BY <1>1, <1>3, <1>4 DEF ShownState, Started, get_state, TypeOK
<1>8. Reg!StartProc(id, c, st)
  BY <1>1, <1>2, <1>5, <1>6, <1>7
  DEF Reg!StartProc, Reg!NotifyAll, Reg!Start, Register, NotifyAll, Start,
      ShownId, ShownState
<1> QED
  BY <1>1, <1>8 DEF Reg!Next, Reg!States

\* The tasks of a child: recording its exit, or the errors it reported, stops
\* it in the registry, unless it shows an error already; run_proc()'s end sends
\* its NotRunning.
LEMMA TaskStops ==
  ASSUME IInv, NEW c \in Child,
         \/ WatchSigchld(c) \/ WaitForProc(c) \/ RecordExit(c)
         \/ ErrorTaskStarts(c) \/ ErrorTaskEnds(c) \/ RunProcEnds(c)
  PROVE  Reg!Next \/ UNCHANGED Reg!vars
<1> USE DEF IInv, procVars, mapVars, taskVars
<1> DEFINE SameMap == UNCHANGED <<procs, shutdown, idOf, notifyVars>>
<1>1. ASSUME SameMap, told' = told, ~told[c], NEW st \in {"terminated", "error"},
             ShownId' = ShownId,
             ShownState' = [ShownState EXCEPT ![c] = st],
             \/ ShownState[c] = "running"
             \/ ShownState[c] = "terminated" /\ st = "error"
      PROVE  Reg!Next
  <2>1. Reg!StopProc(c, st)
    BY <1>1 DEF Reg!StopProc, Reg!notifyVars, notifyVars, ShownId, ShownState
  <2> QED
    BY <2>1 DEF Reg!Next, Reg!States
<1>2. CASE WatchSigchld(c) \/ ErrorTaskStarts(c)
  <2>1. UNCHANGED shownVars /\ UNCHANGED idOf
    BY <1>2 DEF WatchSigchld, ErrorTaskStarts, shownVars
  <2> QED
    BY <2>1, HiddenStep
<1>3. ASSUME SameMap, told' = told, errors' = errors,
             waitTask[c] # "none", ~waitInfo[c], ~told[c],
             NEW w \in {"waiting", "finalizing", "done"},
             NEW b \in BOOLEAN,
             waitTask' = [waitTask EXCEPT ![c] = w],
             waitInfo' = [waitInfo EXCEPT ![c] = b]
      PROVE  Reg!Next \/ UNCHANGED Reg!vars
  <2>1. ShownId' = ShownId
    BY <1>3 DEF ShownId, Started, TypeOK
  <2>2. CASE errors[c] # {} \/ ~b
    <3>1. ShownState' = ShownState
      BY <1>3, <2>2 DEF ShownState, Started, get_state, TypeOK
    <3> QED
      BY <1>3, <2>1, <3>1
      DEF Reg!vars, Reg!registryVars, Reg!notifyVars, notifyVars, ShownId, ShownState
  <2>3. CASE errors[c] = {} /\ b
    <3>1. ShownState' = [ShownState EXCEPT ![c] = "terminated"]
      BY <1>3, <2>3 DEF ShownState, Started, get_state, TypeOK
    <3>2. ShownState[c] = "running"
      BY <1>3, <2>3 DEF ShownState, Started, get_state
    <3> QED
      BY <1>1, <1>3, <2>1, <3>1, <3>2
  <2> QED
    BY <2>2, <2>3
<1>4. CASE WaitForProc(c)
  <2>1. waitTask[c] = "waiting" /\ ~waitInfo[c] /\ ~told[c]
    BY <1>4 DEF WaitForProc, TaskInv
  <2>2. SameMap /\ told' = told /\ errors' = errors
    BY <1>4 DEF WaitForProc
  <2>3. CASE os[c] = "zombie"
    BY <1>3, <1>4, <2>1, <2>2, <2>3, ConstantsAssumption DEF WaitForProc
  <2>4. CASE os[c] # "zombie"
    <3>1. UNCHANGED shownVars
      BY <1>4, <2>2, <2>4 DEF WaitForProc, shownVars
    <3> QED
      BY <2>2, <3>1, HiddenStep
  <2> QED
    BY <2>3, <2>4
<1>5. CASE RecordExit(c)
  <2>1. waitTask[c] = "finalizing" /\ ~waitInfo[c] /\ ~told[c]
    BY <1>5 DEF RecordExit, TaskInv
  <2> QED
    BY <1>3, <1>5, <2>1 DEF RecordExit
<1>6. CASE ErrorTaskEnds(c)
  <2>1. /\ waitTask[c] # "none" /\ ~told[c]
        /\ SameMap /\ told' = told /\ waitTask' = waitTask /\ waitInfo' = waitInfo
        /\ errors' = [errors EXCEPT ![c] = @ \cup ErrorsRead(c)]
    BY <1>6 DEF ErrorTaskEnds, TaskInv
  <2>2. ShownId' = ShownId
    BY <2>1 DEF ShownId, Started
  <2>3. CASE errors[c] # {} \/ ~wrote[c]
    <3>1. ShownState' = ShownState
      BY <2>1, <2>3 DEF ShownState, Started, get_state, ErrorsRead, TypeOK
    <3> QED
      BY <2>1, <2>2, <3>1
      DEF Reg!vars, Reg!registryVars, Reg!notifyVars, notifyVars, ShownId, ShownState
  <2>4. CASE errors[c] = {} /\ wrote[c]
    <3>1. ShownState' = [ShownState EXCEPT ![c] = "error"]
      BY <2>1, <2>4 DEF ShownState, Started, get_state, ErrorsRead, TypeOK
    <3>2. ShownState[c] \in {"running", "terminated"}
      BY <2>1, <2>4 DEF ShownState, Started, get_state
    <3> QED
      BY <1>1, <2>1, <2>2, <3>1, <3>2
  <2> QED
    BY <2>3, <2>4
<1>7. CASE RunProcEnds(c)
  <2>1. waitTask[c] = "done" /\ waitInfo[c] /\ ~told[c]
    BY <1>7 DEF RunProcEnds, TasksAwaited, TaskInv
  <2>2. UNCHANGED <<ShownId, ShownState>>
    BY <1>7 DEF RunProcEnds, ShownId, ShownState, Started, get_state
  <2>3. ShownState[c] \in {"terminated", "error"} /\ ShownId[c] = idOf[c]
    BY <2>1 DEF ShownId, ShownState, Started, get_state
  <2>4. Reg!TellNotRunning(c)
    BY <1>7, <2>1, <2>2, <2>3
    DEF RunProcEnds, Reg!TellNotRunning, Reg!NotifyAll, Reg!NotRunning, NotifyAll,
        NotRunning, ShownId, ShownState
  <2> QED
    BY <2>4 DEF Reg!Next
<1> QED
  BY <1>2, <1>4, <1>5, <1>6, <1>7

\* The operations of clients are the registry's.
LEMMA ClientOperations ==
  ASSUME IInv, ClientNext
  PROVE  Reg!Next \/ UNCHANGED Reg!vars
<1> USE DEF IInv, procVars, mapVars, taskVars
<1>1. UNCHANGED <<idOf, told, waitTask, waitInfo, errors>>
  BY DEF ClientNext, remove_if_not_running, SendSignal, SendSignalAll,
     collect_results, set_shutdown, SubscriberStep
<1>2. UNCHANGED <<ShownId, ShownState>>
  BY <1>1 DEF ShownId, ShownState, Started, get_state
<1>3. \A id \in ProcId :
        procs[id] # None => /\ procs[id] \in Child
                            /\ ShownState[procs[id]] = get_state(procs[id])
  BY ConstantsAssumption DEF ShownState, Started, MapInv, TypeOK
<1>4. ASSUME NEW id \in ProcId, remove_if_not_running(id)
      PROVE  Reg!Next
  <2>1. Reg!DeleteProc(id)
    BY <1>1, <1>2, <1>3, <1>4
    DEF remove_if_not_running, MayRemove, Reg!DeleteProc, Reg!Removable,
        Reg!AfterCheckIdling, Reg!CheckIdlingSends, Reg!IsEmpty, Reg!NotifyAll,
        Reg!Delete, Reg!ShutDown, AfterCheckIdling, CheckIdlingSends, IsEmpty,
        NotifyAll, Delete, ShutDown, ShownId, ShownState
  <2> QED
    BY <2>1 DEF Reg!Next
<1>5. CASE collect_results
  <2>1. \/ \A id \in ProcId : procs[id] # None => ShownState[procs[id]] # "running"
        \/ shutdown = "done"
    BY <1>3, <1>5 DEF collect_results
  <2>2. PICK order \in Orders({id \in ProcId : procs[id] # None}) :
          NotifyAll([i \in DOMAIN order |-> Delete(order[i])]
                      \o CheckIdlingSends(procs', shutdown)
                      \o <<ShutDown("done")>>)
    BY <1>5 DEF collect_results
  <2>3. order \in Reg!Orders({id \in ProcId : procs[id] # None})
    BY DEF Orders, Reg!Orders, Cardinality, Reg!Cardinality
  <2>4. Reg!NotifyOnly(subs, [i \in DOMAIN order |-> Reg!Delete(order[i])]
                               \o Reg!CheckIdlingSends(procs', shutdown)
                               \o <<Reg!ShutDown("done")>>)
    BY <2>2 DEF Reg!NotifyOnly, Reg!CheckIdlingSends, Reg!IsEmpty, Reg!Delete,
       Reg!ShutDown, CheckIdlingSends, IsEmpty, NotifyAll, Delete, ShutDown
  <2>5. Reg!Collect(subs)
    BY <1>1, <1>2, <1>5, <2>3, <2>4 DEF collect_results, Reg!Collect, ShownId, ShownState
  <2> QED
    BY <2>1, <2>5 DEF Reg!Next, Reg!CollectAll, ShownState
<1>6. ASSUME NEW st \in ShutdownState, set_shutdown(st)
      PROVE  Reg!Next
  <2>1. Reg!SetShutdown(st)
    BY <1>1, <1>2, <1>6
    DEF set_shutdown, Reg!SetShutdown, Reg!set_shutdown, Reg!AfterCheckIdling,
        Reg!CheckIdlingSends, Reg!IsEmpty, Reg!NotifyOnly, Reg!ShutDown,
        AfterCheckIdling, CheckIdlingSends, IsEmpty, NotifyAll, ShutDown,
        ShownId, ShownState
  <2> QED
    BY <2>1 DEF Reg!Next, Reg!ShutdownState, ShutdownState
<1>7. ASSUME NEW s \in Sub, SubscriberStep(s)
      PROVE  Reg!Next
  <2>1. Reg!SubscriberStep(s)
    BY <1>1, <1>2, <1>7
    DEF SubscriberStep, Reg!SubscriberStep, Reg!registryVars, Reg!Subscribe,
        Reg!Recv, Reg!Unsubscribe, Subscribe, Recv, Unsubscribe, ShownId, ShownState
  <2> QED
    BY <2>1 DEF Reg!Next
<1>8. CASE \/ \E id \in ProcId, sig \in Signum : SendSignal(id, sig)
           \/ \E sig \in Signum : SendSignalAll(sig)
  <2>1. UNCHANGED shownVars
    BY <1>1, <1>8 DEF SendSignal, SendSignalAll, shownVars
  <2> QED
    BY <1>1, <2>1, HiddenStep
<1> QED
  BY <1>4, <1>5, <1>6, <1>7, <1>8 DEF ClientNext

\* Every step of procs.rs is one of the registry, or none that shows.
LEMMA StepRefines ==
  ASSUME Systemd = FALSE
  PROVE  IInv /\ BatchInv /\ [Next]_vars => [Reg!Next]_(Reg!vars)
<1> SUFFICES ASSUME IInv, BatchInv, [Next]_vars
             PROVE  Reg!Next \/ UNCHANGED Reg!vars
  OBVIOUS
<1> USE DEF IInv, procVars, mapVars, taskVars
<1> DEFINE Hidden == /\ UNCHANGED shownVars
                     /\ \A c \in Child : waitTask[c] # "none" => idOf'[c] = idOf[c]
<1>1. ASSUME NEW s \in Starter, NEW ids \in SUBSET ProcId, StartProcs(s, ids)
      PROVE  Hidden
  BY <1>1 DEF StartProcs, shownVars
<1>2. ASSUME NEW s \in Starter, NEW id \in ProcId, NEW c \in Child, Fork(s, id, c)
      PROVE  Hidden
  BY <1>2 DEF Fork, shownVars, TaskInv, TypeOK
<1>3. ASSUME NEW s \in Starter,
             SliceStarted(s) \/ ScopeStarted(s) \/ SetUpSliceFails(s)
      PROVE  Hidden
  BY <1>3 DEF SliceStarted, ScopeStarted, UnitStarted, SetUpSliceFails, shownVars
<1>4. ASSUME NEW s \in Starter, NEW fdErr \in FdErr, Register(s, fdErr)
      PROVE  Reg!Next
  BY <1>4, RegisterStarts
<1>5. CASE ChildNext
  <2>1. Hidden
    BY <1>5 DEF ChildNext, ChildExecs, ChildFails, ChildExits, shownVars
  <2> QED
    BY <2>1, HiddenStep
<1>6. CASE TaskNext
  BY <1>6, TaskStops DEF TaskNext
<1>7. CASE ClientNext
  BY <1>7, ClientOperations
<1>8. CASE UNCHANGED vars
  <2>1. Hidden
    BY <1>8 DEF vars, shownVars
  <2> QED
    BY <2>1, HiddenStep
<1>9. CASE StarterNext
  <2>1. ASSUME Hidden PROVE UNCHANGED Reg!vars
    BY <2>1, HiddenStep
  <2> QED
    BY <1>1, <1>2, <1>3, <1>4, <1>9, <2>1 DEF StarterNext
<1> QED
  BY <1>5, <1>6, <1>7, <1>8, <1>9 DEF Next

\* Without systemd, procs.rs implements the registry: clients that rely only on
\* Registry, as the models of the agent loop, of the shutdown handlers and of
\* the HTTP service do, may rely on procs.rs.
THEOREM ProcsImplementsRegistry ==
  ASSUME Systemd = FALSE
  PROVE  Spec => ImplementsRegistry
<1>1. Init => Reg!Init
  BY DEF Init, ProcInit, NotifyInit, Started, Reg!Init, Reg!RegistryInit,
     Reg!NotifyInit
<1> QED
  BY <1>1, StepRefines, BatchInvariance, PTL DEF Spec, Reg!Spec, ImplementsRegistry
=============================================================================
