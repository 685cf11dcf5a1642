---------------------------- MODULE Procs_proofs ----------------------------
(***************************************************************************)
(* Proofs of the safety properties of Procs, for any number of proc IDs,   *)
(* children and concurrent callers, with and without systemd.              *)
(***************************************************************************)
EXTENDS Procs, TLAPS

\* A caller past fork() has a child of its own that is not registered yet.
StarterInv ==
  /\ \A s \in Starter :
       starter[s].pc \in {"slice", "scope", "register"} =>
         /\ starter[s].child \in Child
         /\ starter[s].id \in ProcId
         /\ os[starter[s].child] # "none"
         /\ waitTask[starter[s].child] = "none"
         /\ idOf[starter[s].child] = starter[s].id
  /\ \A s, t \in Starter :
       /\ starter[s].pc \in {"slice", "scope", "register"}
       /\ starter[t].pc \in {"slice", "scope", "register"}
       /\ starter[s].child = starter[t].child
       => s = t

\* What the tasks of a process know agrees with the kernel.
TaskInv ==
  \A c \in Child :
    /\ os[c] = "none" => waitTask[c] = "none"
    /\ waitTask[c] = "none" => errTask[c] = "none" /\ errors[c] = {}
    /\ os[c] = "gone" <=> waitTask[c] \in {"finalizing", "done"}
    /\ reaped[c] <=> os[c] = "gone"
    /\ waitInfo[c] <=> waitTask[c] = "done"
    /\ told[c] => waitTask[c] = "done" /\ errTask[c] = "done"

\* A child holds its error pipe until it execs or exits, and only a child that
\* has exited wrote to it; what it wrote is read at end of file.
PipeInv ==
  \A c \in Child :
    /\ os[c] \in {"forked", "released"} => c \in holders[c]
    /\ wrote[c] => os[c] \in {"zombie", "gone"}
    /\ "child" \in errors[c] => wrote[c]
    /\ errTask[c] = "done" => os[c] \notin {"none", "forked", "released"}
    /\ errTask[c] = "done" /\ wrote[c] => "child" \in errors[c]

\* The map holds started processes, each under its own proc ID.
MapInv ==
  \A id \in ProcId :
    procs[id] # None => waitTask[procs[id]] # "none" /\ idOf[procs[id]] = id

IInv ==
  /\ TypeOK
  /\ StarterInv
  /\ TaskInv
  /\ PipeInv
  /\ MapInv
  /\ NoLostSigchld
  /\ IdlingTracksSomething

\* Every step preserves the inductive invariant.
LEMMA IInvStep == IInv /\ [Next]_vars => IInv'
<1> SUFFICES ASSUME IInv, [Next]_vars PROVE IInv'
  OBVIOUS
<1> USE ConstantsAssumption
<1> USE DEF IInv, mapVars, startVars, kernelVars, procVars, taskVars, sigVars
<1>1. ASSUME NEW s \in Starter, NEW ids \in SUBSET ProcId, StartProcs(s, ids)
      PROVE IInv'
  <2>1. TypeOK'
    BY <1>1 DEF StartProcs, TypeOK, StarterState, IdleStarter, OsState,
       ShutdownState,
           AfterCheckIdling
  <2>2. StarterInv'
    BY <1>1 DEF StartProcs, TypeOK, StarterInv, TaskInv, StarterState,
       IdleStarter
  <2>3. /\ TaskInv'
        /\ PipeInv'
        /\ MapInv'
        /\ NoLostSigchld'
        /\ IdlingTracksSomething'
    BY <1>1 DEF StartProcs, TaskInv, PipeInv, MapInv, NoLostSigchld,
       IdlingTracksSomething, IsEmpty
  <2> QED
    BY <2>1, <2>2, <2>3
<1>2. ASSUME NEW s \in Starter, NEW id \in ProcId, NEW c \in Child, Fork(s,
   id, c)
      PROVE IInv'
  <2>1. TypeOK'
    BY <1>2 DEF Fork, TypeOK, StarterState, IdleStarter, OsState,
       ShutdownState,
           AfterCheckIdling
  <2>2. StarterInv'
    <3>1. /\ starter'[s].child = c /\ starter'[s].id = id
          /\ \A t \in Starter : t # s => starter'[t] = starter[t]
      BY <1>2 DEF Fork, TypeOK, StarterState
    <3>2. /\ os[c] = "none" /\ os'[c] = "forked" /\ idOf'[c] = id /\ waitTask[c] = "none"
          /\ waitTask' = waitTask
          /\ \A d \in Child : d # c => os'[d] = os[d] /\ idOf'[d] = idOf[d]
      BY <1>2 DEF Fork, TypeOK, TaskInv
    <3>3. ASSUME NEW t \in Starter, t # s,
                 starter'[t].pc \in {"slice", "scope", "register"}
          PROVE  /\ starter'[t].child \in Child \ {c} /\ starter'[t].id \in ProcId
                 /\ os'[starter'[t].child] # "none"
                 /\ waitTask'[starter'[t].child] = "none"
                 /\ idOf'[starter'[t].child] = starter'[t].id
      BY <3>1, <3>2, <3>3 DEF StarterInv
    <3>4. \A t, u \in Starter :
            /\ starter'[t].pc \in {"slice", "scope", "register"}
            /\ starter'[u].pc \in {"slice", "scope", "register"}
            /\ starter'[t].child = starter'[u].child
            => t = u
      BY <3>1, <3>3 DEF StarterInv
    <3> QED
      BY <3>1, <3>2, <3>3, <3>4 DEF StarterInv
  <2>3. TaskInv'
    BY <1>2 DEF Fork, TypeOK, StarterInv, TaskInv, PipeInv, StarterState
  <2>4. PipeInv'
    BY <1>2 DEF Fork, TypeOK, StarterInv, TaskInv, PipeInv, StarterState
  <2>5. MapInv'
    BY <1>2 DEF Fork, TypeOK, StarterInv, TaskInv, MapInv, StarterState
  <2>6. NoLostSigchld'
    BY <1>2 DEF Fork, TypeOK, StarterInv, TaskInv, NoLostSigchld, StarterState
  <2>7. IdlingTracksSomething'
    BY <1>2 DEF Fork, IdlingTracksSomething, IsEmpty
  <2> QED
    BY <2>1, <2>2, <2>3, <2>4, <2>5, <2>6, <2>7
<1>3. ASSUME NEW s \in Starter, SliceStarted(s)
      PROVE IInv'
  <2>1. TypeOK'
    <3>1. [starter[s] EXCEPT !.pc = "scope"] \in StarterState
      BY <1>3 DEF TypeOK, StarterState
    <3>2. starter' \in [Starter -> StarterState]
      BY <1>3, <3>1 DEF SliceStarted, UnitStarted, TypeOK
    <3> QED
      BY <1>3, <3>2 DEF SliceStarted, UnitStarted, TypeOK
  <2>2. StarterInv'
    BY <1>3 DEF SliceStarted, UnitStarted, TypeOK, StarterInv, TaskInv, StarterState,
       IdleStarter
  <2>3. /\ TaskInv'
        /\ PipeInv'
        /\ MapInv'
        /\ NoLostSigchld'
        /\ IdlingTracksSomething'
    BY <1>3 DEF SliceStarted, UnitStarted, TaskInv, PipeInv, MapInv, NoLostSigchld,
       IdlingTracksSomething, IsEmpty
  <2> QED
    BY <2>1, <2>2, <2>3
<1>4. ASSUME NEW s \in Starter, ScopeStarted(s)
      PROVE IInv'
  <2>1. TypeOK'
    BY <1>4 DEF ScopeStarted, UnitStarted, TypeOK, StarterState, IdleStarter, OsState,
       ShutdownState,
           AfterCheckIdling
  <2>2. StarterInv'
    BY <1>4 DEF ScopeStarted, UnitStarted, TypeOK, StarterInv, TaskInv, StarterState,
       IdleStarter
  <2>3. /\ TaskInv'
        /\ PipeInv'
        /\ MapInv'
        /\ NoLostSigchld'
        /\ IdlingTracksSomething'
    BY <1>4 DEF ScopeStarted, UnitStarted, TaskInv, PipeInv, MapInv, NoLostSigchld,
       IdlingTracksSomething, IsEmpty
  <2> QED
    BY <2>1, <2>2, <2>3
<1>5. ASSUME NEW s \in Starter, SetUpSliceFails(s)
      PROVE IInv'
  <2>1. TypeOK'
    BY <1>5 DEF SetUpSliceFails, TypeOK, StarterState, IdleStarter, OsState,
       ShutdownState,
           AfterCheckIdling
  <2>2. StarterInv'
    BY <1>5 DEF SetUpSliceFails, TypeOK, StarterInv, TaskInv, StarterState,
       IdleStarter
  <2>3. /\ TaskInv'
        /\ PipeInv'
        /\ MapInv'
        /\ NoLostSigchld'
        /\ IdlingTracksSomething'
    BY <1>5 DEF SetUpSliceFails, TaskInv, PipeInv, MapInv, NoLostSigchld,
       IdlingTracksSomething, IsEmpty
  <2> QED
    BY <2>1, <2>2, <2>3
<1>6. ASSUME NEW s \in Starter, NEW fdErr \in FdErr, Register(s, fdErr)
      PROVE IInv'
  <2>1. TypeOK'
    <3>1. /\ starter[s] \in StarterState
          /\ starter[s].child \in Child
          /\ starter[s].id \in ProcId
      BY <1>6 DEF Register, TypeOK, StarterInv
    <3>2. starter' \in [Starter -> StarterState]
      <4>1. [starter[s] EXCEPT !.pc = "fork", !.id = None, !.child = None]
              \in StarterState
        BY <3>1 DEF StarterState
      <4>2. IdleStarter \in StarterState
        BY DEF StarterState, IdleStarter
      <4> QED
        BY <1>6, <4>1, <4>2 DEF Register, TypeOK
    <3>3. errors' \in [Child -> SUBSET {"fd", "child"}]
      BY <1>6, <3>1 DEF Register, TypeOK
    <3>4. /\ os' \in [Child -> OsState]
          /\ procs' \in [ProcId -> Child \cup {None}]
          /\ waitTask' \in [Child -> {"none", "waiting", "finalizing", "done"}]
          /\ cpu' \in Starter \cup {None}
      BY <1>6, <3>1 DEF Register, TypeOK, OsState
    <3> QED
      BY <1>6, <3>2, <3>3, <3>4 DEF Register, TypeOK
  <2>2. StarterInv'
    BY <1>6 DEF Register, TypeOK, StarterInv, TaskInv, StarterState,
       IdleStarter
  <2>3. TaskInv'
    BY <1>6 DEF Register, TypeOK, StarterInv, TaskInv, PipeInv, StarterState
  <2>4. PipeInv'
    BY <1>6 DEF Register, TypeOK, StarterInv, TaskInv, PipeInv, StarterState
  <2>5. MapInv'
    BY <1>6 DEF Register, TypeOK, StarterInv, TaskInv, MapInv, StarterState
  <2>6. NoLostSigchld'
    BY <1>6 DEF Register, TypeOK, StarterInv, TaskInv, NoLostSigchld,
       StarterState
  <2>7. IdlingTracksSomething'
    BY <1>6 DEF Register, TypeOK, StarterInv, StarterState,
           IdlingTracksSomething, IsEmpty, AfterCheckIdling, ShutdownState
  <2> QED
    BY <2>1, <2>2, <2>3, <2>4, <2>5, <2>6, <2>7
<1>7. ASSUME NEW c \in Child, ChildExecs(c)
      PROVE IInv'
  <2>1. TypeOK'
    BY <1>7 DEF ChildExecs, ClosePipes, TypeOK, StarterState, IdleStarter,
       OsState, ShutdownState,
           AfterCheckIdling
  <2>2. StarterInv'
    BY <1>7 DEF ChildExecs, ClosePipes, TypeOK, StarterInv, TaskInv,
       StarterState, IdleStarter
  <2>3. TaskInv'
    BY <1>7 DEF ChildExecs, ClosePipes, TypeOK, StarterInv, TaskInv, PipeInv,
       StarterState
  <2>4. PipeInv'
    BY <1>7 DEF ChildExecs, ClosePipes, TypeOK, StarterInv, TaskInv, PipeInv,
       StarterState
  <2>5. NoLostSigchld'
    BY <1>7 DEF ChildExecs, ClosePipes, TypeOK, StarterInv, TaskInv,
       NoLostSigchld, StarterState
  <2>6. MapInv' /\ IdlingTracksSomething'
    BY <1>7 DEF ChildExecs, ClosePipes, MapInv, IdlingTracksSomething, IsEmpty
  <2> QED
    BY <2>1, <2>2, <2>3, <2>4, <2>5, <2>6
<1>8. ASSUME NEW c \in Child, ChildFails(c)
      PROVE IInv'
  <2>1. TypeOK'
    BY <1>8 DEF ChildFails, Exit, Watched, ClosePipes, Live, TypeOK,
       StarterState, IdleStarter, OsState, ShutdownState,
           AfterCheckIdling
  <2>2. StarterInv'
    BY <1>8 DEF ChildFails, Exit, Watched, ClosePipes, Live, TypeOK,
       StarterInv, TaskInv, StarterState, IdleStarter
  <2>3. TaskInv'
    BY <1>8 DEF ChildFails, Exit, Watched, ClosePipes, Live, TypeOK,
       StarterInv, TaskInv, PipeInv, StarterState
  <2>4. PipeInv'
    BY <1>8 DEF ChildFails, Exit, Watched, ClosePipes, Live, TypeOK,
       StarterInv, TaskInv, PipeInv, StarterState
  <2>5. NoLostSigchld'
    BY <1>8 DEF ChildFails, Exit, Watched, TypeOK, NoLostSigchld, taskVars
  <2>6. MapInv' /\ IdlingTracksSomething'
    BY <1>8 DEF ChildFails, Exit, Watched, ClosePipes, Live, MapInv,
       IdlingTracksSomething, IsEmpty
  <2> QED
    BY <2>1, <2>2, <2>3, <2>4, <2>5, <2>6
<1>9. ASSUME NEW c \in Child, ChildExits(c)
      PROVE IInv'
  <2>1. TypeOK'
    BY <1>9 DEF ChildExits, Exit, Watched, ClosePipes, Live, TypeOK,
       StarterState, IdleStarter, OsState, ShutdownState,
           AfterCheckIdling
  <2>2. StarterInv'
    BY <1>9 DEF ChildExits, Exit, Watched, ClosePipes, Live, TypeOK,
       StarterInv, TaskInv, StarterState, IdleStarter
  <2>3. TaskInv'
    BY <1>9 DEF ChildExits, Exit, Watched, ClosePipes, Live, TypeOK,
       StarterInv, TaskInv, PipeInv, StarterState
  <2>4. PipeInv'
    BY <1>9 DEF ChildExits, Exit, Watched, ClosePipes, Live, TypeOK,
       StarterInv, TaskInv, PipeInv, StarterState
  <2>5. NoLostSigchld'
    BY <1>9 DEF ChildExits, Exit, Watched, Live, TypeOK, NoLostSigchld,
       taskVars
  <2>6. MapInv' /\ IdlingTracksSomething'
    BY <1>9 DEF ChildExits, Exit, Watched, ClosePipes, Live, MapInv,
       IdlingTracksSomething, IsEmpty
  <2> QED
    BY <2>1, <2>2, <2>3, <2>4, <2>5, <2>6
<1>10. ASSUME NEW c \in Child, WatchSigchld(c)
      PROVE IInv'
  <2>1. TypeOK'
    BY <1>10 DEF WatchSigchld, TypeOK, StarterState, IdleStarter, OsState,
       ShutdownState,
           AfterCheckIdling
  <2>2. NoLostSigchld'
    BY <1>10 DEF WatchSigchld, TypeOK, StarterInv, TaskInv, NoLostSigchld,
       StarterState
  <2>3. /\ StarterInv'
        /\ TaskInv'
        /\ PipeInv'
        /\ MapInv'
        /\ IdlingTracksSomething'
    BY <1>10 DEF WatchSigchld, StarterInv, TaskInv, PipeInv, MapInv,
       IdlingTracksSomething, IsEmpty
  <2> QED
    BY <2>1, <2>2, <2>3
<1>11. ASSUME NEW c \in Child, WaitForProc(c)
      PROVE IInv'
  <2>1. TypeOK'
    <3>1. CASE os[c] = "zombie"
      <4>1. waitInfo' \in [Child -> BOOLEAN]
        <5>1. waitInfo' = [waitInfo EXCEPT ![c] = ~Systemd]
          BY <1>11, <3>1 DEF WaitForProc
        <5> QED
          BY <5>1, Zenon DEF TypeOK
      <4>2. reaped' \in [Child -> BOOLEAN]
        BY <1>11, <3>1 DEF WaitForProc, TypeOK
      <4>3. /\ os' \in [Child -> OsState]
            /\ waitTask' \in [Child -> {"none", "waiting", "finalizing",
               "done"}]
        BY <1>11, <3>1 DEF WaitForProc, TypeOK, OsState
      <4>4. changed' \in [Child -> BOOLEAN]
        BY <1>11 DEF WaitForProc, TypeOK
      <4> QED
        BY <1>11, <3>1, <4>1, <4>2, <4>3, <4>4 DEF WaitForProc, TypeOK
    <3>2. CASE os[c] # "zombie"
      BY <1>11, <3>2 DEF WaitForProc, TypeOK
    <3> QED
      BY <3>1, <3>2
  <2>2. StarterInv'
    BY <1>11 DEF WaitForProc, TypeOK, StarterInv, TaskInv, StarterState,
       IdleStarter
  <2>3. TaskInv'
    BY <1>11 DEF WaitForProc, TypeOK, StarterInv, TaskInv, PipeInv,
       StarterState
  <2>4. PipeInv'
    BY <1>11 DEF WaitForProc, TypeOK, StarterInv, TaskInv, PipeInv,
       StarterState
  <2>5. MapInv'
    BY <1>11 DEF WaitForProc, TypeOK, StarterInv, TaskInv, MapInv, StarterState
  <2>6. NoLostSigchld'
    BY <1>11 DEF WaitForProc, TypeOK, StarterInv, TaskInv, NoLostSigchld,
       StarterState
  <2>7. IdlingTracksSomething'
    BY <1>11 DEF WaitForProc, IdlingTracksSomething, IsEmpty
  <2> QED
    BY <2>1, <2>2, <2>3, <2>4, <2>5, <2>6, <2>7
<1>12. ASSUME NEW c \in Child, RecordExit(c)
      PROVE IInv'
  <2>1. TypeOK'
    BY <1>12 DEF RecordExit, TypeOK, StarterState, IdleStarter, OsState,
       ShutdownState,
           AfterCheckIdling
  <2>2. StarterInv'
    BY <1>12 DEF RecordExit, TypeOK, StarterInv, TaskInv, StarterState,
       IdleStarter
  <2>3. TaskInv'
    BY <1>12 DEF RecordExit, TypeOK, StarterInv, TaskInv, PipeInv, StarterState
  <2>4. MapInv'
    BY <1>12 DEF RecordExit, TypeOK, StarterInv, TaskInv, MapInv, StarterState
  <2>5. NoLostSigchld'
    BY <1>12 DEF RecordExit, TypeOK, StarterInv, TaskInv, NoLostSigchld,
       StarterState
  <2>6. PipeInv' /\ IdlingTracksSomething'
    BY <1>12 DEF RecordExit, PipeInv, IdlingTracksSomething, IsEmpty
  <2> QED
    BY <2>1, <2>2, <2>3, <2>4, <2>5, <2>6
<1>13. ASSUME NEW c \in Child, ErrorTaskStarts(c)
      PROVE IInv'
  <2>1. TypeOK'
    BY <1>13 DEF ErrorTaskStarts, TypeOK, StarterState, IdleStarter, OsState,
       ShutdownState,
           AfterCheckIdling
  <2>2. TaskInv'
    BY <1>13 DEF ErrorTaskStarts, TypeOK, StarterInv, TaskInv, PipeInv,
       StarterState
  <2>3. PipeInv'
    BY <1>13 DEF ErrorTaskStarts, TypeOK, StarterInv, TaskInv, PipeInv,
       StarterState
  <2>4. StarterInv' /\ MapInv' /\ NoLostSigchld' /\ IdlingTracksSomething'
    BY <1>13 DEF ErrorTaskStarts, StarterInv, MapInv, NoLostSigchld,
       IdlingTracksSomething, IsEmpty
  <2> QED
    BY <2>1, <2>2, <2>3, <2>4
<1>14. ASSUME NEW c \in Child, ErrorTaskEnds(c)
      PROVE IInv'
  <2>1. TypeOK'
    BY <1>14 DEF ErrorTaskEnds, AtEof, ErrorsRead, TypeOK, StarterState,
       IdleStarter, OsState, ShutdownState,
           AfterCheckIdling
  <2>2. TaskInv'
    BY <1>14 DEF ErrorTaskEnds, AtEof, ErrorsRead, TypeOK, StarterInv,
       TaskInv, PipeInv, StarterState
  <2>3. PipeInv'
    BY <1>14 DEF ErrorTaskEnds, AtEof, ErrorsRead, TypeOK, StarterInv,
       TaskInv, PipeInv, StarterState
  <2>4. StarterInv' /\ MapInv' /\ NoLostSigchld' /\ IdlingTracksSomething'
    BY <1>14 DEF ErrorTaskEnds, AtEof, ErrorsRead, StarterInv, MapInv,
       NoLostSigchld, IdlingTracksSomething, IsEmpty
  <2> QED
    BY <2>1, <2>2, <2>3, <2>4
<1>15. ASSUME NEW c \in Child, RunProcEnds(c)
      PROVE IInv'
  <2>1. TypeOK'
    BY <1>15 DEF RunProcEnds, TasksAwaited, TypeOK, StarterState, IdleStarter,
       OsState, ShutdownState,
           AfterCheckIdling
  <2>2. TaskInv'
    BY <1>15 DEF RunProcEnds, TasksAwaited, TypeOK, StarterInv, TaskInv,
       PipeInv, StarterState
  <2>3. /\ StarterInv'
        /\ PipeInv'
        /\ MapInv'
        /\ NoLostSigchld'
        /\ IdlingTracksSomething'
    BY <1>15 DEF RunProcEnds, TasksAwaited, StarterInv, PipeInv, MapInv,
       NoLostSigchld, IdlingTracksSomething, IsEmpty
  <2> QED
    BY <2>1, <2>2, <2>3
<1>16. ASSUME NEW id \in ProcId, remove_if_not_running(id)
      PROVE IInv'
  <2>1. TypeOK'
    BY <1>16 DEF remove_if_not_running, MayRemove, TypeOK, StarterState,
       IdleStarter, OsState, ShutdownState,
           AfterCheckIdling
  <2>2. MapInv'
    BY <1>16 DEF remove_if_not_running, MayRemove, TypeOK, StarterInv,
       TaskInv, MapInv, StarterState
  <2>3. IdlingTracksSomething'
    BY <1>16 DEF remove_if_not_running, MayRemove, TypeOK, StarterInv,
       StarterState,
           IdlingTracksSomething, IsEmpty, AfterCheckIdling, ShutdownState
  <2>4. StarterInv' /\ TaskInv' /\ PipeInv' /\ NoLostSigchld'
    BY <1>16 DEF remove_if_not_running, MayRemove, StarterInv, TaskInv,
       PipeInv, NoLostSigchld
  <2> QED
    BY <2>1, <2>2, <2>3, <2>4
<1>17. ASSUME NEW id \in ProcId, NEW sig \in Signum, SendSignal(id, sig)
      PROVE IInv'
  <2>1. TypeOK'
    BY <1>17 DEF SendSignal, TypeOK, StarterState, IdleStarter, OsState,
       ShutdownState,
           AfterCheckIdling
  <2>2. /\ StarterInv'
        /\ TaskInv'
        /\ PipeInv'
        /\ MapInv'
        /\ NoLostSigchld'
        /\ IdlingTracksSomething'
    BY <1>17 DEF SendSignal, StarterInv, TaskInv, PipeInv, MapInv,
       NoLostSigchld, IdlingTracksSomething, IsEmpty
  <2> QED
    BY <2>1, <2>2
<1>18. ASSUME NEW sig \in Signum, SendSignalAll(sig)
      PROVE IInv'
  <2>1. TypeOK'
    BY <1>18 DEF SendSignalAll, TypeOK, StarterState, IdleStarter, OsState,
       ShutdownState,
           AfterCheckIdling
  <2>2. /\ StarterInv'
        /\ TaskInv'
        /\ PipeInv'
        /\ MapInv'
        /\ NoLostSigchld'
        /\ IdlingTracksSomething'
    BY <1>18 DEF SendSignalAll, StarterInv, TaskInv, PipeInv, MapInv,
       NoLostSigchld, IdlingTracksSomething, IsEmpty
  <2> QED
    BY <2>1, <2>2
<1>19. ASSUME collect_results
      PROVE IInv'
  <2>1. TypeOK'
    BY <1>19 DEF collect_results, TypeOK, StarterState, IdleStarter, OsState,
       ShutdownState,
           AfterCheckIdling
  <2>2. MapInv'
    BY <1>19 DEF collect_results, TypeOK, StarterInv, TaskInv, MapInv,
       StarterState
  <2>3. IdlingTracksSomething'
    BY <1>19 DEF collect_results, TypeOK, StarterInv, StarterState,
           IdlingTracksSomething, IsEmpty, AfterCheckIdling, ShutdownState
  <2>4. StarterInv' /\ TaskInv' /\ PipeInv' /\ NoLostSigchld'
    BY <1>19 DEF collect_results, StarterInv, TaskInv, PipeInv, NoLostSigchld
  <2> QED
    BY <2>1, <2>2, <2>3, <2>4
<1>20. ASSUME NEW st \in ShutdownState, set_shutdown(st)
      PROVE IInv'
  <2>1. TypeOK'
    BY <1>20 DEF set_shutdown, TypeOK, StarterState, IdleStarter, OsState,
       ShutdownState,
           AfterCheckIdling
  <2>2. IdlingTracksSomething'
    BY <1>20 DEF set_shutdown, TypeOK, StarterInv, StarterState,
           IdlingTracksSomething, IsEmpty, AfterCheckIdling, ShutdownState
  <2>3. StarterInv' /\ TaskInv' /\ PipeInv' /\ MapInv' /\ NoLostSigchld'
    BY <1>20 DEF set_shutdown, StarterInv, TaskInv, PipeInv, MapInv,
       NoLostSigchld
  <2> QED
    BY <2>1, <2>2, <2>3
<1>21. ASSUME NEW s \in Sub, SubscriberStep(s)
      PROVE IInv'
  <2>1. TypeOK'
    BY <1>21 DEF SubscriberStep, TypeOK, StarterState, IdleStarter, OsState,
       ShutdownState,
           AfterCheckIdling
  <2>2. /\ StarterInv'
        /\ TaskInv'
        /\ PipeInv'
        /\ MapInv'
        /\ NoLostSigchld'
        /\ IdlingTracksSomething'
    BY <1>21 DEF SubscriberStep, StarterInv, TaskInv, PipeInv, MapInv,
       NoLostSigchld, IdlingTracksSomething, IsEmpty
  <2> QED
    BY <2>1, <2>2
<1>22. ASSUME UNCHANGED vars
      PROVE IInv'
  BY <1>22 DEF vars, TypeOK, StarterInv, TaskInv, PipeInv, MapInv,
     NoLostSigchld,
     IdlingTracksSomething, IsEmpty
<1> QED
  BY <1>1, <1>2, <1>3, <1>4, <1>5, <1>6, <1>7, <1>8, <1>9, <1>10, <1>11,
     <1>12, <1>13, <1>14, <1>15, <1>16, <1>17, <1>18, <1>19, <1>20, <1>21,
        <1>22
  DEF Next, StarterNext, ChildNext, TaskNext, ClientNext

\* The inductive invariant holds of every reachable state.
THEOREM Invariance == Spec => []IInv
<1>1. Init => IInv
  BY ConstantsAssumption
  DEF Init, ProcInit, NotifyInit, IInv, TypeOK, StarterInv, TaskInv, PipeInv, MapInv,
      NoLostSigchld, IdlingTracksSomething, StarterState, IdleStarter, OsState,
      ShutdownState
<1> QED
  BY <1>1, IInvStep, PTL DEF Spec

-----------------------------------------------------------------------------
\* The variables keep their types.
THEOREM TypeCorrect == Spec => []TypeOK
  BY Invariance, PTL DEF IInv

\* SIGCHLD is never lost on its way to wait_for_proc(), though signals coalesce
\* and a child may die before it is registered.
THEOREM SigchldArrives == Spec => []NoLostSigchld
  BY Invariance, PTL DEF IInv

\* The idle shutdown cannot be stranded: check_idling() runs wherever the map
\* is emptied.
THEOREM IdlingCompletes == Spec => []IdlingTracksSomething
  BY Invariance, PTL DEF IInv

\* A process that may be deleted has exited.
THEOREM DeletableHasExited == Spec => []NotRunningHasExited
<1>1. IInv => NotRunningHasExited
  <2> SUFFICES ASSUME IInv, NEW c \in Child, Started(c),
                      get_state(c) # "running", "fd" \notin errors[c]
               PROVE os[c] \in {"zombie", "gone"}
    BY DEF NotRunningHasExited
  <2>1. CASE errors[c] # {}
    <3>1. "child" \in errors[c]
      BY <2>1 DEF IInv, TypeOK
    <3> QED
      BY <3>1 DEF IInv, PipeInv
  <2>2. CASE errors[c] = {}
    BY <2>2 DEF IInv, TaskInv, get_state
  <2> QED
    BY <2>1, <2>2
<1> QED
  BY <1>1, Invariance, PTL

\* The NotRunning notification comes after the child's own errors are read.
THEOREM ErrorsBeforeNotRunning == Spec => []ErrorsComplete
<1>1. IInv => ErrorsComplete
  BY DEF IInv, TaskInv, PipeInv, ErrorsComplete
<1> QED
  BY <1>1, Invariance, PTL

\* No signal reaches a pid that has been waited for: kill() is called only
\* under the reaped flag, which agrees with the kernel in every state.
THEOREM SignalsStayHome == Spec => NoStraySignal
<1> DEFINE A == \A c \in Child : sent'[c] # sent[c] => os[c] \notin {"none", "gone"}
<1>1. IInv /\ [Next]_vars => [A]_vars
  <2> SUFFICES ASSUME IInv, Next, NEW c \in Child, sent'[c] # sent[c]
               PROVE os[c] \notin {"none", "gone"}
    OBVIOUS
  <2> USE DEF IInv, kernelVars
  <2>1. CASE \E id \in ProcId, sig \in Signum : SendSignal(id, sig)
    BY <2>1 DEF SendSignal, Signalled, TypeOK, TaskInv, MapInv
  <2>2. CASE \E sig \in Signum : SendSignalAll(sig)
    BY <2>2, ConstantsAssumption
    DEF SendSignalAll, Signalled, TypeOK, TaskInv, MapInv
  <2>3. CASE StarterNext
    <3>1. ASSUME NEW s \in Starter, NEW ids \in SUBSET ProcId, StartProcs(s, ids)
          PROVE FALSE
      BY <3>1 DEF StartProcs
    <3>2. ASSUME NEW s \in Starter, NEW id \in ProcId, NEW d \in Child, Fork(s, id, d)
          PROVE FALSE
      BY <3>2 DEF Fork
    <3>3. ASSUME NEW s \in Starter,
                 SliceStarted(s) \/ ScopeStarted(s) \/ SetUpSliceFails(s)
          PROVE FALSE
      BY <3>3 DEF SliceStarted, ScopeStarted, UnitStarted, SetUpSliceFails
    <3>4. ASSUME NEW s \in Starter, NEW fdErr \in FdErr, Register(s, fdErr)
          PROVE FALSE
      BY <3>4 DEF Register
    <3> QED
      BY <2>3, <3>1, <3>2, <3>3, <3>4 DEF StarterNext
  <2>4. CASE ChildNext
    BY <2>4 DEF ChildNext, ChildExecs, ChildFails, ChildExits
  <2>5. CASE TaskNext
    BY <2>5 DEF TaskNext, WatchSigchld, WaitForProc, RecordExit,
       ErrorTaskStarts, ErrorTaskEnds, RunProcEnds
  <2>6. CASE ClientNext
    BY <2>1, <2>2, <2>6 DEF ClientNext, remove_if_not_running,
       collect_results, set_shutdown, SubscriberStep
  <2> QED
    BY <2>3, <2>4, <2>5, <2>6 DEF Next
<1> QED
  BY <1>1, Invariance, PTL DEF Spec, NoStraySignal

\* The record of a process is final once its NotRunning is sent.
THEOREM RecordIsFinal == Spec => FinalOnceTold
<1> DEFINE A == \A c \in Child :
                  told[c] => waitInfo'[c] = waitInfo[c] /\ errors'[c] = errors[c]
<1>1. IInv /\ [Next]_vars => [A]_vars
  <2> SUFFICES ASSUME IInv, Next, NEW c \in Child, told[c]
               PROVE waitInfo'[c] = waitInfo[c] /\ errors'[c] = errors[c]
    OBVIOUS
  <2> USE DEF IInv, procVars
  <2>1. waitTask[c] = "done" /\ errTask[c] = "done" /\ os[c] = "gone"
    BY DEF TaskInv
  <2>2. CASE \E s \in Starter, fdErr \in FdErr : Register(s, fdErr)
    BY <2>1, <2>2 DEF Register, TypeOK, StarterInv
  <2>3. CASE \E d \in Child : WaitForProc(d)
    BY <2>1, <2>3 DEF WaitForProc, TypeOK
  <2>4. CASE \E d \in Child : RecordExit(d)
    BY <2>1, <2>4 DEF RecordExit, TypeOK
  <2>5. CASE \E d \in Child : ErrorTaskEnds(d)
    BY <2>1, <2>5 DEF ErrorTaskEnds, TypeOK
  <2>6. CASE StarterNext
    <3> DEFINE Same == waitInfo'[c] = waitInfo[c] /\ errors'[c] = errors[c]
    <3>1. ASSUME NEW s \in Starter, NEW ids \in SUBSET ProcId, StartProcs(s, ids)
          PROVE Same
      BY <3>1 DEF StartProcs
    <3>2. ASSUME NEW s \in Starter, NEW id \in ProcId, NEW d \in Child, Fork(s, id, d)
          PROVE Same
      BY <3>2 DEF Fork
    <3>3. ASSUME NEW s \in Starter,
                 SliceStarted(s) \/ ScopeStarted(s) \/ SetUpSliceFails(s)
          PROVE Same
      BY <3>3 DEF SliceStarted, ScopeStarted, UnitStarted, SetUpSliceFails
    <3> QED
      BY <2>2, <2>6, <3>1, <3>2, <3>3 DEF StarterNext
  <2>7. CASE ChildNext
    BY <2>7 DEF ChildNext, ChildExecs, ChildFails, ChildExits
  <2>8. CASE TaskNext
    BY <2>3, <2>4, <2>5, <2>8 DEF TaskNext, WatchSigchld, ErrorTaskStarts,
       RunProcEnds
  <2>9. CASE ClientNext
    BY <2>9 DEF ClientNext, remove_if_not_running, SendSignal, SendSignalAll,
       collect_results, set_shutdown, SubscriberStep
  <2> QED
    BY <2>6, <2>7, <2>8, <2>9 DEF Next
<1> QED
  BY <1>1, Invariance, PTL DEF Spec, FinalOnceTold

-----------------------------------------------------------------------------
(* Without systemd, start_procs() never gives up the thread. *)

\* A batch in progress holds the thread, and what its checks established still
\* holds for the proc IDs it has yet to register.
BatchInv ==
  \A s \in Starter :
    starter[s].pc # "idle" =>
      /\ cpu = s
      /\ shutdown = "active"
      /\ starter[s].pc \in {"fork", "register"}
      /\ \A id \in starter[s].todo : procs[id] = None
      /\ starter[s].pc = "register" =>
           starter[s].id \notin starter[s].todo /\ procs[starter[s].id] = None

\* Without systemd, every step keeps a batch in possession of the thread.
LEMMA BatchInvStep ==
  ASSUME Systemd = FALSE
  PROVE  IInv /\ BatchInv /\ [Next]_vars => BatchInv'
<1> SUFFICES ASSUME IInv, BatchInv, [Next]_vars PROVE BatchInv'
  OBVIOUS
<1> USE ConstantsAssumption
<1> USE DEF IInv, BatchInv, mapVars, startVars
<1>1. ASSUME NEW s \in Starter, NEW ids \in SUBSET ProcId, StartProcs(s, ids)
      PROVE BatchInv'
  BY <1>1 DEF StartProcs, UnusedIds, NotShuttingDown, TypeOK, StarterState,
     IdleStarter
<1>2. ASSUME NEW s \in Starter, NEW id \in ProcId, NEW c \in Child, Fork(s, id, c)
      PROVE BatchInv'
  BY <1>2 DEF Fork, TypeOK, StarterState
<1>3. ASSUME NEW s \in Starter,
             SliceStarted(s) \/ ScopeStarted(s) \/ SetUpSliceFails(s)
      PROVE BatchInv'
  BY <1>3 DEF SliceStarted, ScopeStarted, UnitStarted, SetUpSliceFails
<1>4. ASSUME NEW s \in Starter, NEW fdErr \in FdErr, Register(s, fdErr)
      PROVE BatchInv'
  BY <1>4 DEF Register, TypeOK, StarterState, IdleStarter
<1>5. CASE ChildNext
  BY <1>5 DEF ChildNext, ChildExecs, ChildFails, ChildExits
<1>6. CASE TaskNext
  BY <1>6 DEF TaskNext, WatchSigchld, WaitForProc, RecordExit, ErrorTaskStarts,
     ErrorTaskEnds, RunProcEnds
<1>7. CASE ClientNext
  <2>1. cpu = None
    BY <1>7 DEF ClientNext, remove_if_not_running, SendSignal, SendSignalAll,
       collect_results, set_shutdown, SubscriberStep
  <2>2. UNCHANGED startVars
    BY <1>7 DEF ClientNext, remove_if_not_running, SendSignal, SendSignalAll,
       collect_results, set_shutdown, SubscriberStep
  <2> QED
    BY <2>1, <2>2
<1>8. CASE UNCHANGED vars
  BY <1>8 DEF vars
<1> QED
  BY <1>1, <1>2, <1>3, <1>4, <1>5, <1>6, <1>7, <1>8 DEF Next, StarterNext

\* Without systemd, the batch invariant holds of every reachable state.
LEMMA BatchInvariance ==
  ASSUME Systemd = FALSE
  PROVE  Spec => [](IInv /\ BatchInv)
<1>1. Init => BatchInv
  BY DEF Init, ProcInit, BatchInv, IdleStarter
<1> QED
  BY <1>1, BatchInvStep, Invariance, PTL DEF Spec

\* Without systemd, no process is inserted over another: the check on duplicate
\* proc IDs and the insert happen without an await between them.
THEOREM NoRecordLost ==
  ASSUME Systemd = FALSE
  PROVE  Spec => NoOverwrite
<1> DEFINE A == \A id \in ProcId :
                  procs[id] # None => procs'[id] \in {procs[id], None}
<1>1. IInv /\ BatchInv /\ [Next]_vars => [A]_vars
  <2> SUFFICES ASSUME IInv, BatchInv, Next, NEW id \in ProcId, procs[id] # None
               PROVE procs'[id] \in {procs[id], None}
    OBVIOUS
  <2> USE DEF IInv, mapVars
  <2>1. ASSUME NEW s \in Starter, NEW fdErr \in FdErr, Register(s, fdErr)
        PROVE procs'[id] \in {procs[id], None}
    BY <2>1 DEF Register, TypeOK, BatchInv
  <2>2. ASSUME NEW j \in ProcId, remove_if_not_running(j)
        PROVE procs'[id] \in {procs[id], None}
    BY <2>2 DEF remove_if_not_running, TypeOK
  <2>3. ASSUME collect_results
        PROVE procs'[id] \in {procs[id], None}
    BY <2>3 DEF collect_results
  <2>4. ASSUME NEW s \in Starter, NEW j \in ProcId, NEW c \in Child, Fork(s, j, c)
        PROVE procs' = procs
    BY <2>4 DEF Fork
  <2>5. ASSUME NEW s \in Starter, NEW ids \in SUBSET ProcId, StartProcs(s, ids)
        PROVE procs' = procs
    BY <2>5 DEF StartProcs
  <2>6. CASE StarterNext
    BY <2>1, <2>4, <2>5, <2>6
    DEF StarterNext, SliceStarted, ScopeStarted, UnitStarted, SetUpSliceFails
  <2>7. CASE ChildNext
    BY <2>7 DEF ChildNext, ChildExecs, ChildFails, ChildExits
  <2>8. CASE TaskNext
    BY <2>8 DEF TaskNext, WatchSigchld, WaitForProc, RecordExit,
       ErrorTaskStarts, ErrorTaskEnds, RunProcEnds
  <2>9. CASE ClientNext
    BY <2>2, <2>3, <2>9 DEF ClientNext, SendSignal, SendSignalAll,
       set_shutdown, SubscriberStep
  <2> QED
    BY <2>6, <2>7, <2>8, <2>9 DEF Next
<1> QED
  BY <1>1, BatchInvariance, PTL DEF Spec, NoOverwrite

\* Without systemd, no process starts once a shutdown has been requested.
THEOREM NoLateStart ==
  ASSUME Systemd = FALSE
  PROVE  Spec => StartsOnlyWhileActive
<1> DEFINE A == \A c \in Child : ~Started(c) /\ Started(c)' => shutdown = "active"
<1>1. IInv /\ BatchInv /\ [Next]_vars => [A]_vars
  <2> SUFFICES ASSUME IInv, BatchInv, Next, NEW c \in Child,
                      waitTask[c] = "none", waitTask'[c] # "none"
               PROVE shutdown = "active"
    BY DEF Started
  <2> USE DEF IInv, taskVars
  <2>1. ASSUME NEW s \in Starter, NEW fdErr \in FdErr, Register(s, fdErr)
        PROVE shutdown = "active"
    BY <2>1 DEF Register, BatchInv
  <2>2. ASSUME NEW s \in Starter, NEW id \in ProcId, NEW d \in Child, Fork(s, id, d)
        PROVE FALSE
    BY <2>2 DEF Fork
  <2>3. ASSUME NEW s \in Starter, NEW ids \in SUBSET ProcId, StartProcs(s, ids)
        PROVE FALSE
    BY <2>3 DEF StartProcs
  <2>4. CASE StarterNext
    BY <2>1, <2>2, <2>3, <2>4
    DEF StarterNext, SliceStarted, ScopeStarted, UnitStarted, SetUpSliceFails
  <2>5. CASE ChildNext
    BY <2>5 DEF ChildNext, ChildExecs, ChildFails, ChildExits
  <2>6. ASSUME NEW d \in Child, WaitForProc(d) \/ RecordExit(d)
        PROVE FALSE
    BY <2>6 DEF WaitForProc, RecordExit, TypeOK
  <2>7. CASE TaskNext
    BY <2>6, <2>7 DEF TaskNext, WatchSigchld, ErrorTaskStarts, ErrorTaskEnds,
       RunProcEnds
  <2>8. CASE ClientNext
    BY <2>8 DEF ClientNext, remove_if_not_running, SendSignal, SendSignalAll,
       collect_results, set_shutdown, SubscriberStep
  <2> QED
    BY <2>4, <2>5, <2>7, <2>8 DEF Next
<1> QED
  BY <1>1, BatchInvariance, PTL DEF Spec, StartsOnlyWhileActive

\* Without systemd, a live process stays in the map under its proc ID until it
\* has exited or --exit has collected the results.
THEOREM LiveProcsTracked ==
  ASSUME Systemd = FALSE
  PROVE  Spec => []LiveIsTracked
<1>1. Init => LiveIsTracked
  BY DEF Init, ProcInit, LiveIsTracked, Started
<1>2. IInv /\ BatchInv /\ LiveIsTracked /\ [Next]_vars => LiveIsTracked'
  <2> SUFFICES ASSUME IInv, BatchInv, LiveIsTracked, [Next]_vars,
                      NEW c \in Child, waitTask'[c] # "none", os'[c] \in Live,
                      "fd" \notin errors'[c], "exit" \notin asked'
               PROVE procs'[idOf'[c]] = c
    BY DEF LiveIsTracked, Started
  <2>0. "exit" \notin asked
    <3>1. CASE StarterNext
      <4>1. ASSUME NEW s \in Starter, NEW ids \in SUBSET ProcId, StartProcs(s, ids)
            PROVE asked' = asked
        BY <4>1 DEF StartProcs, mapVars
      <4>2. ASSUME NEW s \in Starter, NEW id \in ProcId, NEW d \in Child,
                   Fork(s, id, d)
            PROVE asked' = asked
        BY <4>2 DEF Fork, mapVars
      <4>3. ASSUME NEW s \in Starter,
                   SliceStarted(s) \/ ScopeStarted(s) \/ SetUpSliceFails(s)
            PROVE asked' = asked
        BY <4>3 DEF SliceStarted, ScopeStarted, UnitStarted, SetUpSliceFails, mapVars
      <4>4. ASSUME NEW s \in Starter, NEW fdErr \in FdErr, Register(s, fdErr)
            PROVE asked' = asked
        BY <4>4 DEF Register
      <4> QED
        BY <3>1, <4>1, <4>2, <4>3, <4>4 DEF StarterNext
    <3>2. CASE ChildNext
      BY <3>2 DEF ChildNext, ChildExecs, ChildFails, ChildExits, mapVars
    <3>3. CASE TaskNext
      BY <3>3 DEF TaskNext, WatchSigchld, WaitForProc, RecordExit,
         ErrorTaskStarts, ErrorTaskEnds, RunProcEnds, mapVars
    <3>4. CASE ClientNext
      BY <3>4 DEF ClientNext, remove_if_not_running, SendSignal, SendSignalAll,
         collect_results, set_shutdown, SubscriberStep, mapVars
    <3>5. CASE UNCHANGED vars
      BY <3>5 DEF vars, mapVars
    <3> QED
      BY <3>1, <3>2, <3>3, <3>4, <3>5 DEF Next
  <2> USE ConstantsAssumption
  <2> USE DEF IInv, LiveIsTracked, Started, Live, mapVars, kernelVars, procVars,
              taskVars
  <2>1. ASSUME NEW s \in Starter, NEW ids \in SUBSET ProcId, StartProcs(s, ids)
        PROVE procs'[idOf'[c]] = c
    BY <2>0, <2>1 DEF StartProcs
  <2>2. ASSUME NEW s \in Starter, NEW id \in ProcId, NEW d \in Child, Fork(s, id, d)
        PROVE procs'[idOf'[c]] = c
    BY <2>0, <2>2 DEF Fork, TypeOK, TaskInv
  <2>3. ASSUME NEW s \in Starter,
               SliceStarted(s) \/ ScopeStarted(s) \/ SetUpSliceFails(s)
        PROVE procs'[idOf'[c]] = c
    BY <2>0, <2>3 DEF SliceStarted, ScopeStarted, UnitStarted, SetUpSliceFails
  <2>4. ASSUME NEW s \in Starter, NEW fdErr \in FdErr, Register(s, fdErr)
        PROVE procs'[idOf'[c]] = c
    BY <2>0, <2>4 DEF Register, TypeOK, StarterInv, BatchInv, TaskInv
  <2>5. ASSUME NEW d \in Child, ChildExecs(d) \/ ChildFails(d) \/ ChildExits(d)
        PROVE procs'[idOf'[c]] = c
    BY <2>0, <2>5 DEF ChildExecs, ChildFails, ChildExits, Exit, TypeOK
  <2>6. ASSUME NEW d \in Child,
               \/ WatchSigchld(d) \/ WaitForProc(d) \/ RecordExit(d)
               \/ ErrorTaskStarts(d) \/ ErrorTaskEnds(d) \/ RunProcEnds(d)
        PROVE procs'[idOf'[c]] = c
    BY <2>0, <2>6 DEF WatchSigchld, WaitForProc, RecordExit, ErrorTaskStarts,
       ErrorTaskEnds, RunProcEnds, TypeOK
  <2>7. ASSUME NEW id \in ProcId, remove_if_not_running(id)
        PROVE procs'[idOf'[c]] = c
    <3>1. procs[idOf[c]] = c /\ procs' = [procs EXCEPT ![id] = None]
      BY <2>0, <2>7 DEF remove_if_not_running
    <3>2. CASE procs[id] = c
      <4>1. os[c] \in Live /\ get_state(c) # "running" /\ "fd" \notin errors[c]
        BY <2>7, <3>2 DEF remove_if_not_running, MayRemove
      <4>2. errors[c] # {} => "child" \in errors[c]
        BY <4>1 DEF TypeOK
      <4> QED
        BY <4>1, <4>2 DEF get_state, PipeInv, TaskInv
    <3>3. CASE procs[id] # c
      BY <2>7, <3>1, <3>3 DEF remove_if_not_running, TypeOK
    <3> QED
      BY <3>2, <3>3
  <2>8. ASSUME NEW id \in ProcId, NEW sig \in Signum,
               SendSignal(id, sig)
        PROVE procs'[idOf'[c]] = c
    BY <2>0, <2>8 DEF SendSignal
  <2>9. ASSUME NEW st \in ShutdownState, set_shutdown(st)
        PROVE procs'[idOf'[c]] = c
    BY <2>0, <2>9 DEF set_shutdown
  <2>10. ASSUME NEW s \in Sub, SubscriberStep(s)
         PROVE procs'[idOf'[c]] = c
    BY <2>0, <2>10 DEF SubscriberStep
  <2>11. CASE UNCHANGED vars
    BY <2>0, <2>11 DEF vars
  <2>12. ASSUME NEW sig \in Signum, SendSignalAll(sig)
         PROVE procs'[idOf'[c]] = c
    BY <2>0, <2>12 DEF SendSignalAll
  <2> QED
    BY <2>0, <2>1, <2>2, <2>3, <2>4, <2>5, <2>6, <2>7, <2>8, <2>9, <2>10, <2>11, <2>12
    DEF Next, StarterNext, ChildNext, TaskNext, ClientNext, collect_results
<1> QED
  BY <1>1, <1>2, BatchInvariance, PTL DEF Spec
=============================================================================
