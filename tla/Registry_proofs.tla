--------------------------- MODULE Registry_proofs --------------------------
(***************************************************************************)
(* What the clients of the registry can rely on, for any number of proc    *)
(* IDs, processes and subscribers: lemmas about its operations, whoever    *)
(* calls them, that the proofs about the clients use, and the invariant of *)
(* the registry on its own.                                                *)
(***************************************************************************)
EXTENDS Registry, FiniteSetTheorems, TLAPS

\* The variables of the registry have their types.
RegistryTypes ==
  /\ procs \in [ProcId -> Proc \cup {None}]
  /\ idOf \in [Proc -> ProcId \cup {None}]
  /\ state \in [Proc -> States]
  /\ told \in [Proc -> BOOLEAN]
  /\ shutdown \in ShutdownState

Tracked == {id \in ProcId : procs[id] # None}

\* The map holds started processes, each under its own proc ID.
MapAgrees ==
  /\ \A id \in ProcId :
       procs[id] # None => state[procs[id]] # "none" /\ idOf[procs[id]] = id
  /\ \A c \in Proc : state[c] # "none" => idOf[c] \in ProcId

\* The map is finite, even if there is no end of proc IDs.
MapFinite == IsFiniteSet(Tracked)

\* A NotRunning is sent for a process that is no longer running.
ToldStopped == \A c \in Proc : told[c] => state[c] \in {"terminated", "error"}

-----------------------------------------------------------------------------
(* What the operations of the registry do, whoever calls them *)

\* The operations that notify or change the map, with the receivers R left.
RegistryOp(R) ==
  \/ /\ R = subs
     /\ \/ \E id \in ProcId, c \in Proc, st \in States : StartProc(id, c, st)
        \/ \E c \in Proc, st \in States : StopProc(c, st)
        \/ \E c \in Proc : TellNotRunning(c)
        \/ \E id \in ProcId : DeleteProc(id)
  \/ Collect(R)
  \/ \E st \in {"idling", "done"} : set_shutdown(R, st)

\* The registry keeps its types, its map and its records consistent.
LEMMA RegistryKept ==
  ASSUME RegistryTypes, MapAgrees, ToldStopped, NEW R, RegistryOp(R)
  PROVE  RegistryTypes' /\ MapAgrees' /\ ToldStopped'
<1> USE RegistryAssumption DEF RegistryTypes, MapAgrees, ToldStopped
<1>1. ASSUME NEW id \in ProcId, NEW c \in Proc, NEW st \in States, StartProc(id, c, st)
      PROVE  RegistryTypes' /\ MapAgrees' /\ ToldStopped'
  BY <1>1 DEF StartProc, States
<1>2. ASSUME NEW c \in Proc, NEW st \in States, StopProc(c, st)
      PROVE  RegistryTypes' /\ MapAgrees' /\ ToldStopped'
  BY <1>2 DEF StopProc, States
<1>3. ASSUME NEW c \in Proc, TellNotRunning(c)
      PROVE  RegistryTypes' /\ MapAgrees' /\ ToldStopped'
  BY <1>3 DEF TellNotRunning
<1>4. ASSUME NEW id \in ProcId, DeleteProc(id)
      PROVE  RegistryTypes' /\ MapAgrees' /\ ToldStopped'
  BY <1>4 DEF DeleteProc, AfterCheckIdling, ShutdownState
<1>5. CASE Collect(R)
  BY <1>5 DEF Collect, ShutdownState
<1>6. ASSUME NEW st \in {"idling", "done"}, set_shutdown(R, st)
      PROVE  RegistryTypes' /\ MapAgrees' /\ ToldStopped'
  BY <1>6 DEF set_shutdown, AfterCheckIdling, ShutdownState
<1> QED
  BY <1>1, <1>2, <1>3, <1>4, <1>5, <1>6 DEF RegistryOp

\* The map stays finite: an operation adds one proc ID at most.
LEMMA RegistryStaysFinite ==
  ASSUME RegistryTypes, MapFinite, NEW R, RegistryOp(R)
  PROVE  MapFinite'
<1> USE DEF RegistryTypes, Tracked
<1>1. \E id : Tracked' \subseteq Tracked \cup {id}
  <2>1. ASSUME NEW id \in ProcId, NEW c \in Proc, NEW st \in States,
               StartProc(id, c, st)
        PROVE  Tracked' \subseteq Tracked \cup {id}
    BY <2>1 DEF StartProc
  <2>2. ASSUME \/ \E c \in Proc, st \in States : StopProc(c, st)
               \/ \E c \in Proc : TellNotRunning(c)
               \/ \E id \in ProcId : DeleteProc(id)
               \/ Collect(R)
               \/ \E st \in {"idling", "done"} : set_shutdown(R, st)
        PROVE  Tracked' \subseteq Tracked
    BY <2>2 DEF StopProc, TellNotRunning, DeleteProc, Collect, set_shutdown
  <2> HIDE DEF Tracked
  <2> QED
    BY <2>1, <2>2 DEF RegistryOp
<1> HIDE DEF Tracked
<1>2. PICK id : Tracked' \subseteq Tracked \cup {id}
  BY <1>1
<1>3. IsFiniteSet(Tracked \cup {id})
  BY FS_AddElement DEF MapFinite
<1>4. IsFiniteSet(Tracked')
  BY <1>2, <1>3, FS_Subset
<1> QED
  BY <1>4 DEF MapFinite

\* No process comes back: one that was started and is running and tracked
\* after a step was so before.
NoRevival ==
  \A c \in Proc :
    state[c] # "none" =>
      /\ state'[c] # "none"
      /\ state'[c] = "running" /\ procs'[idOf'[c]] = c
           => state[c] = "running" /\ procs[idOf[c]] = c

\* No operation of the registry revives a process.
LEMMA RegistryRevivesNone ==
  ASSUME RegistryTypes, MapAgrees, NEW R, RegistryOp(R)
  PROVE  NoRevival
<1> USE RegistryAssumption DEF RegistryTypes, MapAgrees, NoRevival
<1>1. ASSUME NEW id \in ProcId, NEW c \in Proc, NEW st \in States, StartProc(id, c, st)
      PROVE  NoRevival
  BY <1>1 DEF StartProc
<1>2. ASSUME NEW c \in Proc, NEW st \in States, StopProc(c, st)
      PROVE  NoRevival
  BY <1>2 DEF StopProc
<1>3. ASSUME NEW c \in Proc, TellNotRunning(c)
      PROVE  NoRevival
  BY <1>3 DEF TellNotRunning
<1>4. ASSUME NEW id \in ProcId, DeleteProc(id)
      PROVE  NoRevival
  BY <1>4 DEF DeleteProc
<1>5. CASE Collect(R)
  BY <1>5 DEF Collect
<1>6. ASSUME NEW st \in {"idling", "done"}, set_shutdown(R, st)
      PROVE  NoRevival
  BY <1>6 DEF set_shutdown
<1> QED
  BY <1>1, <1>2, <1>3, <1>4, <1>5, <1>6 DEF RegistryOp

-----------------------------------------------------------------------------
(* Queues *)

Elements(q) == {q[i] : i \in DOMAIN q}

\* What is queued after a notification is sent.
LEMMA QueuedAfterSend ==
  ASSUME NEW S, NEW q \in Seq(S), NEW ns \in Seq(S)
  PROVE  /\ q \o ns \in Seq(S)
         /\ Elements(q \o ns) = Elements(q) \cup Elements(ns)
<1>1. q \o ns \in Seq(S) /\ Len(q \o ns) = Len(q) + Len(ns)
  OBVIOUS
<1>2. /\ DOMAIN q = 1..Len(q) /\ DOMAIN ns = 1..Len(ns)
      /\ DOMAIN (q \o ns) = 1..(Len(q) + Len(ns))
      /\ Len(q) \in Nat /\ Len(ns) \in Nat
  BY <1>1
<1>3. \A i \in 1..(Len(q) + Len(ns)) :
        (q \o ns)[i] = IF i <= Len(q) THEN q[i] ELSE ns[i - Len(q)]
  OBVIOUS
<1> DEFINE r == q \o ns
<1>4. ASSUME NEW i \in DOMAIN q PROVE \E j \in DOMAIN r : r[j] = q[i]
  BY <1>2, <1>3
<1>5. ASSUME NEW i \in DOMAIN ns PROVE \E j \in DOMAIN r : r[j] = ns[i]
  <2>1. Len(q) + i \in DOMAIN r
    BY <1>2
  <2>2. r[Len(q) + i] = ns[i]
    BY <1>2, <1>3
  <2> QED
    BY <2>1, <2>2
<1>6. ASSUME NEW j \in DOMAIN r
      PROVE  \/ \E i \in DOMAIN q : r[j] = q[i]
             \/ \E i \in DOMAIN ns : r[j] = ns[i]
  <2>1. CASE j <= Len(q)
    BY <1>2, <1>3, <2>1
  <2>2. CASE j > Len(q)
    <3>1. j - Len(q) \in DOMAIN ns /\ r[j] = ns[j - Len(q)]
      BY <1>2, <1>3, <2>2
    <3> QED
      BY <3>1
  <2> QED
    BY <1>2, <2>1, <2>2
<1> HIDE DEF r
<1>7. {r[i] : i \in DOMAIN r}
        = {q[i] : i \in DOMAIN q} \cup {ns[i] : i \in DOMAIN ns}
  <2>1. ASSUME NEW x PROVE x \in {r[i] : i \in DOMAIN r} <=>
                             x \in {q[i] : i \in DOMAIN q} \cup {ns[i] : i \in DOMAIN ns}
    BY <1>4, <1>5, <1>6
  <2> QED
    BY <2>1
<1> QED
  BY <1>1, <1>7 DEF r, Elements

\* What is queued after a notification is received.
LEMMA QueuedAfterRecv ==
  ASSUME NEW S, NEW q \in Seq(S), q # <<>>
  PROVE  /\ Tail(q) \in Seq(S)
         /\ Elements(q) = {Head(q)} \cup Elements(Tail(q))
<1>1. /\ Tail(q) \in Seq(S) /\ Len(Tail(q)) = Len(q) - 1 /\ Len(q) \in Nat \ {0}
      /\ Head(q) = q[1]
  OBVIOUS
<1>2. DOMAIN q = 1..Len(q) /\ DOMAIN Tail(q) = 1..(Len(q) - 1)
  BY <1>1
<1>3. \A i \in 1..(Len(q) - 1) : Tail(q)[i] = q[i + 1]
  BY <1>1
<1>4. ASSUME NEW i \in DOMAIN q, i # 1
      PROVE  \E j \in DOMAIN Tail(q) : q[i] = Tail(q)[j]
  <2>1. i - 1 \in DOMAIN Tail(q) /\ Tail(q)[i - 1] = q[i]
    BY <1>1, <1>2, <1>3, <1>4
  <2> QED
    BY <2>1
<1>5. ASSUME NEW j \in DOMAIN Tail(q) PROVE \E i \in DOMAIN q : q[i] = Tail(q)[j]
  <2>1. j + 1 \in DOMAIN q
    BY <1>1, <1>2
  <2> QED
    BY <1>2, <1>3, <2>1
<1>6. 1 \in DOMAIN q
  BY <1>1, <1>2
<1> QED
  BY <1>1, <1>4, <1>5, <1>6 DEF Elements

-----------------------------------------------------------------------------
RegistryInv ==
  /\ RegistryTypes
  /\ MapAgrees
  /\ MapFinite
  /\ ToldStopped

\* The registry that clients are shown is consistent: each process in the map is
\* a started one under its own proc ID, finitely many at a time, and a process
\* whose NotRunning was sent is not running.
THEOREM RegistryConsistent == Spec => []RegistryInv
<1>1. Init => RegistryInv
  <2> SUFFICES ASSUME Init PROVE RegistryInv
    OBVIOUS
  <2>1. RegistryTypes /\ MapAgrees /\ ToldStopped
    BY DEF Init, RegistryInit, RegistryTypes, MapAgrees, ToldStopped, States,
       ShutdownState
  <2>2. Tracked = {}
    BY DEF Init, RegistryInit, Tracked
  <2> QED
    BY <2>1, <2>2, FS_EmptySet DEF RegistryInv, MapFinite
<1>2. RegistryInv /\ [Next]_vars => RegistryInv'
  <2> SUFFICES ASSUME RegistryInv, [Next]_vars PROVE RegistryInv'
    OBVIOUS
  <2>1. ASSUME NEW R, RegistryOp(R) PROVE RegistryInv'
    BY <2>1, RegistryKept, RegistryStaysFinite DEF RegistryInv
  <2>2. CASE UNCHANGED registryVars
    BY <2>2 DEF RegistryInv, RegistryTypes, MapAgrees, MapFinite, ToldStopped,
       Tracked, registryVars
  <2>3. CASE \E s \in Sub : SubscriberStep(s)
    BY <2>2, <2>3 DEF SubscriberStep
  <2>4. CASE CollectAll \/ \E st \in ShutdownState : SetShutdown(st)
    BY <2>1, <2>4 DEF CollectAll, SetShutdown, RegistryOp
  <2> QED
    BY <2>1, <2>2, <2>3, <2>4 DEF Next, RegistryOp, vars
<1> QED
  BY <1>1, <1>2, PTL DEF Spec
=============================================================================
