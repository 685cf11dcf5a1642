-------------------------- MODULE Shutdown_proofs ---------------------------
(***************************************************************************)
(* Proofs of the safety properties of Shutdown, for any number of proc IDs *)
(* and processes and every command line.  The tasks act on the registry    *)
(* and wait for its notifications; so the invariant has one part on what a *)
(* waiting task can rely on, and one on what the handlers have killed.     *)
(***************************************************************************)
EXTENDS Shutdown, Registry_proofs

Place == {"armed", "queued", "start", "connecting", "serving", "first",
          "wait_running", "wait_idle", "ended", "failed"}
Waiting == {"serving", "first", "wait_running", "wait_idle"}

\* TypeOK without the histories.
TaskTypes ==
  /\ procs \in [ProcId -> Proc \cup {None}]
  /\ idOf \in [Proc -> ProcId \cup {None}]
  /\ state \in [Proc -> States]
  /\ told \in [Proc -> BOOLEAN]
  /\ shutdown \in ShutdownState
  /\ subq \in [Task -> Seq(Notification)]
  /\ mode \in Modes
  /\ up \in BOOLEAN
  /\ pc \in [Task -> Place]
  /\ waitOn \in [Task -> ProcId \cup {None}]
  /\ subs = {t \in Task : pc[t] \in Waiting}

WaitsForId ==
  \A t \in Task : pc[t] \in {"wait_running", "wait_idle"} => waitOn[t] \in ProcId

WaitInv ==
  /\ TaskTypes
  /\ MapAgrees
  /\ MapFinite
  /\ ToldStopped
  /\ WaitsForId
  /\ WaitIsWoken

\* What a handler found was started, and it is not forgotten what it sent.
KillInv ==
  /\ sent \in [Proc -> SUBSET {"TERM", "KILL"}]
  /\ known \in [Handler -> SUBSET Proc]
  /\ \A h \in Handler : \A c \in known[h] : state[c] # "none"
  /\ StragglersKilled

IInv == WaitInv /\ KillInv

-----------------------------------------------------------------------------
(* Notifications *)

\* The notifications are those of the enum.
LEMMA NotificationTypes ==
  /\ \A id \in ProcId : /\ Start(id) \in Notification
                        /\ NotRunning(id) \in Notification
                        /\ Delete(id) \in Notification
  /\ \A st \in ShutdownState : ShutDown(st) \in Notification
  BY DEF Start, NotRunning, Delete, ShutDown, Notification

\* Sending appends to the queues of the receivers left.
LEMMA Sending ==
  ASSUME subq \in [Task -> Seq(Notification)],
         NEW R \in SUBSET subs, subs \subseteq Task, NEW ns \in Seq(Notification),
         NotifyOnly(R, ns)
  PROVE  /\ subs' = R
         /\ subq' \in [Task -> Seq(Notification)]
         /\ \A t \in R : Queued(t)' = Queued(t) \cup Elements(ns)
<1>1. /\ subs' = R
      /\ subq' = [s \in Task |-> IF s \in R THEN subq[s] \o ns ELSE <<>>]
  BY ShutdownAssumption DEF NotifyOnly
<1>2. subq' \in [Task -> Seq(Notification)]
  BY <1>1
<1>3. ASSUME NEW t \in R
      PROVE  Queued(t)' = Queued(t) \cup Elements(ns)
  <2>1. subq[t] \in Seq(Notification) /\ subq'[t] = subq[t] \o ns
    BY <1>1
  <2>2. Elements(subq[t] \o ns) = Elements(subq[t]) \cup Elements(ns)
    BY <2>1, QueuedAfterSend
  <2>3. Queued(t) = Elements(subq[t]) /\ Queued(t)' = Elements(subq'[t])
    BY DEF Queued, Elements
  <2> QED
    BY <2>1, <2>2, <2>3
<1> QED
  BY <1>1, <1>2, <1>3

\* Every receiver that is left is told: of each proc ID that the map loses, and
\* of each process that is not running.  Only an unused proc ID gets a process.
AllAreTold(R) ==
  /\ subs' = R
  /\ subq' \in [Task -> Seq(Notification)]
  /\ \A t \in R :
       /\ Queued(t) \subseteq Queued(t)'
       /\ \A id \in ProcId :
            procs[id] # None =>
              \/ procs'[id] = None /\ Delete(id) \in Queued(t)'
              \/ procs'[id] = procs[id]
       /\ \A c \in Proc :
            told'[c] => told[c] \/ NotRunning(idOf[c]) \in Queued(t)'

\* The operations of the registry tell all receivers.
LEMMA RegistryTells ==
  ASSUME WaitInv, NEW R \in SUBSET subs, RegistryOp(R)
  PROVE  AllAreTold(R)
<1> USE ShutdownAssumption, RegistryAssumption DEF WaitInv, TaskTypes
<1>0. /\ subs \subseteq Task
      /\ subq \in [Task -> Seq(Notification)]
  OBVIOUS
<1>1. ASSUME NEW ns \in Seq(Notification), NotifyOnly(R, ns),
             \A id \in ProcId :
               procs[id] # None =>
                 \/ procs'[id] = None /\ Delete(id) \in Elements(ns)
                 \/ procs'[id] = procs[id],
             \A c \in Proc :
               told'[c] => told[c] \/ NotRunning(idOf[c]) \in Elements(ns)
      PROVE  AllAreTold(R)
  <2>1. /\ subs' = R
        /\ subq' \in [Task -> Seq(Notification)]
        /\ \A t \in R : Queued(t)' = Queued(t) \cup Elements(ns)
    BY <1>0, <1>1, Sending
  <2> QED
    BY <1>1, <2>1 DEF AllAreTold
<1>2. ASSUME NEW ns, NotifyAll(ns), R = subs PROVE NotifyOnly(R, ns)
  BY <1>2 DEF NotifyAll, NotifyOnly
<1>3. ASSUME R = subs, NEW id \in ProcId, NEW c \in Proc, NEW st \in States,
             StartProc(id, c, st)
      PROVE  AllAreTold(R)
  <2>1. <<Start(id)>> \in Seq(Notification)
    BY NotificationTypes
  <2>2. NotifyOnly(R, <<Start(id)>>)
    BY <1>2, <1>3 DEF StartProc
  <2>3. /\ \A j \in ProcId : procs[j] # None => procs'[j] = procs[j]
        /\ told' = told
    BY <1>3 DEF StartProc
  <2> QED
    BY <1>1, <2>1, <2>2, <2>3
<1>4. ASSUME R = subs, NEW c \in Proc, NEW st \in States, StopProc(c, st)
      PROVE  AllAreTold(R)
  BY <1>0, <1>4 DEF StopProc, notifyVars, AllAreTold, Queued
<1>5. ASSUME R = subs, NEW c \in Proc, TellNotRunning(c)
      PROVE  AllAreTold(R)
  <2> DEFINE ns == <<NotRunning(idOf[c])>>
  <2>1. idOf[c] \in ProcId
    BY <1>5 DEF TellNotRunning, MapAgrees
  <2>2. ns \in Seq(Notification) /\ NotRunning(idOf[c]) \in Elements(ns)
    BY <2>1, NotificationTypes DEF Elements
  <2>3. NotifyOnly(R, ns)
    BY <1>2, <1>5 DEF TellNotRunning
  <2>4. procs' = procs /\ \A d \in Proc : told'[d] => told[d] \/ d = c
    BY <1>5 DEF TellNotRunning
  <2> HIDE DEF ns
  <2> QED
    BY <1>1, <2>2, <2>3, <2>4
<1>6. \A p : \A st \in ShutdownState : CheckIdlingSends(p, st) \in Seq(Notification)
  BY NotificationTypes DEF CheckIdlingSends, ShutdownState
<1>7. ASSUME R = subs, NEW id \in ProcId, DeleteProc(id)
      PROVE  AllAreTold(R)
  <2> DEFINE a == CheckIdlingSends(procs', shutdown)
             b == <<Delete(id)>>
  <2>1. a \in Seq(Notification) /\ b \in Seq(Notification)
    BY <1>6, NotificationTypes
  <2>2. NotifyOnly(R, a \o b)
    BY <1>2, <1>7 DEF DeleteProc
  <2>3. Delete(id) \in Elements(b)
    BY DEF Elements
  <2>4. /\ \A j \in ProcId : procs'[j] = procs[j] \/ (procs'[j] = None /\ j = id)
        /\ told' = told
    BY <1>7 DEF DeleteProc
  <2> HIDE DEF a, b
  <2>5. a \o b \in Seq(Notification) /\ Delete(id) \in Elements(a \o b)
    BY <2>1, <2>3, QueuedAfterSend
  <2> DEFINE ns == a \o b
  <2> HIDE DEF ns
  <2>6. /\ ns \in Seq(Notification) /\ Delete(id) \in Elements(ns)
        /\ NotifyOnly(R, ns)
    BY <2>2, <2>5 DEF ns
  <2> QED
    BY <1>1, <2>4, <2>6
<1>8. ASSUME Collect(R)
      PROVE  AllAreTold(R)
  <2> DEFINE S == {id \in ProcId : procs[id] # None}
  <2>1. PICK order \in Orders(S) :
          NotifyOnly(R, [i \in DOMAIN order |-> Delete(order[i])]
                          \o CheckIdlingSends(procs', shutdown)
                          \o <<ShutDown("done")>>)
    BY <1>8 DEF Collect
  <2> DEFINE a == [i \in DOMAIN order |-> Delete(order[i])]
             b == CheckIdlingSends(procs', shutdown)
             d == <<ShutDown("done")>>
  <2>2. b \in Seq(Notification) /\ d \in Seq(Notification)
    BY <1>6, NotificationTypes DEF ShutdownState
  <2>3. order \in [1..Cardinality(S) -> S] /\ \A x \in S : \E i \in DOMAIN order : order[i] = x
    BY DEF Orders
  <2>4. a \in Seq(Notification)
    <3>1. Cardinality(S) \in Nat
      BY FS_CardinalityType DEF MapFinite, Tracked
    <3>2. \A i \in 1..Cardinality(S) : Delete(order[i]) \in Notification
      BY <2>3, NotificationTypes
    <3>3. PICK n \in Nat : n = Cardinality(S)
      BY <3>1
    <3>4. a \in [1..n -> Notification]
      BY <2>3, <3>2, <3>3
    <3> HIDE DEF a
    <3> QED
      BY <3>4
  <2>5. ASSUME NEW id \in ProcId, procs[id] # None PROVE Delete(id) \in Elements(a)
    BY <2>3, <2>5 DEF Elements
  <2>6. procs' = [id \in ProcId |-> None] /\ told' = told
    BY <1>8 DEF Collect
  <2> HIDE DEF a, b, d
  <2>7. a \o b \in Seq(Notification) /\ Elements(a \o b) = Elements(a) \cup Elements(b)
    BY <2>2, <2>4, QueuedAfterSend
  <2> DEFINE e == a \o b
  <2>8. a \o b = e
    OBVIOUS
  <2> HIDE DEF e
  <2>9. e \o d \in Seq(Notification) /\ Elements(e \o d) = Elements(e) \cup Elements(d)
    BY <2>2, <2>7, <2>8, QueuedAfterSend
  <2> DEFINE ns == e \o d
  <2>10. e \o d = ns
    OBVIOUS
  <2> HIDE DEF ns
  <2>11. /\ ns \in Seq(Notification) /\ Elements(a) \subseteq Elements(ns)
         /\ NotifyOnly(R, ns)
    BY <2>1, <2>7, <2>8, <2>9, <2>10 DEF a, b, d
  <2> QED
    BY <1>1, <2>5, <2>6, <2>11
<1>9. ASSUME NEW st \in {"idling", "done"}, set_shutdown(R, st)
      PROVE  AllAreTold(R)
  <2> DEFINE a == <<ShutDown(st)>>
             b == CheckIdlingSends(procs, st)
             ns == a \o b
  <2>1. a \in Seq(Notification) /\ b \in Seq(Notification)
    BY <1>6, NotificationTypes DEF ShutdownState
  <2>2. NotifyOnly(R, ns)
    BY <1>9 DEF set_shutdown
  <2>3. procs' = procs /\ told' = told
    BY <1>9 DEF set_shutdown
  <2>4. ns \in Seq(Notification)
    BY <2>1
  <2> HIDE DEF ns
  <2> QED
    BY <1>1, <2>2, <2>3, <2>4
<1> QED
  BY <1>3, <1>4, <1>5, <1>7, <1>8, <1>9 DEF RegistryOp

-----------------------------------------------------------------------------
(* Waiting tasks *)

\* An operation of the registry wakes every waiting task that it concerns.  The
\* calling task may stop to wait, and drop its receiver, with it.
LEMMA RegistryWakes ==
  ASSUME WaitInv, NEW R \in SUBSET subs, RegistryOp(R),
         mode' = mode, up' \in BOOLEAN, pc' \in [Task -> Place],
         waitOn' \in [Task -> ProcId \cup {None}],
         R = {t \in Task : pc'[t] \in Waiting},
         \A t \in R : pc'[t] = pc[t] /\ waitOn'[t] = waitOn[t]
  PROVE  WaitInv'
<1>1. RegistryTypes /\ MapAgrees /\ ToldStopped /\ MapFinite
  BY DEF WaitInv, TaskTypes, RegistryTypes
<1>2. RegistryTypes' /\ MapAgrees' /\ ToldStopped' /\ MapFinite'
  BY <1>1, RegistryKept, RegistryStaysFinite
<1>3. AllAreTold(R)
  BY RegistryTells
<1>4. TaskTypes'
  BY <1>2, <1>3 DEF WaitInv, TaskTypes, RegistryTypes, AllAreTold
<1>5. WaitsForId'
  BY DEF WaitInv, WaitsForId, Waiting
<1>6. WaitIsWoken'
  <2> SUFFICES ASSUME NEW t \in Task
      PROVE /\ /\ pc'[t] = "wait_running"
               /\ Queued(t)' \cap {NotRunning(waitOn'[t]), Delete(waitOn'[t])} = {}
               => procs'[waitOn'[t]] # None /\ ~told'[procs'[waitOn'[t]]]
            /\ pc'[t] = "wait_idle" /\ Delete(waitOn'[t]) \notin Queued(t)'
               => procs'[waitOn'[t]] # None
    BY DEF WaitIsWoken, NotRunning, Delete
  <2> SUFFICES ASSUME pc'[t] \in {"wait_running", "wait_idle"},
                      Delete(waitOn'[t]) \notin Queued(t)',
                      pc'[t] = "wait_running"
                        => NotRunning(waitOn'[t]) \notin Queued(t)'
      PROVE /\ procs'[waitOn'[t]] # None
            /\ pc'[t] = "wait_running" => ~told'[procs'[waitOn'[t]]]
    OBVIOUS
  <2> DEFINE id == waitOn[t]
  <2>1. t \in R /\ pc'[t] = pc[t] /\ waitOn'[t] = id /\ id \in ProcId
    BY DEF Waiting, WaitInv, WaitsForId
  <2>2. Queued(t) \subseteq Queued(t)'
    BY <1>3, <2>1 DEF AllAreTold
  <2>3. procs[id] # None
    BY <2>1, <2>2 DEF WaitInv, WaitIsWoken
  <2>4. procs'[id] = procs[id]
    BY <1>3, <2>1, <2>3 DEF AllAreTold
  <2>5. ASSUME pc[t] = "wait_running"
        PROVE  ~told'[procs'[id]]
    <3>1. ~told[procs[id]]
      BY <2>1, <2>2, <2>5 DEF WaitInv, WaitIsWoken
    <3>2. procs[id] \in Proc /\ idOf[procs[id]] = id
      BY <1>1, <2>1, <2>3 DEF RegistryTypes, MapAgrees
    <3> QED
      BY <1>3, <2>1, <2>4, <2>5, <3>1, <3>2 DEF AllAreTold
  <2> QED
    BY <2>1, <2>3, <2>4, <2>5
<1> QED
  BY <1>2, <1>4, <1>5, <1>6 DEF WaitInv

\* A task t that starts to wait, looks again or gives up disturbs no other.
LEMMA WaiterStep ==
  ASSUME WaitInv, UNCHANGED <<registryVars, mode>>, up' \in BOOLEAN,
         NEW t \in Task, NEW p \in Place, NEW id \in ProcId \cup {None},
         pc' = [pc EXCEPT ![t] = p],
         waitOn' = [waitOn EXCEPT ![t] = id],
         subs' = IF p \in Waiting THEN subs \cup {t} ELSE subs \ {t},
         NEW q \in Seq(Notification), subq' = [subq EXCEPT ![t] = q],
         p \in {"wait_running", "wait_idle"} => id \in ProcId,
         p = "wait_running" =>
           \/ Elements(q) \cap {NotRunning(id), Delete(id)} # {}
           \/ procs[id] # None /\ ~told[procs[id]],
         p = "wait_idle" => Delete(id) \in Elements(q) \/ procs[id] # None
  PROVE  WaitInv'
<1> USE DEF WaitInv, TaskTypes, registryVars
<1>1. TaskTypes'
  OBVIOUS
<1>2. MapAgrees' /\ MapFinite' /\ ToldStopped'
  BY DEF MapAgrees, MapFinite, ToldStopped, Tracked
<1>3. WaitsForId'
  BY DEF WaitsForId
<1>4. WaitIsWoken'
  <2>1. ASSUME NEW u \in Task, u # t
        PROVE  /\ pc'[u] = pc[u] /\ waitOn'[u] = waitOn[u]
               /\ Queued(u)' = Queued(u)
    BY <2>1 DEF Queued
  <2>2. pc'[t] = p /\ waitOn'[t] = id /\ Queued(t)' = Elements(q)
    BY DEF Queued, Elements
  <2> SUFFICES ASSUME NEW u \in Task
      PROVE /\ /\ pc'[u] = "wait_running"
               /\ Queued(u)' \cap {NotRunning(waitOn'[u]), Delete(waitOn'[u])} = {}
               => procs'[waitOn'[u]] # None /\ ~told'[procs'[waitOn'[u]]]
            /\ pc'[u] = "wait_idle" /\ Delete(waitOn'[u]) \notin Queued(u)'
               => procs'[waitOn'[u]] # None
    BY DEF WaitIsWoken, NotRunning, Delete
  <2>3. CASE u = t
    BY <2>2, <2>3
  <2>4. CASE u # t
    BY <2>1, <2>4 DEF WaitIsWoken
  <2> QED
    BY <2>3, <2>4
<1> QED
  BY <1>1, <1>2, <1>3, <1>4

\* A task may start to wait for what is there.
LEMMA StartWaitKept ==
  ASSUME WaitInv, NEW t \in Task, NEW S, NEW phase, StartWait(t, S, phase),
         \/ phase = "wait_running" /\ S = Running
         \/ phase = "wait_idle" /\ S = Live,
         mode' = mode, up' = up
  PROVE  WaitInv'
<1>1. PICK id \in S : waitOn' = [waitOn EXCEPT ![t] = id]
  BY DEF StartWait
<1>2. id \in ProcId /\ procs[id] # None
  BY DEF Running, Live
<1>3. phase = "wait_running" => ~told[procs[id]]
  BY <1>2 DEF Running, Live, WaitInv, TaskTypes, ToldStopped
<1>4. /\ pc' = [pc EXCEPT ![t] = phase] /\ phase \in Place /\ phase \in Waiting
      /\ subs' = subs \cup {t}
      /\ subq' = [subq EXCEPT ![t] = <<>>] /\ <<>> \in Seq(Notification)
      /\ UNCHANGED registryVars
  BY DEF StartWait, Place, Waiting
<1>5. up' \in BOOLEAN
  BY DEF WaitInv, TaskTypes
<1> QED
  BY <1>1, <1>2, <1>3, <1>4, <1>5, WaiterStep

\* A task may end with a shutdown, or --exit's with the results.
LEMMA EndKept ==
  ASSUME WaitInv, NEW t \in Task, ShutDownAndEnd(t) \/ (t = "exit" /\ CollectAndEnd),
         mode' = mode, up' = up
  PROVE  WaitInv'
<1>1. /\ pc' = [pc EXCEPT ![t] = "ended"]
      /\ waitOn' = [waitOn EXCEPT ![t] = None]
      /\ RegistryOp(subs \ {t})
  BY DEF ShutDownAndEnd, CollectAndEnd, RegistryOp
<1>2. /\ subs \ {t} = {u \in Task : pc'[u] \in Waiting}
      /\ \A u \in subs \ {t} : pc'[u] = pc[u] /\ waitOn'[u] = waitOn[u]
      /\ pc' \in [Task -> Place] /\ waitOn' \in [Task -> ProcId \cup {None}]
      /\ up' \in BOOLEAN /\ subs \ {t} \in SUBSET subs
  BY <1>1 DEF WaitInv, TaskTypes, Waiting, Place
<1> QED
  BY <1>1, <1>2, RegistryWakes

\* So may a task do either, after the killing.
LEMMA WaitIdleThenShutDownKept ==
  ASSUME WaitInv, NEW t \in Task, WaitIdleThenShutDown(t), mode' = mode, up' = up
  PROVE  WaitInv'
  BY StartWaitKept, EndKept DEF WaitIdleThenShutDown

\* An operation of the registry by a client, its own tasks, or a task that does
\* not wait.
LEMMA OthersKept ==
  ASSUME WaitInv, RegistryOp(subs), mode' = mode, up' = up, waitOn' = waitOn,
         pc' \in [Task -> Place],
         \A t \in Task : pc'[t] = pc[t] \/ {pc[t], pc'[t]} \cap Waiting = {}
  PROVE  WaitInv'
<1>1. /\ subs = {u \in Task : pc'[u] \in Waiting}
      /\ \A u \in subs : pc'[u] = pc[u] /\ waitOn'[u] = waitOn[u]
      /\ waitOn' \in [Task -> ProcId \cup {None}]
      /\ up' \in BOOLEAN /\ subs \in SUBSET subs
  BY DEF WaitInv, TaskTypes
<1> QED
  BY <1>1, RegistryWakes

\* A step of a task that leaves the registry and the queues alone.
LEMMA QuietKept ==
  ASSUME WaitInv, UNCHANGED <<vars, mode, waitOn>>, up' \in BOOLEAN,
         pc' \in [Task -> Place],
         \A t \in Task : pc'[t] = pc[t] \/ {pc[t], pc'[t]} \cap Waiting = {}
  PROVE  WaitInv'
<1> USE DEF WaitInv, TaskTypes, vars, registryVars, notifyVars
<1>1. TaskTypes'
  OBVIOUS
<1>2. MapAgrees' /\ MapFinite' /\ ToldStopped'
  BY DEF MapAgrees, MapFinite, ToldStopped, Tracked
<1>3. \A t \in Task : /\ pc'[t] = pc[t] \/ pc'[t] \notin Waiting
                      /\ Queued(t)' = Queued(t) /\ waitOn'[t] = waitOn[t]
  BY DEF Queued
<1>4. WaitsForId'
  BY <1>3 DEF WaitsForId, Waiting
<1>5. WaitIsWoken'
  BY <1>3 DEF WaitIsWoken, Waiting, NotRunning, Delete
<1> QED
  BY <1>1, <1>2, <1>4, <1>5

\* A waiting task receives: it goes on to wait for the same process unless the
\* notification is one that it waits for, and looks again if it is.
LEMMA RecvKept ==
  ASSUME WaitInv, NEW t \in Task, Recv(t),
         UNCHANGED <<registryVars, pc, mode, up>>,
         \/ /\ waitOn' = waitOn
            /\ pc[t] = "wait_running" => Head(subq[t]) \notin EndsRunning(waitOn[t])
            /\ pc[t] = "wait_idle" => Head(subq[t]) \notin EndsIdle(waitOn[t])
         \/ pc[t] = "wait_running" /\ WaitsOn(t, Running)
         \/ pc[t] = "wait_idle" /\ WaitsOn(t, Live)
  PROVE  WaitInv'
<1> DEFINE q == Tail(subq[t])
<1>1. subq[t] \in Seq(Notification) /\ pc[t] \in Place /\ pc = [pc EXCEPT ![t] = @]
      /\ up' \in BOOLEAN /\ waitOn[t] \in ProcId \cup {None}
      /\ waitOn = [waitOn EXCEPT ![t] = @]
  BY DEF WaitInv, TaskTypes
<1>2. q \in Seq(Notification) /\ Elements(subq[t]) = {Head(subq[t])} \cup Elements(q)
  BY <1>1, QueuedAfterRecv DEF Recv
<1>3. /\ subq' = [subq EXCEPT ![t] = q] /\ t \in subs /\ subs' = subs
      /\ pc[t] \in Waiting
  BY DEF Recv, WaitInv, TaskTypes
<1>4. subs' = IF pc[t] \in Waiting THEN subs \cup {t} ELSE subs \ {t}
  BY <1>3
<1>5. Queued(t) = Elements(subq[t])
  BY DEF Queued, Elements
<1> HIDE DEF q
<1>6. CASE waitOn' = waitOn
  <2> DEFINE id == waitOn[t]
  <2>1. pc[t] \in {"wait_running", "wait_idle"} => id \in ProcId
    BY DEF WaitInv, WaitsForId
  <2>2. CASE \/ pc[t] = "wait_running" /\ WaitsOn(t, Running)
             \/ pc[t] = "wait_idle" /\ WaitsOn(t, Live)
    <3>1. \/ pc[t] = "wait_running" /\ id \in Running
          \/ pc[t] = "wait_idle" /\ id \in Live
      BY <1>1, <1>6, <2>2 DEF WaitsOn, WaitInv, TaskTypes
    <3>2. procs[id] # None /\ (pc[t] = "wait_running" => ~told[procs[id]])
      BY <3>1 DEF Running, Live, WaitInv, TaskTypes, ToldStopped
    <3> QED
      BY <1>1, <1>2, <1>3, <1>4, <1>6, <2>1, <3>2, WaiterStep
  <2>3. CASE /\ pc[t] = "wait_running" => Head(subq[t]) \notin EndsRunning(waitOn[t])
             /\ pc[t] = "wait_idle" => Head(subq[t]) \notin EndsIdle(waitOn[t])
    <3>1. pc[t] = "wait_running" =>
           \/ Elements(q) \cap {NotRunning(id), Delete(id)} # {}
           \/ procs[id] # None /\ ~told[procs[id]]
      BY <1>2, <1>5, <2>3 DEF EndsRunning, WaitInv, WaitIsWoken
    <3>2. pc[t] = "wait_idle" => Delete(id) \in Elements(q) \/ procs[id] # None
      BY <1>2, <1>5, <2>3 DEF EndsIdle, WaitInv, WaitIsWoken
    <3> QED
      BY <1>1, <1>2, <1>3, <1>4, <1>6, <2>1, <3>1, <3>2, WaiterStep
  <2> QED
    BY <2>2, <2>3
<1>7. CASE pc[t] = "wait_running" /\ WaitsOn(t, Running)
  <2>1. PICK id \in Running : waitOn' = [waitOn EXCEPT ![t] = id]
    BY <1>7 DEF WaitsOn
  <2>2. id \in ProcId /\ procs[id] # None /\ ~told[procs[id]]
    BY DEF Running, Live, WaitInv, TaskTypes, ToldStopped
  <2> QED
    BY <1>1, <1>2, <1>3, <1>4, <1>7, <2>1, <2>2, WaiterStep
<1>8. CASE pc[t] = "wait_idle" /\ WaitsOn(t, Live)
  <2>1. PICK id \in Live : waitOn' = [waitOn EXCEPT ![t] = id]
    BY <1>8 DEF WaitsOn
  <2>2. id \in ProcId /\ procs[id] # None
    BY DEF Live
  <2> QED
    BY <1>1, <1>2, <1>3, <1>4, <1>8, <2>1, <2>2, WaiterStep
<1> QED
  BY <1>6, <1>7, <1>8

\* The registry's own tasks, the command line and the clients.
RegistrySteps ==
  \/ \E id \in ProcId, c \in Proc, st \in States : ClientStarts(id, c, st)
  \/ \E c \in Proc, st \in States : ProcStops(c, st)
  \/ \E c \in Proc : ProcTold(c)
  \/ \E id \in ProcId : ClientDeletes(id)

\* They do one operation of the registry and leave the tasks alone.
LEMMA RegistryStepsOp ==
  ASSUME RegistrySteps
  PROVE  RegistryOp(subs) /\ UNCHANGED taskVars
  BY DEF RegistrySteps, RegistryOp, ClientStarts, ProcStops, ProcTold, ClientDeletes

\* The agent's task waits for no process.
LEMMA AgentKept ==
  ASSUME WaitInv, AgentTurn \/ AgentDisconnects
  PROVE  WaitInv'
<1>0. /\ pc \in [Task -> Place] /\ up \in BOOLEAN /\ "agent" \in Task
      /\ waitOn \in [Task -> ProcId \cup {None}]
      /\ waitOn["agent"] \in ProcId \cup {None}
      /\ waitOn = [waitOn EXCEPT !["agent"] = @]
      /\ <<>> \in Seq(Notification)
  BY DEF WaitInv, TaskTypes, Task, Joined
<1>1. UNCHANGED <<mode, up, waitOn>>
  BY DEF AgentTurn, AgentLooks, AgentConnected, AgentConnectFails, AgentRecv,
     AgentDisconnects
<1>2. CASE AgentLooks \/ AgentConnectFails
  <2>1. PICK p \in {"start", "connecting", "ended", "failed"} :
          UNCHANGED vars /\ pc' = [pc EXCEPT !["agent"] = p]
    BY <1>2 DEF AgentLooks, AgentConnectFails
  <2>2. pc["agent"] \in {"start", "connecting"}
    BY <1>2 DEF AgentLooks, AgentConnectFails
  <2> QED
    BY <1>0, <1>1, <2>1, <2>2, QuietKept DEF Place, Waiting
<1>3. CASE AgentConnected
  <2>1. /\ subs' = subs \cup {"agent"} /\ "serving" \in Waiting /\ "serving" \in Place
        /\ subq' = [subq EXCEPT !["agent"] = <<>>]
        /\ pc' = [pc EXCEPT !["agent"] = "serving"] /\ UNCHANGED registryVars
    BY <1>3 DEF AgentConnected, Subscribe, Place, Waiting
  <2> QED
    BY <1>0, <1>1, <2>1, WaiterStep
<1>4. ASSUME NEW p \in {"start", "ended"}, pc' = [pc EXCEPT !["agent"] = p],
             Unsubscribe("agent"), UNCHANGED registryVars
      PROVE  WaitInv'
  <2>1. /\ subs' = subs \ {"agent"} /\ p \notin Waiting /\ p \in Place
        /\ subq' = [subq EXCEPT !["agent"] = <<>>]
    BY <1>4 DEF Unsubscribe, Place, Waiting
  <2>2. p \notin {"wait_running", "wait_idle"}
    BY DEF Waiting
  <2> QED
    BY <1>0, <1>1, <1>4, <2>1, <2>2, WaiterStep
<1>5. CASE AgentDisconnects
  BY <1>4, <1>5 DEF AgentDisconnects
<1>6. CASE AgentRecv
  <2>1. pc["agent"] = "serving" /\ UNCHANGED registryVars
    BY <1>6 DEF AgentRecv
  <2>2. CASE Recv("agent") /\ UNCHANGED pc
    BY <1>0, <1>1, <2>1, <2>2, RecvKept
  <2> QED
    BY <1>4, <1>6, <2>1, <2>2 DEF AgentRecv
<1> QED
  BY <1>2, <1>3, <1>5, <1>6 DEF AgentTurn

\* Every step leaves each waiting task with something that will wake it.
LEMMA WaitInvStep == WaitInv /\ [ShutdownNext]_allVars => WaitInv'
<1> SUFFICES ASSUME WaitInv, [ShutdownNext]_allVars PROVE WaitInv'
  OBVIOUS
<1>0. /\ pc \in [Task -> Place] /\ up \in BOOLEAN
      /\ waitOn \in [Task -> ProcId \cup {None}]
      /\ subs = {t \in Task : pc[t] \in Waiting}
      /\ Handler \subseteq Task /\ Joined \subseteq Task
  BY DEF WaitInv, TaskTypes, Task
<1>1. ASSUME NEW h \in Handler, Signal(h) PROVE WaitInv'
  <2>1. UNCHANGED <<vars, mode, up, waitOn>> /\ pc' = [pc EXCEPT ![h] = "queued"]
        /\ pc[h] = "armed"
    BY <1>1 DEF Signal
  <2> QED
    BY <1>0, <2>1, QuietKept DEF Place, Waiting
<1>2. ASSUME NEW h \in Handler, ShutdownOnIdle(h) PROVE WaitInv'
  <2>1. RegistryOp(subs) /\ UNCHANGED <<mode, up, waitOn>>
    BY <1>2 DEF ShutdownOnIdle, StartHandler, RegistryOp
  <2>2. pc[h] = "queued" /\ pc' = [pc EXCEPT ![h] = "ended"]
    BY <1>2 DEF ShutdownOnIdle, StartHandler
  <2> QED
    BY <1>0, <2>1, <2>2, OthersKept DEF Place, Waiting
<1>3. ASSUME NEW h \in Handler,
             TermThenKill(h) \/ Kill(h) \/ TermTimeout(h) \/ KillTimeout(h)
      PROVE  WaitInv'
  <2>1. \/ StartWait(h, Running, "wait_running")
        \/ WaitIdleThenShutDown(h)
        \/ ShutDownAndEnd(h)
    BY <1>3 DEF TermThenKill, Kill, TermTimeout, KillTimeout
  <2>2. mode' = mode /\ up' = up
    BY <1>3 DEF TermThenKill, Kill, TermTimeout, KillTimeout, StartHandler
  <2> QED
    BY <1>0, <2>1, <2>2, StartWaitKept, WaitIdleThenShutDownKept, EndKept
<1>4. ASSUME NEW t \in Task, WaitRunningRecv(t) PROVE WaitInv'
  <2>1. mode' = mode /\ up' = up /\ pc[t] = "wait_running"
    BY <1>4 DEF WaitRunningRecv
  <2>2. \/ /\ Recv(t) /\ UNCHANGED <<registryVars, pc>>
           /\ \/ waitOn' = waitOn /\ Head(subq[t]) \notin EndsRunning(waitOn[t])
              \/ WaitsOn(t, Running)
        \/ t = "exit" /\ CollectAndEnd
        \/ WaitIdleThenShutDown(t)
    BY <1>4 DEF WaitRunningRecv
  <2> QED
    BY <2>1, <2>2, RecvKept, EndKept, WaitIdleThenShutDownKept
<1>5. ASSUME NEW t \in Task, WaitIdleRecv(t) PROVE WaitInv'
  <2>1. mode' = mode /\ up' = up /\ pc[t] = "wait_idle"
    BY <1>5 DEF WaitIdleRecv
  <2>2. \/ /\ Recv(t) /\ UNCHANGED <<registryVars, pc>>
           /\ \/ waitOn' = waitOn /\ Head(subq[t]) \notin EndsIdle(waitOn[t])
              \/ WaitsOn(t, Live)
        \/ ShutDownAndEnd(t)
    BY <1>5 DEF WaitIdleRecv
  <2> QED
    BY <2>1, <2>2, RecvKept, EndKept
<1>6. ASSUME MainUp PROVE WaitInv'
  BY <1>0, <1>6, QuietKept DEF MainUp
<1>7. ASSUME HttpEnds PROVE WaitInv'
  <2>1. /\ UNCHANGED <<vars, mode, up, waitOn>> /\ pc' = [pc EXCEPT !["http"] = "ended"]
        /\ pc["http"] = "start"
    BY <1>7 DEF HttpEnds
  <2> QED
    BY <1>0, <2>1, QuietKept DEF Place, Waiting
<1>8. ASSUME \/ ExitStarts \/ ExitShutDown \/ FirstTimeout \/ IdleShutDown
      PROVE  WaitInv'
  <2>1. /\ mode' = mode /\ up' = up
        /\ \/ StartWait("exit", Running, "wait_running")
           \/ CollectAndEnd
           \/ ShutDownAndEnd("idle")
    BY <1>8 DEF ExitStarts, ExitShutDown, FirstTimeout, IdleShutDown
  <2>2. "exit" \in Task /\ "idle" \in Task
    BY DEF Task, Joined
  <2> QED
    BY <2>1, <2>2, StartWaitKept, EndKept
<1>9. ASSUME WaitUntilIdle, mode' = mode, up' = up PROVE WaitInv'
  <2>1. "idle" \in Task
    BY DEF Task, Joined
  <2> QED
    BY <1>9, <2>1, EndKept, WaitIdleThenShutDownKept DEF WaitUntilIdle
<1>10. ASSUME IdleStarts PROVE WaitInv'
  <2>1. /\ mode' = mode /\ up' = up /\ pc["idle"] = "start" /\ "idle" \in Task
        /\ waitOn["idle"] \in ProcId \cup {None}
        /\ waitOn = [waitOn EXCEPT !["idle"] = @]
    BY <1>0, <1>10 DEF IdleStarts, Task, Joined
  <2>2. CASE /\ pc' = [pc EXCEPT !["idle"] = "first"]
             /\ Subscribe("idle")
             /\ UNCHANGED <<registryVars, waitOn>>
    <3>1. /\ subs' = subs \cup {"idle"} /\ "first" \in Waiting /\ "first" \in Place
          /\ subq' = [subq EXCEPT !["idle"] = <<>>] /\ <<>> \in Seq(Notification)
      BY <2>2 DEF Subscribe, Place, Waiting
    <3> QED
      BY <1>0, <2>1, <2>2, <3>1, WaiterStep
  <2>3. CASE pc' = [pc EXCEPT !["idle"] = "ended"] /\ UNCHANGED <<vars, waitOn>>
    BY <1>0, <2>1, <2>3, QuietKept DEF Place, Waiting
  <2> QED
    BY <1>9, <1>10, <2>1, <2>2, <2>3 DEF IdleStarts
<1>11. ASSUME FirstRecv PROVE WaitInv'
  <2>1. /\ mode' = mode /\ up' = up /\ pc["idle"] = "first" /\ "idle" \in Task
    BY <1>0, <1>11 DEF FirstRecv, Task, Joined
  <2>2. CASE Recv("idle") /\ UNCHANGED <<registryVars, pc, waitOn>>
    BY <2>1, <2>2, RecvKept
  <2> QED
    BY <1>9, <1>11, <2>1, <2>2 DEF FirstRecv
<1>12. ASSUME FirstShutDown PROVE WaitInv'
  <2>1. /\ mode' = mode /\ up' = up /\ pc["idle"] = "first" /\ "idle" \in Task
        /\ waitOn["idle"] \in ProcId \cup {None}
        /\ waitOn' = [waitOn EXCEPT !["idle"] = @]
        /\ UNCHANGED registryVars
        /\ pc' = [pc EXCEPT !["idle"] = "ended"]
    BY <1>0, <1>12 DEF FirstShutDown, Task, Joined
  <2>2. /\ subs' = subs \ {"idle"} /\ "ended" \notin Waiting /\ "ended" \in Place
        /\ subq' = [subq EXCEPT !["idle"] = <<>>] /\ <<>> \in Seq(Notification)
    BY <1>12 DEF FirstShutDown, Unsubscribe, Place, Waiting
  <2> QED
    BY <1>0, <2>1, <2>2, WaiterStep
<1>13. ASSUME RegistrySteps PROVE WaitInv'
  <2>1. RegistryOp(subs) /\ UNCHANGED <<mode, up, pc, waitOn>>
    BY <1>13, RegistryStepsOp DEF taskVars
  <2> QED
    BY <1>0, <2>1, OthersKept
<1>14. CASE UNCHANGED allVars
  BY <1>0, <1>14, QuietKept DEF allVars, taskVars
<1> QED
  BY <1>1, <1>2, <1>3, <1>4, <1>5, <1>6, <1>7, <1>8, <1>10, <1>11, <1>12, <1>13, <1>14,
     AgentKept
  DEF ShutdownNext, HandlerStep, WaiterRecv, JoinedStep, RegistrySteps

-----------------------------------------------------------------------------
(* Stragglers *)

Killers == {"TERM", "INT", "QUIT"}
Killed == {"wait_idle", "ended"}

\* A step in which no handler gets to the end of its killing.
LEMMA KillKept ==
  ASSUME KillInv, NoRevival, known' = known,
         sent' \in [Proc -> SUBSET {"TERM", "KILL"}],
         \A c \in Proc : sent[c] \subseteq sent'[c],
         \A h \in Killers : pc'[h] \in Killed => pc[h] \in Killed
  PROVE  KillInv'
  BY DEF KillInv, NoRevival, StragglersKilled, Killers, Killed, Handler

\* A step in which a handler does: nothing that runs is left without a SIGKILL.
LEMMA KillDone ==
  ASSUME WaitInv, KillInv, UNCHANGED <<procs, idOf, state>>,
         NEW h \in Handler,
         known' = known \/ known' = [known EXCEPT ![h] = {procs[id] : id \in Live}],
         \A g \in Handler \ {h} : pc'[g] = pc[g],
         sent' \in [Proc -> SUBSET {"TERM", "KILL"}],
         \A c \in Proc : sent[c] \subseteq sent'[c],
         \A id \in Running : "KILL" \in sent'[procs[id]]
  PROVE  KillInv'
<1> USE DEF WaitInv, TaskTypes, KillInv
<1> DEFINE F == {procs[id] : id \in Live}
<1>1. /\ F \in SUBSET Proc /\ \A c \in F : state[c] # "none"
      /\ known' = known \/ known' = [known EXCEPT ![h] = F]
  BY DEF Live, MapAgrees
<1> HIDE DEF F
<1>2. known' \in [Handler -> SUBSET Proc]
  BY <1>1
<1>3. \A g \in Handler : \A c \in known'[g] : state'[c] # "none"
  BY <1>1
<1>4. \A c \in Proc : state[c] = "running" /\ procs[idOf[c]] = c => "KILL" \in sent'[c]
  <2> SUFFICES ASSUME NEW c \in Proc, state[c] = "running", procs[idOf[c]] = c
               PROVE  "KILL" \in sent'[c]
    OBVIOUS
  <2>1. idOf[c] \in Running
    BY RegistryAssumption DEF MapAgrees, Running, Live
  <2> QED
    BY <2>1
<1>5. StragglersKilled'
  BY <1>2, <1>4 DEF StragglersKilled, Handler
<1> QED
  BY <1>2, <1>3, <1>5

\* send_signal_all() reaches every running process and forgets no signal.
LEMMA SignalsSent ==
  ASSUME WaitInv, KillInv, NEW signum \in {"TERM", "KILL"}, SendSignalAll(signum)
  PROVE  /\ sent' \in [Proc -> SUBSET {"TERM", "KILL"}]
         /\ \A c \in Proc : sent[c] \subseteq sent'[c]
         /\ \A id \in Running : signum \in sent'[procs[id]]
<1>1. \A id \in Running : procs[id] \in Proc
  BY DEF Running, Live, WaitInv, TaskTypes
<1> QED
  BY <1>1 DEF SendSignalAll, KillInv

\* What a task does to the registry when it waits or ends revives no process.
LEMMA WaitOrEnd ==
  ASSUME WaitInv, NEW t \in Task, NEW S, NEW phase,
         \/ StartWait(t, S, phase) \/ WaitIdleThenShutDown(t) \/ ShutDownAndEnd(t)
  PROVE  /\ UNCHANGED <<procs, idOf, state>>
         /\ \A u \in Task \ {t} : pc'[u] = pc[u]
  BY DEF StartWait, WaitIdleThenShutDown, ShutDownAndEnd, set_shutdown, registryVars,
     WaitInv, TaskTypes

\* Every step keeps what the handlers know and have killed.
LEMMA KillInvStep == WaitInv /\ KillInv /\ [ShutdownNext]_allVars => KillInv'
<1> SUFFICES ASSUME WaitInv, KillInv, [ShutdownNext]_allVars PROVE KillInv'
  OBVIOUS
<1>0. /\ pc \in [Task -> Place]
      /\ Handler \subseteq Task /\ Killers \subseteq Handler
      /\ sent \in [Proc -> SUBSET {"TERM", "KILL"}]
      /\ "exit" \in Task \ Handler /\ "idle" \in Task \ Handler
      /\ "http" \in Task \ Handler /\ "agent" \in Task \ Handler
      /\ RegistryTypes /\ MapAgrees
  BY DEF WaitInv, TaskTypes, RegistryTypes, KillInv, Task, Killers, Handler, Joined
<1>1. ASSUME UNCHANGED <<procs, idOf, state>> PROVE NoRevival
  BY <1>1 DEF NoRevival
<1>2. ASSUME NEW h \in Handler, Signal(h) PROVE KillInv'
  <2>1. /\ NoRevival /\ UNCHANGED <<known, sent>>
        /\ pc' = [pc EXCEPT ![h] = "queued"]
    BY <1>1, <1>2 DEF Signal, vars, registryVars
  <2> QED
    BY <1>0, <2>1, KillKept DEF Killed
<1>3. ASSUME NEW h \in Handler, ShutdownOnIdle(h) PROVE KillInv'
  <2>1. /\ UNCHANGED <<procs, idOf, state, sent>> /\ h = "USR1"
        /\ pc' = [pc EXCEPT ![h] = "ended"]
        /\ known' = [known EXCEPT ![h] = {procs[id] : id \in Live}]
    BY <1>3 DEF ShutdownOnIdle, StartHandler, set_shutdown
  <2>2. \A id \in Live : procs[id] \in Proc /\ state[procs[id]] # "none"
    BY DEF WaitInv, TaskTypes, Live, MapAgrees
  <2>3. \A g \in Killers : known'[g] = known[g] /\ pc'[g] = pc[g]
    BY <1>0, <2>1 DEF Killers, KillInv
  <2> QED
    BY <1>0, <2>1, <2>2, <2>3 DEF KillInv, StragglersKilled, Killers
<1>4. ASSUME NEW h \in Handler, TermThenKill(h) PROVE KillInv'
  <2>1. /\ UNCHANGED <<procs, idOf, state>>
        /\ \A u \in Task \ {h} : pc'[u] = pc[u]
    BY <1>0, <1>4, WaitOrEnd DEF TermThenKill
  <2>2. /\ sent' \in [Proc -> SUBSET {"TERM", "KILL"}]
        /\ \A c \in Proc : sent[c] \subseteq sent'[c]
    BY <1>4, SignalsSent DEF TermThenKill
  <2>3. known' = [known EXCEPT ![h] = {procs[id] : id \in Live}]
    BY <1>4 DEF TermThenKill, StartHandler
  <2>4. CASE Running = {}
    BY <1>0, <2>1, <2>2, <2>3, <2>4, KillDone
  <2>5. CASE Running # {}
    <3>1. pc'[h] = "wait_running"
      BY <1>0, <1>4, <2>5 DEF TermThenKill, StartWait
    <3>2. \A id \in Live : procs[id] \in Proc /\ state[procs[id]] # "none"
      BY DEF WaitInv, TaskTypes, Live, MapAgrees
    <3>3. known' \in [Handler -> SUBSET Proc]
      BY <2>3, <3>2 DEF KillInv
    <3>4. \A g \in Handler : \A c \in known'[g] : state'[c] # "none"
      BY <2>1, <2>3, <3>2 DEF KillInv
    <3>5. \A g \in Killers \ {h} : known'[g] = known[g] /\ pc'[g] = pc[g]
      BY <1>0, <2>1, <2>3 DEF KillInv
    <3>6. StragglersKilled'
      BY <1>0, <2>1, <2>2, <3>1, <3>3, <3>5 DEF KillInv, StragglersKilled, Killers
    <3> QED
      BY <2>2, <3>3, <3>4, <3>6 DEF KillInv
  <2> QED
    BY <2>4, <2>5
<1>5. ASSUME NEW h \in Handler, Kill(h) \/ TermTimeout(h) PROVE KillInv'
  <2>1. /\ UNCHANGED <<procs, idOf, state>>
        /\ \A u \in Task \ {h} : pc'[u] = pc[u]
    BY <1>0, <1>5, WaitOrEnd DEF Kill, TermTimeout
  <2>2. SendSignalAll("KILL")
    BY <1>5 DEF Kill, TermTimeout, KillStragglers
  <2>3. known' = known \/ known' = [known EXCEPT ![h] = {procs[id] : id \in Live}]
    BY <1>5 DEF Kill, TermTimeout, StartHandler
  <2> QED
    BY <1>0, <2>1, <2>2, <2>3, SignalsSent, KillDone
<1>6. ASSUME NEW h \in Handler, KillTimeout(h) PROVE KillInv'
  <2>1. /\ UNCHANGED <<procs, idOf, state, sent, known>>
        /\ \A u \in Task \ {h} : pc'[u] = pc[u]
        /\ pc[h] \in Killed
    BY <1>0, <1>6, WaitOrEnd DEF KillTimeout, Killed
  <2> QED
    BY <1>0, <1>1, <2>1, KillKept
<1>7. ASSUME NEW t \in Task, WaitIdleRecv(t) PROVE KillInv'
  <2>1. UNCHANGED <<procs, idOf, state, sent, known>>
    BY <1>7 DEF WaitIdleRecv, registryVars, ShutDownAndEnd, set_shutdown
  <2>2. /\ \A u \in Task \ {t} : pc'[u] = pc[u]
        /\ pc[t] \in Killed
    BY <1>0, <1>7 DEF WaitIdleRecv, ShutDownAndEnd, Killed
  <2> QED
    BY <1>0, <1>1, <2>1, <2>2, KillKept
<1>8. ASSUME CollectAndEnd PROVE NoRevival /\ pc' = [pc EXCEPT !["exit"] = "ended"]
  <2>1. RegistryOp(subs \ {"exit"})
    BY <1>8 DEF CollectAndEnd, RegistryOp
  <2> QED
    BY <1>0, <1>8, <2>1, RegistryRevivesNone DEF CollectAndEnd
<1>9. ASSUME NEW t \in Task, WaitRunningRecv(t) PROVE KillInv'
  <2>0. UNCHANGED <<sent, known>>
    BY <1>9 DEF WaitRunningRecv
  <2>1. CASE UNCHANGED <<registryVars, pc>>
    BY <1>0, <1>1, <2>0, <2>1, KillKept DEF registryVars
  <2>2. CASE t = "exit" /\ CollectAndEnd
    BY <1>0, <1>8, <2>0, <2>2, KillKept
  <2>3. CASE Running = {} /\ WaitIdleThenShutDown(t)
    <3>1. /\ UNCHANGED <<procs, idOf, state>>
          /\ \A u \in Task \ {t} : pc'[u] = pc[u]
      BY <2>3, WaitOrEnd
    <3>2. CASE t \in Handler
      BY <1>0, <2>0, <2>3, <3>1, <3>2, KillDone
    <3>3. CASE t \notin Handler
      BY <1>0, <1>1, <2>0, <3>1, <3>3, KillKept
    <3> QED
      BY <3>2, <3>3
  <2> QED
    BY <1>9, <2>1, <2>2, <2>3 DEF WaitRunningRecv
<1>10. ASSUME MainUp \/ JoinedStep PROVE KillInv'
  <2>1. UNCHANGED <<sent, known>>
    BY <1>10 DEF MainUp, JoinedStep, HttpEnds, ExitStarts, ExitShutDown, IdleStarts,
       FirstRecv, FirstTimeout, FirstShutDown, IdleShutDown, AgentTurn, AgentLooks,
       AgentConnected, AgentConnectFails, AgentRecv, AgentDisconnects
  <2>2. CASE MainUp \/ HttpEnds
    <3>1. /\ UNCHANGED <<procs, idOf, state>>
          /\ pc' = pc \/ pc' = [pc EXCEPT !["http"] = "ended"]
      BY <2>2 DEF MainUp, HttpEnds, vars, registryVars
    <3> QED
      BY <1>0, <1>1, <2>1, <3>1, KillKept
  <2>3. CASE ExitStarts \/ ExitShutDown
    <3>1. StartWait("exit", Running, "wait_running") \/ CollectAndEnd
      BY <2>3 DEF ExitStarts, ExitShutDown
    <3>2. NoRevival /\ \A u \in Task \ {"exit"} : pc'[u] = pc[u]
      BY <1>0, <1>1, <1>8, <3>1, WaitOrEnd
    <3> QED
      BY <1>0, <2>1, <3>2, KillKept
  <2>4. ASSUME UNCHANGED <<procs, idOf, state>>, \A u \in Task \ {"idle"} : pc'[u] = pc[u]
        PROVE  KillInv'
    BY <1>0, <1>1, <2>1, <2>4, KillKept
  <2>5. ASSUME WaitUntilIdle PROVE KillInv'
    BY <1>0, <2>4, <2>5, WaitOrEnd DEF WaitUntilIdle
  <2>6. CASE IdleStarts
    BY <1>0, <2>4, <2>5, <2>6 DEF IdleStarts, vars, registryVars
  <2>7. CASE FirstRecv
    BY <1>0, <2>4, <2>5, <2>7 DEF FirstRecv, registryVars
  <2>8. CASE FirstTimeout \/ IdleShutDown
    BY <1>0, <2>4, <2>8, WaitOrEnd DEF FirstTimeout, IdleShutDown
  <2>9. CASE FirstShutDown
    BY <1>0, <2>4, <2>9 DEF FirstShutDown, registryVars
  <2>10. CASE AgentTurn \/ AgentDisconnects
    <3>1. /\ UNCHANGED <<procs, idOf, state>>
          /\ pc' = pc \/ \E p : pc' = [pc EXCEPT !["agent"] = p]
      BY <2>10 DEF AgentTurn, AgentLooks, AgentConnected, AgentConnectFails, AgentRecv,
         AgentDisconnects, vars, registryVars
    <3>2. \A u \in Task \ {"agent"} : pc'[u] = pc[u]
      BY <1>0, <3>1
    <3> QED
      BY <1>0, <1>1, <2>1, <3>1, <3>2, KillKept
  <2> QED
    BY <1>10, <2>2, <2>3, <2>6, <2>7, <2>8, <2>9, <2>10 DEF JoinedStep
<1>11. ASSUME RegistrySteps PROVE KillInv'
  <2>1. RegistryOp(subs) /\ UNCHANGED <<pc, sent, known>>
    BY <1>11, RegistryStepsOp DEF taskVars
  <2> QED
    BY <1>0, <2>1, RegistryRevivesNone, KillKept
<1>12. CASE UNCHANGED allVars
  BY <1>0, <1>1, <1>12, KillKept DEF allVars, taskVars, vars, registryVars
<1> QED
  BY <1>2, <1>3, <1>4, <1>5, <1>6, <1>7, <1>9, <1>10, <1>11, <1>12
  DEF ShutdownNext, HandlerStep, WaiterRecv, RegistrySteps

-----------------------------------------------------------------------------
\* The inductive invariant holds of every reachable state.
THEOREM Invariance == ShutdownSpec => []IInv
<1>1. ShutdownInit => IInv
  <2> SUFFICES ASSUME ShutdownInit PROVE IInv
    OBVIOUS
  <2> USE ShutdownAssumption DEF ShutdownInit, Init, RegistryInit, NotifyInit
  <2>1. TaskTypes
    <3>1. /\ subq \in [Task -> Seq(Notification)] /\ pc \in [Task -> Place]
          /\ waitOn \in [Task -> ProcId \cup {None}]
      BY DEF Place
    <3>2. subs = {t \in Task : pc[t] \in Waiting}
      BY DEF Waiting
    <3> QED
      BY <3>1, <3>2 DEF TaskTypes, States, ShutdownState
  <2>2. MapAgrees /\ ToldStopped
    BY DEF MapAgrees, ToldStopped
  <2>3. MapFinite
    <3>1. Tracked = {}
      BY DEF Tracked
    <3> QED
      BY <3>1, FS_EmptySet DEF MapFinite
  <2>4. \A t \in Task : pc[t] \notin {"serving", "first", "wait_running", "wait_idle"}
    OBVIOUS
  <2>5. WaitsForId /\ WaitIsWoken
    BY <2>4 DEF WaitsForId, WaitIsWoken
  <2>6. KillInv
    BY DEF KillInv, StragglersKilled, Handler, Task
  <2> QED
    BY <2>1, <2>2, <2>3, <2>5, <2>6 DEF IInv, WaitInv
<1>2. IInv /\ [ShutdownNext]_allVars => IInv'
  BY WaitInvStep, KillInvStep DEF IInv
<1> QED
  BY <1>1, <1>2, PTL DEF ShutdownSpec

\* Every variable of the tasks has its type, and exactly the tasks that wait
\* hold a receiver.
THEOREM TypeCorrect == ShutdownSpec => []TypeOK
<1>1. IInv => TypeOK
  BY DEF IInv, WaitInv, TaskTypes, KillInv, TypeOK, Place, Waiting
<1> QED
  BY <1>1, Invariance, PTL

\* No task sleeps through what it waits for, whoever deletes or reuses the
\* proc ID between the notification and the task's turn.
THEOREM WaitersWake == ShutdownSpec => []WaitIsWoken
  BY Invariance, PTL DEF IInv, WaitInv

\* A handler that is past its killing leaves no process that it found, and that
\* runs and is tracked, without a SIGKILL.
THEOREM NoStragglers == ShutdownSpec => []StragglersKilled
  BY Invariance, PTL DEF IInv, KillInv
=============================================================================
