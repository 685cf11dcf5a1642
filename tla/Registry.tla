------------------------------ MODULE Registry ------------------------------
(***************************************************************************)
(* What SharedProcs promises its clients, with no kernel, no tasks and no  *)
(* systemd: a map from proc IDs to processes, the state each process       *)
(* shows, the notifications sent, and the shutdown state.  Procs.tla, the  *)
(* detailed model of procs.rs, is shown to implement this one; the models  *)
(* of the clients (the agent loop, the shutdown handlers) are built on it. *)
(***************************************************************************)
EXTENDS Notify

CONSTANT Proc     \* the processes that are ever started

ASSUME RegistryAssumption == None \notin Proc

VARIABLES
  procs,          \* the map: ProcId -> Proc, or None
  idOf,           \* the proc ID each process was started under
  state,          \* what get_state() returns for it
  told,           \* whether its NotRunning has been sent
  shutdown        \* the shutdown state

registryVars == <<procs, idOf, state, told, shutdown>>
vars == <<registryVars, notifyVars>>

States == {"none", "running", "terminated", "error"}

RegistryInit ==
  /\ procs = [id \in ProcId |-> None]
  /\ idOf = [c \in Proc |-> None]
  /\ state = [c \in Proc |-> "none"]
  /\ told = [c \in Proc |-> FALSE]
  /\ shutdown = "active"

Init == RegistryInit /\ NotifyInit

-----------------------------------------------------------------------------
\* A process starts: only under an unused proc ID, only while active.  It may
\* show an error at once.
StartProc(id, c, st) ==
  /\ shutdown = "active"
  /\ procs[id] = None
  /\ state[c] = "none"
  /\ st \in {"running", "error"}
  /\ procs' = [procs EXCEPT ![id] = c]
  /\ idOf' = [idOf EXCEPT ![c] = id]
  /\ state' = [state EXCEPT ![c] = st]
  /\ NotifyAll(<<Start(id)>>)
  /\ UNCHANGED <<told, shutdown>>

\* A process stops running, or its errors arrive; never once its NotRunning
\* has been sent.
StopProc(c, st) ==
  /\ ~told[c]
  /\ \/ state[c] = "running" /\ st \in {"terminated", "error"}
     \/ state[c] = "terminated" /\ st = "error"
  /\ state' = [state EXCEPT ![c] = st]
  /\ UNCHANGED <<procs, idOf, told, shutdown, notifyVars>>

\* The NotRunning of a process is sent, once, after it stopped running, even
\* if it has been deleted or its proc ID reused since.
TellNotRunning(c) ==
  /\ state[c] \in {"terminated", "error"}
  /\ ~told[c]
  /\ told' = [told EXCEPT ![c] = TRUE]
  /\ NotifyAll(<<NotRunning(idOf[c])>>)
  /\ UNCHANGED <<procs, idOf, state, shutdown>>

\* The check of remove_if_not_running()
Removable(id) == procs[id] # None /\ state[procs[id]] # "running"

\* remove_if_not_running()
DeleteProc(id) ==
  /\ Removable(id)
  /\ procs' = [procs EXCEPT ![id] = None]
  /\ shutdown' = AfterCheckIdling(procs', shutdown)
  /\ NotifyAll(CheckIdlingSends(procs', shutdown) \o <<Delete(id)>>)
  /\ UNCHANGED <<idOf, state, told>>

\* collect_results() and the set_shutdown(Done) that follows it in main.rs,
\* with the receivers R left
Collect(R) ==
  /\ procs' = [id \in ProcId |-> None]
  /\ shutdown' = "done"
  /\ \E order \in Orders({id \in ProcId : procs[id] # None}) :
       NotifyOnly(R, [i \in DOMAIN order |-> Delete(order[i])]
                       \o CheckIdlingSends(procs', shutdown)
                       \o <<ShutDown("done")>>)
  /\ UNCHANGED <<idOf, state, told>>

CollectAll ==
  /\ \/ \A id \in ProcId : procs[id] # None => state[procs[id]] # "running"
     \/ shutdown = "done"
  /\ Collect(subs)

\* set_shutdown(), with the receivers R left
set_shutdown(R, st) ==
  /\ shutdown' = AfterCheckIdling(procs, st)
  /\ NotifyOnly(R, <<ShutDown(st)>> \o CheckIdlingSends(procs, st))
  /\ UNCHANGED <<procs, idOf, state, told>>

SetShutdown(st) == st \in {"idling", "done"} /\ set_shutdown(subs, st)

SubscriberStep(s) ==
  /\ Subscribe(s) \/ Recv(s) \/ Unsubscribe(s)
  /\ UNCHANGED registryVars

Next ==
  \/ \E id \in ProcId, c \in Proc, st \in States : StartProc(id, c, st)
  \/ \E c \in Proc, st \in States : StopProc(c, st)
  \/ \E c \in Proc : TellNotRunning(c)
  \/ \E id \in ProcId : DeleteProc(id)
  \/ CollectAll
  \/ \E st \in ShutdownState : SetShutdown(st)
  \/ \E s \in Sub : SubscriberStep(s)

Spec == Init /\ [][Next]_vars
=============================================================================
