------------------------------- MODULE Notify -------------------------------
(***************************************************************************)
(* The notification channel of SharedProcs: a tokio broadcast channel that *)
(* holds one queue for each receiver.  A receiver sees only what is sent   *)
(* after it subscribes, and dropping it discards its queue.  Also the two  *)
(* notifying helpers of SharedProcs, on a map p from proc IDs to processes *)
(* and a shutdown state st.                                                *)
(***************************************************************************)
EXTENDS FiniteSets, Naturals, Sequences

CONSTANTS
  ProcId,         \* proc IDs, the keys of the map
  None,           \* no process under a proc ID
  Sub             \* the subscribers: the agent loop, wait_running(), ...

VARIABLES
  subs,           \* the subscribers that hold a receiver now
  subq            \* what each of them has not received yet

notifyVars == <<subs, subq>>

\* enum Notification
Start(id)      == <<"Start", id>>
NotRunning(id) == <<"NotRunning", id>>
Delete(id)     == <<"Delete", id>>
ShutDown(st)   == <<"ShutDown", st>>

NotifyInit ==
  /\ subs = {}
  /\ subq = [s \in Sub |-> <<>>]

\* Procs::notify() for each element of the sequence ns, in order, once only
\* the receivers R are left.
NotifyOnly(R, ns) ==
  /\ subs' = R
  /\ subq' = [s \in Sub |-> IF s \in R THEN subq[s] \o ns ELSE <<>>]

\* Procs::notify() for each element of the sequence ns, in order.
NotifyAll(ns) ==
  /\ subq' = [s \in Sub |-> IF s \in subs THEN subq[s] \o ns ELSE <<>>]
  /\ UNCHANGED subs

\* Procs::subscribe()
Subscribe(s) ==
  /\ s \notin subs
  /\ subs' = subs \cup {s}
  /\ subq' = [subq EXCEPT ![s] = <<>>]

\* NotificationSub::recv() returning a notification
Recv(s) ==
  /\ s \in subs
  /\ subq[s] # <<>>
  /\ subq' = [subq EXCEPT ![s] = Tail(@)]
  /\ UNCHANGED subs

\* Dropping a NotificationSub
Unsubscribe(s) ==
  /\ s \in subs
  /\ subs' = subs \ {s}
  /\ subq' = [subq EXCEPT ![s] = <<>>]

-----------------------------------------------------------------------------
ShutdownState == {"active", "idling", "done"}

\* SharedProcs::is_empty()
IsEmpty(p) == \A id \in ProcId : p[id] = None

NoCheckIdling(p, st) == st
\* What SharedProcs::check_idling() leaves in the shutdown state, and what it
\* sends.
AfterCheckIdling(p, st) == IF IsEmpty(p) /\ st = "idling" THEN "done" ELSE st
CheckIdlingSends(p, st) ==
  IF IsEmpty(p) /\ st = "idling" THEN <<ShutDown("done")>> ELSE <<>>

\* The sequences that list every element of S once
Orders(S) ==
  {q \in [1..Cardinality(S) -> S] : \A x \in S : \E i \in DOMAIN q : q[i] = x}
=============================================================================
