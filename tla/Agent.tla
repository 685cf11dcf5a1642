------------------------------- MODULE Agent --------------------------------
(***************************************************************************)
(* The agent: the connection loop of agent.rs and the request handlers of  *)
(* proto.rs, on the Registry contract of SharedProcs.  The loop connects,  *)
(* registers with a snapshot of the proc IDs and the shutdown state,       *)
(* subscribes to notifications once it is Registered, and then serves      *)
(* requests and forwards notifications until the websocket ends or the     *)
(* shutdown state is done.  Other clients (HTTP) and signals act on the    *)
(* registry at any time.                                                   *)
(***************************************************************************)
EXTENDS Registry, Wire

CONSTANTS
  CountMax,     \* count_max: consecutive failed attempts before giving up
  Others,       \* whether other clients start and delete processes
  ShutdownTo    \* the shutdown states that signals may set

ASSUME AgentAssumption ==
  /\ CountMax \in Nat \ {0}
  /\ Others \in BOOLEAN
  /\ ShutdownTo \subseteq {"idling", "done"}
  /\ Sub = {"agent"}
  /\ None \notin Ws

VARIABLES
  apc,      \* where run() is
  ws,       \* the websocket it uses, or None
  count,    \* consecutive failed connection attempts
  missed    \* what was notified between the loop's last look at it (the head
            \* of the loop, the Register message) and the subscription (history)

agentVars == <<apc, ws, count, missed>>
agentSide == <<vars, agentVars>>

AgentInit ==
  /\ Init
  /\ apc = "top"
  /\ ws = None
  /\ count = 0
  /\ missed = {}

Live == {id \in ProcId : procs[id] # None}

-----------------------------------------------------------------------------
(* OutgoingMessage; a ProcResult carries the process's state.              *)
Register(ids, st)     == [type |-> "Register", ids |-> ids, st |-> st]
ProcResult(id, st)    == [type |-> "ProcResult", id |-> id, st |-> st]
ProcDelete(id)        == [type |-> "ProcDelete", id |-> id]
ProcUnknown(id)       == [type |-> "ProcUnknown", id |-> id]
RequestError(id)      == [type |-> "RequestError", id |-> id]
ShutDownMsg(st)       == [type |-> "ShutDown", st |-> st]

(* IncomingMessage *)
Registered            == [type |-> "Registered"]
ProcStartRequest(id, valid) ==
  [type |-> "ProcStartRequest", id |-> id, valid |-> valid]
ProcResultRequest(id) == [type |-> "ProcResultRequest", id |-> id]
ProcDeleteRequest(id) == [type |-> "ProcDeleteRequest", id |-> id]

\* send() of the agent: a message to an end that is gone is lost, and the loop
\* learns of it from the receiver.
AgentSend(w, ms) ==
  up' = [up EXCEPT ![w] = Sent(@, serverEnd[w], ms)]

-----------------------------------------------------------------------------
(* run(): connecting *)

\* The loop's head
AgentTop ==
  /\ apc = "top"
  /\ apc' = IF shutdown = "done" THEN "exited" ELSE "connecting"
  /\ UNCHANGED <<vars, wireVars, ws, count, missed>>

\* connect(), until it awaits Registered: the websocket is established and
\* the Register message sent.  The loop does not look at the shutdown state
\* again.
Connect(w) ==
  /\ apc = "connecting"
  /\ w \in Unused
  /\ agentEnd' = [agentEnd EXCEPT ![w] = "open"]
  /\ serverEnd' = [serverEnd EXCEPT ![w] = "open"]
  /\ up' = [up EXCEPT ![w] = <<Register(Live, shutdown)>>]
  /\ ws' = w
  /\ apc' = "registering"
  /\ missed' = IF shutdown = "done" THEN {"shutdown"} ELSE {}
  /\ UNCHANGED <<vars, down, count>>

\* The error path of connect(): no connection, a closed websocket or
\* REGISTER_TIMEOUT
ConnectFailed ==
  /\ count' = count + 1
  /\ apc' = IF CountMax <= count' THEN "failed" ELSE "sleeping"
  /\ ws' = None
  /\ UNCHANGED <<vars, missed>>

CannotConnect ==
  /\ apc = "connecting"
  /\ count < CountMax
  /\ ConnectFailed
  /\ UNCHANGED wireVars

RegisterFails ==
  /\ apc = "registering"
  /\ DownEnded(ws) \/ Unused # {}
  /\ ConnectFailed
  /\ CloseAgentEnd(ws)

\* The break after a failed attempt; the backoff of the interval is not
\* modelled.
SleepEnds ==
  /\ apc = "sleeping"
  /\ apc' = "top"
  /\ UNCHANGED <<vars, wireVars, ws, count, missed>>

\* The attempts that count towards count_max once connected
ResetCount == 0

\* Registered arrives: connect() returns and the loop subscribes.
AgentRegistered ==
  /\ apc = "registering"
  /\ down[ws] # <<>>
  /\ Head(down[ws]) = Registered
  /\ down' = [down EXCEPT ![ws] = Tail(@)]
  /\ count' = ResetCount
  /\ apc' = "serving"
  /\ Subscribe("agent")
  /\ UNCHANGED <<registryVars, agentEnd, serverEnd, up, ws, missed>>

-----------------------------------------------------------------------------
(* run(): serving *)

KeepSubscription == UNCHANGED notifyVars
DropSubscription == Unsubscribe("agent")

\* The websocket's stream ends, a read times out or a send fails: the loop
\* drops the websocket and its subscription and reconnects.  (Ws bounds the
\* disconnections that have no cause in the model.)
Disconnect ==
  /\ apc = "serving"
  /\ DownEnded(ws) \/ Unused # {}
  /\ apc' = "top"
  /\ ws' = None
  /\ CloseAgentEnd(ws)
  /\ DropSubscription
  /\ UNCHANGED <<registryVars, count, missed>>

\* notification_to_message(): the result is looked up when the notification
\* is received, not when it was sent.
notification_to_message(n) ==
  CASE n[1] \in {"Start", "NotRunning"} ->
         IF procs[n[2]] # None
         THEN <<ProcResult(n[2], state[procs[n[2]]])>> ELSE <<>>
    [] n[1] = "Delete" -> <<ProcDelete(n[2])>>
    [] n[1] = "ShutDown" -> <<ShutDownMsg(n[2])>>

\* The notification that ends the loop
EndsOnIdling(n) == n = ShutDown("idling")
EndsLoop(n) == n = ShutDown("done")

\* A notification is received and forwarded; after ShutDown(Done) the loop
\* ends and drops the websocket.
ForwardNotification ==
  /\ apc = "serving"
  /\ subq["agent"] # <<>>
  /\ LET n == Head(subq["agent"])
         sends == notification_to_message(n)
     IN  IF EndsLoop(n)
         THEN /\ apc' = "exited"
              /\ ws' = None
              /\ agentEnd' = [agentEnd EXCEPT ![ws] = "closed"]
              /\ AgentSend(ws, sends)
              /\ down' = [down EXCEPT ![ws] = <<>>]
              /\ Unsubscribe("agent")
              /\ UNCHANGED serverEnd
         ELSE /\ AgentSend(ws, sends)
              /\ Recv("agent")
              /\ UNCHANGED <<apc, ws, agentEnd, serverEnd, down>>
  /\ UNCHANGED <<registryVars, count, missed>>

-----------------------------------------------------------------------------
(* handle_incoming() *)

Answer(sends) == AgentSend(ws, sends)

\* ProcStartRequest: start_procs() fails on a proc ID in use, on a spec that is
\* not valid and when shutting down.  (Proc bounds the starts: a request
\* beyond it fails as well.)
HandleStart(m) ==
  /\ m.type = "ProcStartRequest"
  /\ IF /\ procs[m.id] = None
        /\ m.valid
        /\ shutdown = "active"
        /\ \E c \in Proc : state[c] = "none"
     THEN /\ \E c \in Proc, st \in States : StartProc(m.id, c, st)
          /\ Answer(<<>>)
     ELSE /\ Answer(<<RequestError(m.id)>>)
          /\ UNCHANGED vars

HandleResult(m) ==
  /\ m.type = "ProcResultRequest"
  /\ Answer(IF procs[m.id] # None
            THEN <<ProcResult(m.id, state[procs[m.id]])>>
            ELSE <<ProcUnknown(m.id)>>)
  /\ UNCHANGED vars

\* ProcDeleteRequest: on success the answer is the Delete notification.
HandleDelete(m) ==
  /\ m.type = "ProcDeleteRequest"
  /\ IF Removable(m.id)
     THEN /\ DeleteProc(m.id)
          /\ Answer(<<>>)
     ELSE /\ Answer(<<IF procs[m.id] = None THEN ProcUnknown(m.id)
                      ELSE RequestError(m.id)>>)
          /\ UNCHANGED vars

HandleMessage ==
  /\ apc = "serving"
  /\ down[ws] # <<>>
  /\ LET m == Head(down[ws])
     IN  HandleStart(m) \/ HandleResult(m) \/ HandleDelete(m)
  /\ down' = [down EXCEPT ![ws] = Tail(@)]
  /\ UNCHANGED <<agentVars, agentEnd, serverEnd>>

AgentStep ==
  \/ AgentTop
  \/ \E w \in Ws : Connect(w)
  \/ CannotConnect \/ RegisterFails \/ SleepEnds
  \/ AgentRegistered \/ Disconnect \/ ForwardNotification \/ HandleMessage

-----------------------------------------------------------------------------
(* The registry's own tasks, signals and other clients.                    *)

\* Notifications sent while the agent is registering are missed.
Missing(ns) ==
  missed' = IF apc = "registering" THEN missed \cup ns ELSE missed

\* The bound on signals: each takes the shutdown state further.  (Shutdown.tla
\* has the signals that set it back.)
EarlierThan(st) == IF st = "done" THEN {"active", "idling"} ELSE {"active"}

ProcStops(c, st) == StopProc(c, st) /\ UNCHANGED missed
ProcTold(c) == TellNotRunning(c) /\ UNCHANGED missed
SignalShutsDown(st) ==
  /\ st \in ShutdownTo
  /\ shutdown \in EarlierThan(st)
  /\ SetShutdown(st)
  /\ Missing({"shutdown"})
OtherStarts(id, c, st) ==
  /\ Others
  /\ StartProc(id, c, st)
  /\ Missing({id})
OtherDeletes(id) ==
  /\ Others
  /\ DeleteProc(id)
  /\ Missing({id, "shutdown"})

RegistryStep ==
  /\ \/ \E c \in Proc, st \in States : ProcStops(c, st)
     \/ \E c \in Proc : ProcTold(c)
     \/ \E st \in ShutdownState : SignalShutsDown(st)
     \/ \E id \in ProcId, c \in Proc, st \in States : OtherStarts(id, c, st)
     \/ \E id \in ProcId : OtherDeletes(id)
  /\ UNCHANGED <<wireVars, apc, ws, count>>
=============================================================================
