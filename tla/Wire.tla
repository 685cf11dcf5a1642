-------------------------------- MODULE Wire --------------------------------
(***************************************************************************)
(* The websockets between an agent and its server.  A websocket is used    *)
(* for one connection.  Each end sends in order; either end may close at   *)
(* any time, deliberately or because a ping, a read timeout or the network *)
(* failed.  What was in flight is then lost or, if Late, may still arrive, *)
(* in part or all of it, before the other end learns of it.                *)
(***************************************************************************)
EXTENDS Naturals, Sequences

CONSTANTS
  Ws,     \* the websockets
  Late    \* whether messages may arrive after their sender's end is gone

ASSUME WireAssumption == Late \in BOOLEAN

VARIABLES
  agentEnd,   \* the agent's end of each websocket: "none", "open", "closed"
  serverEnd,  \* the server's end
  up,         \* what the agent sent and the server has not received
  down        \* what the server sent and the agent has not received

wireVars == <<agentEnd, serverEnd, up, down>>

End == {"none", "open", "closed"}

WireInit ==
  /\ agentEnd = [w \in Ws |-> "none"]
  /\ serverEnd = [w \in Ws |-> "none"]
  /\ up = [w \in Ws |-> <<>>]
  /\ down = [w \in Ws |-> <<>>]

\* What may remain of the messages q in flight
Arrives(q) == IF Late THEN {SubSeq(q, 1, k) : k \in 0..Len(q)} ELSE {<<>>}

\* q with the messages ms at its end, if the receiving end is still open
Sent(q, end, ms) == IF end = "open" THEN q \o ms ELSE q

Unused == {w \in Ws : agentEnd[w] = "none"}

\* An end goes away.  Some of what it sent still arrives; the server may also
\* still read some of what has reached it.
CloseAgentEnd(w) ==
  /\ agentEnd' = [agentEnd EXCEPT ![w] = "closed"]
  /\ \E q \in Arrives(up[w]) : up' = [up EXCEPT ![w] = q]
  /\ down' = [down EXCEPT ![w] = <<>>]
  /\ UNCHANGED serverEnd

CloseServerEnd(w) ==
  /\ serverEnd' = [serverEnd EXCEPT ![w] = "closed"]
  /\ \E q \in Arrives(down[w]) : down' = [down EXCEPT ![w] = q]
  /\ \E q \in Arrives(up[w]) : up' = [up EXCEPT ![w] = q]
  /\ UNCHANGED agentEnd

\* The server's end goes away and nobody reads from it any more.
LeaveServerEnd(w) ==
  /\ serverEnd' = [serverEnd EXCEPT ![w] = "closed"]
  /\ \E q \in Arrives(down[w]) : down' = [down EXCEPT ![w] = q]
  /\ up' = [up EXCEPT ![w] = <<>>]
  /\ UNCHANGED agentEnd

\* The server has received all that will come and finds the websocket closed.
UpEnded(w) == up[w] = <<>> /\ agentEnd[w] = "closed"
DownEnded(w) == down[w] = <<>> /\ serverEnd[w] = "closed"
=============================================================================
