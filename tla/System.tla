------------------------------- MODULE System -------------------------------
(***************************************************************************)
(* An agent and its server: Agent.tla and Server.tla over the websockets   *)
(* of Wire.tla.                                                            *)
(***************************************************************************)
EXTENDS Server

systemVars == <<agentSide, wireVars, serverVars>>

SystemInit == AgentInit /\ WireInit /\ ServerInit

SystemNext ==
  \/ AgentStep /\ UNCHANGED serverVars
  \/ RegistryStep /\ UNCHANGED serverVars
  \/ ServerStep /\ UNCHANGED agentSide

SystemSpec == SystemInit /\ [][SystemNext]_systemVars

\* Tasks and event loops run what is ready, a websocket that ended is noticed,
\* and processes end.
SystemFairness ==
  /\ WF_systemVars(AgentTop /\ UNCHANGED serverVars)
  /\ WF_systemVars((\E w \in Ws : Connect(w)) /\ UNCHANGED serverVars)
  /\ WF_systemVars(SleepEnds /\ UNCHANGED serverVars)
  /\ WF_systemVars(AgentRegistered /\ UNCHANGED serverVars)
  /\ WF_systemVars(RegisterFails /\ DownEnded(ws) /\ UNCHANGED serverVars)
  /\ WF_systemVars(Disconnect /\ DownEnded(ws) /\ UNCHANGED serverVars)
  /\ WF_systemVars(ForwardNotification /\ UNCHANGED serverVars)
  /\ WF_systemVars(HandleMessage /\ UNCHANGED serverVars)
  /\ \A c \in Proc :
       /\ WF_systemVars(/\ \E st \in States : ProcStops(c, st)
                        /\ UNCHANGED <<wireVars, apc, ws, count, serverVars>>)
       /\ WF_systemVars(/\ ProcTold(c)
                        /\ UNCHANGED <<wireVars, apc, ws, count, serverVars>>)
  /\ \A w \in Ws :
       /\ WF_systemVars(ServeStep(w) /\ UNCHANGED agentSide)
       /\ WF_systemVars(LoginFails(w) /\ UpEnded(w) /\ UNCHANGED agentSide)
  /\ \A id \in ProcId :
       WF_systemVars((SendStart(id) \/ CreateProcess(id))
                       /\ UNCHANGED agentSide)
FairSystemSpec == SystemSpec /\ SystemFairness

-----------------------------------------------------------------------------
(* Properties *)

\* The variables have the values the code gives them; the agent subscribes
\* exactly while it serves, and has one websocket at a time.
TypeOK ==
  /\ apc \in {"top", "connecting", "registering", "serving", "sleeping",
              "exited", "failed"}
  /\ ws \in Ws \cup {None}
  /\ count \in 0..CountMax
  /\ (ws # None) = (apc \in {"registering", "serving"})
  /\ subs = IF apc = "serving" THEN {"agent"} ELSE {}
  /\ agentEnd \in [Ws -> End] /\ serverEnd \in [Ws -> End]
  /\ \A w \in Ws : agentEnd[w] = "open" <=> w = ws
  /\ conn \in Ws \cup {None}
  /\ connWs \in [Ws -> Ws \cup {None}]
  /\ timer \subseteq Ws /\ closing \subseteq Ws
  /\ processes \in [ProcId -> Ws \cup {None}]
  /\ heard \in [ProcId -> SUBSET {"final", "deleted", "unknown", "error",
                                  "timeout"}]

\* The agent serves, the server serves it, and nothing is under way.
Quiet ==
  /\ apc = "serving" /\ subq["agent"] = <<>>
  /\ up[ws] = <<>> /\ down[ws] = <<>>
  /\ spc[ws] = "recv" /\ serverEnd[ws] = "open"
  /\ closing = {}
  /\ \A w \in Ws \ {ws} : agentEnd[w] # "none" => spc[w] = "ended"

\* The server tracks no process that the agent does not have: after any
\* disconnections, reconciling and forwarding leave no ghost, except of a
\* start that was refused and of a deletion while the agent was registering.
NoGhost ==
  Quiet => \A id \in ProcId :
    processes[id] # None /\ id \notin missed /\ "error" \notin heard[id]
      => procs[id] # None

\* The server tracks every process the agent has, except one started by
\* another client while the agent was registering.
NoneForgotten ==
  Quiet => \A id \in ProcId :
    procs[id] # None /\ id \notin missed => processes[id] # None

\* The Connection that the server has for the agent is the one that uses the
\* websocket the agent serves, and knows the agent's shutdown state unless it
\* changed while the agent was registering.
ConnectionIsCurrent ==
  Quiet => /\ conn # None
           /\ connWs[conn] = ws
           /\ connShut[conn] # shutdown => "shutdown" \in missed

\* The agent's processes use the Connection that the agent has now, so that
\* requests for them reach it.
SameConnection ==
  Quiet => \A id \in ProcId : processes[id] # None => processes[id] = conn

\* _pop() always finds the Connection of the task that calls it.
PopNeverFails == ~popFailed

\* The agent has gone, or the websockets of the model are used up.
AgentGone ==
  \/ apc \in {"failed", "exited"}
  \/ apc = "connecting" /\ Unused = {}

\* The application that started a process hears of its end, or why it will
\* not, whatever connections are lost on the way, if request_start() created
\* the Process as soon as the request was on its way.
ResultArrives ==
  \A id \in ProcId :
    started[id] = "created" ~>
      \/ heard[id] \cap {"final", "deleted", "unknown", "error"} # {}
      \/ AgentGone

\* Process.delete() returns once the request has been sent, with confirmation
\* or an error.
DeleteReturns ==
  \A id \in ProcId :
    deleting[id] = "awaiting" ~>
      heard[id] \cap {"deleted", "unknown", "error", "timeout"} # {}

\* The connection loop completes after the shutdown state is done, unless the
\* state changed while the agent was registering.
AgentEndsUnlessMissed ==
  shutdown = "done" ~> AgentGone \/ "shutdown" \in missed
=============================================================================
