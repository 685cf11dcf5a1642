------------------------------- MODULE Server -------------------------------
(***************************************************************************)
(* The agent server, python/procstar/agent: one _serve_connection() task   *)
(* for each websocket (server.py), the Connection objects and reconnect    *)
(* timeouts (conn.py), the Process objects and their messages (proc.py),   *)
(* and the application that starts and deletes processes.  Tasks run on    *)
(* one event loop and interleave at awaits.  One agent, hence one conn_id; *)
(* the Connection object that a serve task creates is named after its      *)
(* websocket.  The messages are Agent.tla's.                               *)
(***************************************************************************)
EXTENDS Agent

CONSTANTS
  ReconnectTimeout,   \* whether the server has a reconnect_timeout
  Backpressure        \* whether request_start()'s send() may suspend, the
                      \* websocket's buffer full, after the message is on its
                      \* way (a serve task may suspend at any of its sends)

ASSUME ServerAssumption == {ReconnectTimeout, Backpressure} \subseteq BOOLEAN

VARIABLES
  spc,        \* where each serve task is
  register,   \* the Register message it received, until it is added
  todo,       \* the results it still has to request
  taskConn,   \* its Connection object, until it ends
  done,       \* it has received ShutDown(done)
  conn,       \* Connections: the agent's Connection object, or None
  connWs,     \* Connection.ws of each Connection object
  connShut,   \* Connection.shutdown_state
  timer,      \* the Connection objects with a reconnect timeout task
  closing,    \* the websockets _add() has asked to close
  processes,  \* Processes: the Connection object each Process was given, or
              \* None if there is no Process
  heard,      \* how the Process objects of each proc ID were told that it
              \* ended or failed (history)
  started,    \* where request_start() is, for each proc ID
  chosen,     \* the Connection object it chose, until it returns
  deleting,   \* where Process.delete() is, for each proc ID
  popFailed   \* an assertion on _pop() has failed (history)

serverVars == <<spc, register, todo, taskConn, done, conn, connWs, connShut,
                timer, closing, processes, heard, started, chosen, deleting,
                popFailed>>
taskState == <<spc, register, todo, taskConn, done>>
connState == <<conn, connWs, connShut, timer, closing>>
procState == <<processes, heard>>
appState  == <<started, chosen, deleting>>

ServerInit ==
  /\ spc = [w \in Ws |-> "login"]
  /\ register = [w \in Ws |-> None]
  /\ todo = [w \in Ws |-> {}]
  /\ taskConn = [w \in Ws |-> None]
  /\ done = [w \in Ws |-> FALSE]
  /\ conn = None
  /\ connWs = [o \in Ws |-> None]
  /\ connShut = [o \in Ws |-> "active"]
  /\ timer = {}
  /\ closing = {}
  /\ processes = [id \in ProcId |-> None]
  /\ heard = [id \in ProcId |-> {}]
  /\ started = [id \in ProcId |-> "idle"]
  /\ chosen = [id \in ProcId |-> None]
  /\ deleting = [id \in ProcId |-> "no"]
  /\ popFailed = FALSE

\* Connection.open
Open(o) == serverEnd[connWs[o]] = "open"

ServerSend(w, ms) ==
  /\ down' = [down EXCEPT ![w] = Sent(@, agentEnd[w], ms)]
  /\ UNCHANGED <<agentEnd, serverEnd, up>>

-----------------------------------------------------------------------------
(* _serve_connection() *)

\* The Register message is received and answered.
Login(w) ==
  /\ spc[w] = "login"
  /\ serverEnd[w] = "open"
  /\ up[w] # <<>>
  /\ register' = [register EXCEPT ![w] = Head(up[w])]
  /\ up' = [up EXCEPT ![w] = Tail(@)]
  /\ down' = [down EXCEPT ![w] = Sent(@, agentEnd[w], <<Registered>>)]
  /\ spc' = [spc EXCEPT ![w] = "add"]
  /\ UNCHANGED <<agentEnd, serverEnd, todo, taskConn, done, connState,
                 procState, appState, popFailed>>

\* Closed before Register, or TIMEOUT_LOGIN
LoginFails(w) ==
  /\ spc[w] = "login"
  /\ serverEnd[w] = "open"
  /\ UpEnded(w) \/ Unused # {}
  /\ spc' = [spc EXCEPT ![w] = "ended"]
  /\ LeaveServerEnd(w)
  /\ UNCHANGED <<register, todo, taskConn, done, connState, procState,
                 appState, popFailed>>

\* Connections._add()
ReplacedWs(w) == IF conn # None /\ serverEnd[connWs[conn]] # "closed"
                 THEN {connWs[conn]} ELSE {}

\* The Connection object for a Register on w: the one there is, or a new one
NewConnection(w) == w
ConnectionFor(w) == IF conn = None THEN w ELSE conn

\* That Connection's websocket
OldWs(o, w) == IF conn = o THEN connWs[o] ELSE w
NewWs(o, w) == w

\* Reconciling the agent's proc IDs with ours: those to create, those the
\* agent does not know, and those whose results are requested
NoIds(ids, ours) == {}
ToCreate(ids, ours) == ids \ ours
ToDrop(ids, ours) == ours \ ids
ToRequest(ids, ours) == ids \cap ours

\* _add(), the cancelled timeout and the reconciliation of proc IDs, up to the
\* first result request
AddAndReconcile(w) ==
  /\ spc[w] = "add"
  /\ LET o == ConnectionFor(w)
         ids == register[w].ids
         ours == {id \in ProcId : processes[id] # None}
     IN  /\ conn' = o
         /\ connWs' = [connWs EXCEPT ![o] = NewWs(o, w)]
         /\ connShut' = [connShut EXCEPT ![o] = register[w].st]
         /\ timer' = timer \ {o}
         /\ closing' = closing \cup ReplacedWs(w)
         /\ taskConn' = [taskConn EXCEPT ![w] = o]
         /\ processes' = [id \in ProcId |->
                            IF id \in ToCreate(ids, ours) THEN o
                            ELSE IF id \in ToDrop(ids, ours) THEN None
                            ELSE processes[id]]
         /\ heard' = [id \in ProcId |->
                        IF id \in ToDrop(ids, ours)
                        THEN heard[id] \cup {"unknown"} ELSE heard[id]]
         /\ todo' = [todo EXCEPT ![w] = ToRequest(ids, ours)]
         /\ spc' = [spc EXCEPT ![w] = "request"]
         /\ register' = [register EXCEPT ![w] = None]
  /\ UNCHANGED <<wireVars, done, appState, popFailed>>

\* One result is requested, on the Connection's websocket of now; an error
\* closes this task's websocket.
RequestResult(w) ==
  /\ spc[w] = "request"
  /\ IF todo[w] = {}
     THEN /\ spc' = [spc EXCEPT ![w] = "recv"]
          /\ UNCHANGED <<wireVars, todo>>
     ELSE \E id \in todo[w] :
            IF Open(taskConn[w])
            THEN /\ ServerSend(connWs[taskConn[w]], <<ProcResultRequest(id)>>)
                 /\ todo' = [todo EXCEPT ![w] = @ \ {id}]
                 /\ UNCHANGED spc
            ELSE /\ spc' = [spc EXCEPT ![w] = "close"]
                 /\ todo' = [todo EXCEPT ![w] = {}]
                 /\ LeaveServerEnd(w)
  /\ UNCHANGED <<register, taskConn, done, connState, procState, appState,
                 popFailed>>

\* Processes.on_message(), for a task with Connection o: get_proc() creates a
\* missing Process; popping a missing one raises KeyError.
Tell(id, what, o) ==
  /\ processes' = [processes EXCEPT ![id] = IF @ = None THEN o ELSE @]
  /\ heard' = [heard EXCEPT ![id] = @ \cup what]
PopAndTell(id, what) ==
  /\ processes' = [processes EXCEPT ![id] = None]
  /\ heard' = [heard EXCEPT ![id] = @ \cup {what}]

Pops(m) == m.type \in {"ProcDelete", "ProcUnknown"}
KeyError(m) == Pops(m) /\ processes[m.id] = None

Summary(st) == IF st = "running" THEN {} ELSE {"final"}

OnMessage(m, o) ==
  \/ m.type = "ProcResult" /\ Tell(m.id, Summary(m.st), o)
  \/ m.type = "RequestError" /\ Tell(m.id, {"error"}, o)
  \/ m.type = "ProcDelete" /\ PopAndTell(m.id, "deleted")
  \/ m.type = "ProcUnknown" /\ PopAndTell(m.id, "unknown")
  \/ m.type = "ShutDown" /\ UNCHANGED procState

\* The ShutDown state after which the connection is popped
EndsAnyState(st) == st # "active"
EndsConnection(st) == st = "done"

ServerReceive(w) ==
  /\ spc[w] = "recv"
  /\ up[w] # <<>>
  /\ LET m == Head(up[w]) IN
       IF KeyError(m)
       THEN /\ spc' = [spc EXCEPT ![w] = "close"]
            /\ LeaveServerEnd(w)
            /\ UNCHANGED <<procState, done, connShut>>
       ELSE /\ up' = [up EXCEPT ![w] = Tail(@)]
            /\ OnMessage(m, taskConn[w])
            /\ IF m.type = "ShutDown"
               THEN /\ connShut' = [connShut EXCEPT ![taskConn[w]] = m.st]
                    /\ done' = [done EXCEPT ![w] = @ \/ EndsConnection(m.st)]
               ELSE UNCHANGED <<connShut, done>>
            /\ UNCHANGED <<spc, agentEnd, serverEnd, down>>
  /\ UNCHANGED <<register, todo, taskConn, conn, connWs, timer, closing,
                 appState, popFailed>>

\* recv() raises ConnectionClosed.
ServerSeesEnd(w) ==
  /\ spc[w] = "recv"
  /\ UpEnded(w) \/ (serverEnd[w] = "closed" /\ up[w] = <<>>)
  /\ spc' = [spc EXCEPT ![w] = "close"]
  /\ LeaveServerEnd(w)
  /\ UNCHANGED <<register, todo, taskConn, done, connState, procState,
                 appState, popFailed>>

\* What _pop() returns is the Connection o.
PopIs(o) == conn = o

\* maybe_set_reconnect_timeout()
SetReconnectTimeout(o) ==
  timer' = IF ReconnectTimeout /\ ~Open(o) THEN timer \cup {o} ELSE timer

\* ws.close() returns; the finally clause
FinishConnection(w) ==
  /\ spc[w] = "close"
  /\ spc' = [spc EXCEPT ![w] = "ended"]
  /\ LET o == taskConn[w]
     IN  IF done[w]
         THEN /\ conn' = None
              /\ popFailed' = (popFailed \/ ~PopIs(o))
              /\ timer' = timer \ {conn}
         ELSE /\ SetReconnectTimeout(o)
              /\ UNCHANGED <<conn, popFailed>>
  /\ taskConn' = [taskConn EXCEPT ![w] = None]
  /\ done' = [done EXCEPT ![w] = FALSE]
  /\ UNCHANGED <<wireVars, register, todo, connWs, connShut, closing,
                 procState, appState>>

-----------------------------------------------------------------------------
(* conn.py *)

\* The task that _add() creates closes the old websocket.
CloseOld(w) ==
  /\ w \in closing
  /\ closing' = closing \ {w}
  /\ CloseServerEnd(w)
  /\ UNCHANGED <<taskState, conn, connWs, connShut, timer, procState,
                 appState, popFailed>>

\* The server's keepalive, or the network, closes an open websocket.
ServerEndFails(w) ==
  /\ serverEnd[w] = "open"
  /\ spc[w] \in {"add", "request", "recv"}
  /\ Unused # {}
  /\ CloseServerEnd(w)
  /\ UNCHANGED serverVars

\* set_reconnect_timeout()'s task and on_timeout()
ReconnectTimesOut(o) ==
  /\ o \in timer
  /\ IF Open(o)
     THEN /\ timer' = timer \ {o}
          /\ UNCHANGED <<conn, heard, popFailed>>
     ELSE /\ timer' = timer \ {o, conn}
          /\ conn' = None
          /\ popFailed' = (popFailed \/ ~PopIs(o))
          /\ heard' = IF PopIs(o)
                      THEN [id \in ProcId |->
                              IF processes[id] # None
                              THEN heard[id] \cup {"timeout"} ELSE heard[id]]
                      ELSE heard
  /\ UNCHANGED <<wireVars, taskState, connWs, connShut, closing, processes,
                 appState>>

-----------------------------------------------------------------------------
(* The application *)

\* request_start(), until choose_connection() returns
ChooseConnection(id) ==
  /\ started[id] \in {"idle", "retry"}
  /\ processes[id] = None
  /\ conn # None /\ Open(conn) /\ connShut[conn] = "active"
  /\ chosen' = [chosen EXCEPT ![id] = conn]
  /\ started' = [started EXCEPT ![id] =
                   IF @ = "idle" THEN "chosen" ELSE "chosen again"]
  /\ UNCHANGED <<wireVars, taskState, connState, procState, deleting,
                 popFailed>>

\* retry_exception() with one retry, of WebSocketNotOpen; a websocket that
\* was closed in order raises another error, which is not retried.
AfterNotOpen(pc) == IF pc = "chosen" THEN {"retry", "failed"} ELSE {"failed"}

\* Processes.create(), after which request_start() is at pc
Create(id, o, pc) ==
  /\ chosen' = [chosen EXCEPT ![id] = None]
  /\ IF processes[id] = None
     THEN /\ processes' = [processes EXCEPT ![id] = o]
          /\ started' = [started EXCEPT ![id] = pc]
     ELSE /\ started' = [started EXCEPT ![id] = "assert"]
          /\ UNCHANGED processes

\* Connection.send() of the ProcStartRequest, which suspends after it looked at
\* the websocket, and, unless it suspends again, create()
SendStart(id) ==
  /\ started[id] \in {"chosen", "chosen again"}
  /\ IF Open(chosen[id])
     THEN /\ \E valid \in BOOLEAN :
               ServerSend(connWs[chosen[id]], <<ProcStartRequest(id, valid)>>)
          /\ \/ Create(id, chosen[id], "created")
             \/ /\ Backpressure
                /\ started' = [started EXCEPT ![id] = "sent"]
                /\ UNCHANGED <<processes, chosen>>
     ELSE /\ \E pc \in AfterNotOpen(started[id]) :
               started' = [started EXCEPT ![id] = pc]
          /\ chosen' = [chosen EXCEPT ![id] = None]
          /\ UNCHANGED <<wireVars, processes>>
  /\ UNCHANGED <<taskState, connState, heard, deleting, popFailed>>

\* create() once the suspended send returns
CreateProcess(id) ==
  /\ started[id] = "sent"
  /\ Create(id, chosen[id], "created late")
  /\ UNCHANGED <<wireVars, taskState, connState, heard, deleting, popFailed>>

\* Process.delete(), once the application has seen the final result: the
\* request is sent on the Process's own Connection.
DeleteProcess(id) ==
  /\ deleting[id] = "no"
  /\ processes[id] # None
  /\ "final" \in heard[id]
  /\ IF Open(processes[id])
     THEN /\ ServerSend(connWs[processes[id]], <<ProcDeleteRequest(id)>>)
          /\ deleting' = [deleting EXCEPT ![id] = "awaiting"]
     ELSE /\ deleting' = [deleting EXCEPT ![id] = "raised"]
          /\ UNCHANGED wireVars
  /\ UNCHANGED <<taskState, connState, procState, started, chosen, popFailed>>

ServeStep(w) ==
  \/ Login(w) \/ AddAndReconcile(w) \/ RequestResult(w) \/ ServerReceive(w)
  \/ ServerSeesEnd(w) \/ FinishConnection(w) \/ CloseOld(w)
ServerStep ==
  \/ \E w \in Ws : ServeStep(w) \/ LoginFails(w) \/ ServerEndFails(w)
  \/ \E o \in Ws : ReconnectTimesOut(o)
  \/ \E id \in ProcId :
       \/ ChooseConnection(id) \/ SendStart(id) \/ CreateProcess(id)
       \/ DeleteProcess(id)
=============================================================================
