------------------------------ MODULE Shutdown ------------------------------
(***************************************************************************)
(* How the program stops: the signal handlers of shutdown.rs and the tasks *)
(* main() joins (the HTTP service, the agent, --exit and --wait), as       *)
(* clients of the Registry contract of SharedProcs.  They run on one       *)
(* thread and interleave at awaits, so an action is what a task does       *)
(* between two of them.  wait_running() and wait_idle() hold a receiver    *)
(* and the proc ID they wait for; wait_for_shutdown() looks at the current *)
(* shutdown state only.  Of the agent loop, which Agent.tla has in detail, *)
(* this module keeps when it looks at the shutdown state and when it has a *)
(* receiver.                                                               *)
(***************************************************************************)
EXTENDS Registry

CONSTANT Modes   \* the command lines, the signals each may be sent and, as a
                 \* bound, the processes that may be started

Handler == {"TERM", "INT", "QUIT", "USR1"}
Joined == {"http", "agent", "exit", "idle"}
Task == Handler \cup Joined

ASSUME ShutdownAssumption ==
  /\ Modes \subseteq [serve : BOOLEAN, agent : BOOLEAN, exit : BOOLEAN,
                      wait : BOOLEAN, signals : SUBSET Handler,
                      procs : SUBSET Proc]
  /\ Sub = Task
  /\ None \notin ProcId

VARIABLES
  mode,     \* the command line's modes, with the signals that may come
  up,       \* main() has started the input specs and spawned its tasks
  pc,       \* where each task is
  waitOn,   \* the proc ID a wait_running() or wait_idle() waits for
  sent,     \* the signals sent to each process (history)
  known     \* the processes a handler found when it ran (history)

taskVars == <<mode, up, pc, waitOn, sent, known>>
allVars == <<vars, taskVars>>

ShutdownInit ==
  /\ Init
  /\ mode \in Modes
  /\ up = FALSE
  /\ pc = [t \in Task |->
             IF t \in Handler THEN "armed"
             ELSE IF \/ t = "http" /\ mode.serve
                     \/ t = "agent" /\ mode.agent
                     \/ t = "exit" /\ mode.exit
                     \/ t = "idle" /\ mode.wait
             THEN "start" ELSE "ended"]
  /\ waitOn = [t \in Task |-> None]
  /\ sent = [c \in Proc |-> {}]
  /\ known = [h \in Handler |-> {}]

\* The join! in main() has returned, or the agent's task has called exit().
Exited ==
  \/ up /\ \A t \in Joined : pc[t] = "ended"
  \/ pc["agent"] = "failed"

Live == {id \in ProcId : procs[id] # None}
Running == {id \in Live : state[procs[id]] = "running"}

-----------------------------------------------------------------------------
\* A task takes a new receiver and waits for one of the proc IDs S.
StartWait(t, S, phase) ==
  /\ pc' = [pc EXCEPT ![t] = phase]
  /\ \E id \in S : waitOn' = [waitOn EXCEPT ![t] = id]
  /\ subs' = subs \cup {t}
  /\ subq' = [subq EXCEPT ![t] = <<>>]
  /\ UNCHANGED registryVars

EndKeepingReceiver(t) ==
  /\ pc' = [pc EXCEPT ![t] = "ended"]
  /\ waitOn' = [waitOn EXCEPT ![t] = None]
  /\ set_shutdown(subs, "done")
\* A task drops its receiver, if any, sets the shutdown state to done and ends.
ShutDownAndEnd(t) ==
  /\ pc' = [pc EXCEPT ![t] = "ended"]
  /\ waitOn' = [waitOn EXCEPT ![t] = None]
  /\ set_shutdown(subs \ {t}, "done")

\* wait_idle() is called, and what follows when it returns at once
WaitIdleThenShutDown(t) ==
  \/ Live # {} /\ StartWait(t, Live, "wait_idle")
  \/ Live = {} /\ ShutDownAndEnd(t)

-----------------------------------------------------------------------------
(* install_signal_handler() *)

Signal(h) ==
  /\ h \in mode.signals
  /\ pc[h] = "armed"
  /\ pc' = [pc EXCEPT ![h] = "queued"]
  /\ UNCHANGED <<vars, mode, up, waitOn, sent, known>>

\* send_signal_all(), to the processes that show as running
SendSignalAll(signum) ==
  sent' = [c \in Proc |-> sent[c] \cup {s \in {signum} :
                                          \E id \in Running : procs[id] = c}]

StartHandler(h) ==
  /\ up
  /\ pc[h] = "queued"
  /\ known' = [known EXCEPT ![h] = {procs[id] : id \in Live}]
  /\ UNCHANGED <<mode, up>>

\* SignalStyle::ShutdownOnIdle
ShutdownOnIdle(h) ==
  /\ h = "USR1"
  /\ StartHandler(h)
  /\ set_shutdown(subs, "idling")
  /\ pc' = [pc EXCEPT ![h] = "ended"]
  /\ UNCHANGED <<waitOn, sent>>

\* SignalStyle::TermThenKill, until the first wait
TermThenKill(h) ==
  /\ h \in {"TERM", "INT"}
  /\ StartHandler(h)
  /\ SendSignalAll("TERM")
  /\ \/ Running # {} /\ StartWait(h, Running, "wait_running")
     \/ Running = {} /\ WaitIdleThenShutDown(h)

\* SignalStyle::Kill, until the wait
Kill(h) ==
  /\ h = "QUIT"
  /\ StartHandler(h)
  /\ SendSignalAll("KILL")
  /\ WaitIdleThenShutDown(h)

StragglersLeft == SendSignalAll("TERM")
\* The SIGKILL to the processes that outlived TERM_TIMEOUT
KillStragglers == SendSignalAll("KILL")

\* TERM_TIMEOUT: the timer is looked at only once wait_running() is pending.
TermTimeout(h) ==
  /\ h \in Handler
  /\ pc[h] = "wait_running"
  /\ subq[h] = <<>>
  /\ KillStragglers
  /\ WaitIdleThenShutDown(h)
  /\ UNCHANGED <<mode, up, known>>

GiveUpOnTimeout(h) ==
  /\ h \in Handler
  /\ pc[h] = "wait_idle"
  /\ subq[h] = <<>>
  /\ pc' = [pc EXCEPT ![h] = "ended"]
  /\ Unsubscribe(h)
  /\ UNCHANGED <<registryVars, mode, up, waitOn, sent, known>>
\* KILL_TIMEOUT
KillTimeout(h) ==
  /\ h \in Handler
  /\ pc[h] = "wait_idle"
  /\ subq[h] = <<>>
  /\ ShutDownAndEnd(h)
  /\ UNCHANGED <<mode, up, sent, known>>

-----------------------------------------------------------------------------
(* wait_running() and wait_idle(): one notification is received.           *)

EndsOnNotRunning(id) == {NotRunning(id)}
\* The notifications for which wait_running() and wait_idle() look again
EndsRunning(id) == {NotRunning(id), Delete(id)}
EndsIdle(id) == {Delete(id)}

\* maybe_run_until_exit() after its select: collect the results, shut down
CollectAndEnd ==
  /\ pc' = [pc EXCEPT !["exit"] = "ended"]
  /\ waitOn' = [waitOn EXCEPT !["exit"] = None]
  /\ Collect(subs \ {"exit"})

WaitsOn(t, S) == waitOn' \in {[waitOn EXCEPT ![t] = id] : id \in S}

WaitRunningRecv(t) ==
  /\ pc[t] = "wait_running"
  /\ subq[t] # <<>>
  /\ LET over == Head(subq[t]) \in EndsRunning(waitOn[t])
     IN  \/ /\ ~over
            /\ Recv(t)
            /\ UNCHANGED <<registryVars, pc, waitOn>>
         \/ /\ over /\ Running # {}
            /\ Recv(t)
            /\ WaitsOn(t, Running)
            /\ UNCHANGED <<registryVars, pc>>
         \/ /\ over /\ Running = {}
            /\ IF t = "exit" THEN CollectAndEnd ELSE WaitIdleThenShutDown(t)
  /\ UNCHANGED <<mode, up, sent, known>>

WaitIdleRecv(t) ==
  /\ pc[t] = "wait_idle"
  /\ subq[t] # <<>>
  /\ LET over == Head(subq[t]) \in EndsIdle(waitOn[t])
     IN  \/ /\ ~over
            /\ Recv(t)
            /\ UNCHANGED <<registryVars, pc, waitOn>>
         \/ /\ over /\ Live # {}
            /\ Recv(t)
            /\ WaitsOn(t, Live)
            /\ UNCHANGED <<registryVars, pc>>
         \/ over /\ Live = {} /\ ShutDownAndEnd(t)
  /\ UNCHANGED <<mode, up, sent, known>>

-----------------------------------------------------------------------------
(* The tasks main() joins *)

\* The input specs are started, then the handlers and services.
MainUp ==
  /\ ~up
  /\ up' = TRUE
  /\ UNCHANGED <<vars, mode, pc, waitOn, sent, known>>

\* maybe_run_http() ends: its wait_for_shutdown() finds the state done.
HttpEnds ==
  /\ up
  /\ pc["http"] = "start"
  /\ shutdown = "done"
  /\ pc' = [pc EXCEPT !["http"] = "ended"]
  /\ UNCHANGED <<vars, mode, up, waitOn, sent, known>>

(* maybe_run_agent(): whatever its select finds, it awaits the agent loop. *)

\* The head of the loop
AgentLooks ==
  /\ up
  /\ pc["agent"] = "start"
  /\ pc' = [pc EXCEPT !["agent"] = IF shutdown = "done" THEN "ended"
                                  ELSE "connecting"]
  /\ UNCHANGED <<vars, mode, up, waitOn, sent, known>>

\* connect() fails: the loop tries again, or the error ends the program.
AgentConnectFails ==
  /\ pc["agent"] = "connecting"
  /\ \E p \in {"start", "failed"} : pc' = [pc EXCEPT !["agent"] = p]
  /\ UNCHANGED <<vars, mode, up, waitOn, sent, known>>

\* connect() returns, and only then the loop subscribes.
AgentConnected ==
  /\ pc["agent"] = "connecting"
  /\ pc' = [pc EXCEPT !["agent"] = "serving"]
  /\ Subscribe("agent")
  /\ UNCHANGED <<registryVars, mode, up, waitOn, sent, known>>

AgentDisconnects ==
  /\ pc["agent"] = "serving"
  /\ pc' = [pc EXCEPT !["agent"] = "start"]
  /\ Unsubscribe("agent")
  /\ UNCHANGED <<registryVars, mode, up, waitOn, sent, known>>

\* The loop forwards a notification, and ends with ShutDown(Done).
AgentRecv ==
  /\ pc["agent"] = "serving"
  /\ subq["agent"] # <<>>
  /\ IF Head(subq["agent"]) = ShutDown("done")
     THEN pc' = [pc EXCEPT !["agent"] = "ended"] /\ Unsubscribe("agent")
     ELSE Recv("agent") /\ UNCHANGED pc
  /\ UNCHANGED <<registryVars, mode, up, waitOn, sent, known>>

\* maybe_run_until_exit(), until it waits
ExitStarts ==
  /\ up
  /\ pc["exit"] = "start"
  /\ \/ Running # {} /\ shutdown # "done"
        /\ StartWait("exit", Running, "wait_running")
     \/ (Running = {} \/ shutdown = "done") /\ CollectAndEnd
  /\ UNCHANGED <<mode, up, sent, known>>

ExitShutDown ==
  /\ pc["exit"] = "wait_running"
  /\ shutdown = "done"
  /\ CollectAndEnd
  /\ UNCHANGED <<mode, up, sent, known>>

\* wait_until_idle_then_shutdown(), until it waits
WaitUntilIdle ==
  \/ shutdown = "done" /\ ShutDownAndEnd("idle")
  \/ shutdown # "done" /\ WaitIdleThenShutDown("idle")

\* maybe_run_until_idle() and run_agent_until_idle(), until they wait
IdleStarts ==
  /\ up
  /\ pc["idle"] = "start"
  /\ IF mode.agent /\ IsEmpty(procs) /\ shutdown # "done"
     THEN /\ pc' = [pc EXCEPT !["idle"] = "first"]
          /\ Subscribe("idle")
          /\ UNCHANGED <<registryVars, waitOn>>
     ELSE IF mode.agent /\ IsEmpty(procs)
     THEN /\ pc' = [pc EXCEPT !["idle"] = "ended"]
          /\ UNCHANGED <<vars, waitOn>>
     ELSE WaitUntilIdle
  /\ UNCHANGED <<mode, up, sent, known>>

\* wait_for_first_assignment()
FirstRecv ==
  /\ pc["idle"] = "first"
  /\ subq["idle"] # <<>>
  /\ IF Head(subq["idle"])[1] = "Start"
     THEN WaitUntilIdle
     ELSE Recv("idle") /\ UNCHANGED <<registryVars, pc, waitOn>>
  /\ UNCHANGED <<mode, up, sent, known>>

\* --wait-timeout
FirstTimeout ==
  /\ pc["idle"] = "first"
  /\ subq["idle"] = <<>>
  /\ ShutDownAndEnd("idle")
  /\ UNCHANGED <<mode, up, sent, known>>

\* The select in run_agent_until_idle() finds the state done.
FirstShutDown ==
  /\ pc["idle"] = "first"
  /\ shutdown = "done"
  /\ pc' = [pc EXCEPT !["idle"] = "ended"]
  /\ Unsubscribe("idle")
  /\ UNCHANGED <<registryVars, mode, up, waitOn, sent, known>>

IdleShutDown ==
  /\ pc["idle"] = "wait_idle"
  /\ shutdown = "done"
  /\ ShutDownAndEnd("idle")
  /\ UNCHANGED <<mode, up, sent, known>>

-----------------------------------------------------------------------------
(* The registry's own tasks, the command line and the clients *)

ClientStarts(id, c, st) ==
  /\ ~up \/ mode.serve \/ mode.agent
  /\ c \in mode.procs
  /\ StartProc(id, c, st)
  /\ UNCHANGED taskVars

ProcStops(c, st) == StopProc(c, st) /\ UNCHANGED taskVars
ProcTold(c) == TellNotRunning(c) /\ UNCHANGED taskVars

ClientDeletes(id) ==
  /\ up
  /\ mode.serve \/ mode.agent
  /\ DeleteProc(id)
  /\ UNCHANGED taskVars

HandlerStep(h) ==
  \/ ShutdownOnIdle(h) \/ TermThenKill(h) \/ Kill(h)
  \/ TermTimeout(h) \/ KillTimeout(h)
AgentTurn == AgentLooks \/ AgentConnected \/ AgentConnectFails \/ AgentRecv
JoinedStep ==
  \/ HttpEnds \/ AgentTurn \/ AgentDisconnects \/ ExitStarts \/ ExitShutDown
  \/ IdleStarts \/ FirstRecv \/ FirstTimeout \/ FirstShutDown \/ IdleShutDown
WaiterRecv(t) == WaitRunningRecv(t) \/ WaitIdleRecv(t)

ShutdownNext ==
  /\ ~Exited
  /\ \/ \E h \in Handler : Signal(h) \/ HandlerStep(h)
     \/ \E t \in Task : WaiterRecv(t)
     \/ MainUp \/ JoinedStep
     \/ \E id \in ProcId, c \in Proc, st \in States : ClientStarts(id, c, st)
     \/ \E c \in Proc, st \in States : ProcStops(c, st)
     \/ \E c \in Proc : ProcTold(c)
     \/ \E id \in ProcId : ClientDeletes(id)

ShutdownSpec == ShutdownInit /\ [][ShutdownNext]_allVars

\* The executor polls every task that is ready, and timers expire; a connection
\* that stands is not assumed to break.
TaskFairness ==
  /\ WF_allVars(~Exited /\ MainUp)
  /\ \A h \in Handler : WF_allVars(~Exited /\ HandlerStep(h))
  /\ \A t \in Task : WF_allVars(~Exited /\ WaiterRecv(t))
  /\ WF_allVars(~Exited /\ HttpEnds)
  /\ WF_allVars(~Exited /\ AgentTurn)
  /\ WF_allVars(~Exited /\ (ExitStarts \/ ExitShutDown))
  /\ WF_allVars(~Exited /\ (IdleStarts \/ FirstRecv \/ FirstTimeout
                              \/ FirstShutDown \/ IdleShutDown))
  /\ \A c \in Proc : WF_allVars(~Exited /\ ProcTold(c))
FairSpec == ShutdownSpec /\ TaskFairness

-----------------------------------------------------------------------------
(* Properties *)

Notification ==
  [1..2 -> {"Start", "NotRunning", "Delete", "ShutDown"}
             \cup ProcId \cup ShutdownState]

\* The variables have the values the code gives them, and only a task that
\* waits holds a receiver.
TypeOK ==
  /\ procs \in [ProcId -> Proc \cup {None}]
  /\ idOf \in [Proc -> ProcId \cup {None}]
  /\ state \in [Proc -> States]
  /\ told \in [Proc -> BOOLEAN]
  /\ shutdown \in ShutdownState
  /\ subq \in [Task -> Seq(Notification)]
  /\ mode \in Modes
  /\ up \in BOOLEAN
  /\ pc \in [Task -> {"armed", "queued", "start", "connecting", "serving", "first",
                      "wait_running", "wait_idle", "ended", "failed"}]
  /\ waitOn \in [Task -> ProcId \cup {None}]
  /\ sent \in [Proc -> SUBSET {"TERM", "KILL"}]
  /\ known \in [Handler -> SUBSET Proc]
  /\ subs = {t \in Task : pc[t] \in {"serving", "first", "wait_running", "wait_idle"}}

Queued(t) == {subq[t][i] : i \in DOMAIN subq[t]}

\* No task sleeps through what it waits for: unless a notification that makes
\* wait_running() look again is queued, its process is still in the map and its
\* NotRunning is still to come; and likewise for wait_idle() and the deletion.
\* The process may be deleted, and its proc ID used again, before the task runs.
WaitIsWoken ==
  \A t \in Task :
    /\ /\ pc[t] = "wait_running"
       /\ Queued(t) \cap {NotRunning(waitOn[t]), Delete(waitOn[t])} = {}
       => procs[waitOn[t]] # None /\ ~told[procs[waitOn[t]]]
    /\ pc[t] = "wait_idle" /\ Delete(waitOn[t]) \notin Queued(t)
       => procs[waitOn[t]] # None

\* When a SIGTERM, SIGINT or SIGQUIT handler has done its killing, every
\* process it found that still runs and is tracked has been sent a SIGKILL by
\* some handler: no handler goes on because wait_running() returned too early.
StragglersKilled ==
  \A h \in {"TERM", "INT", "QUIT"} :
    pc[h] \in {"wait_idle", "ended"} =>
      \A c \in known[h] :
        state[c] = "running" /\ procs[idOf[c]] = c => "KILL" \in sent[c]

\* The agent loop subscribed after the shutdown state became done, which it
\* last looked at before it connected: as long as the connection stands, it
\* does not learn of it.
AgentUnaware ==
  /\ pc["agent"] = "serving"
  /\ shutdown = "done"
  /\ ShutDown("done") \notin Queued("agent")

\* The program comes to its end, or its agent loop never learns that it should.
ProgramEnds == <>(Exited \/ []AgentUnaware)

\* The handled SIGTERM, SIGINT or SIGQUIT ends the program, however long the
\* processes run and whether or not anyone deletes them; all tasks that main()
\* joins end, unless the agent loop was connecting at the shutdown.
SignalEndsProgram ==
  \A h \in {"TERM", "INT", "QUIT"} : [](pc[h] = "queued" => ProgramEnds)

\* The processes end, and the clients delete them.
Ending ==
  /\ \A c \in Proc :
       WF_allVars(~Exited /\ \E st \in States : ProcStops(c, st))
  /\ \A id \in ProcId : WF_allVars(~Exited /\ ClientDeletes(id))

\* SIGUSR1, --exit and --wait end the program if the processes end and are
\* deleted, with the same exception: check_idling() or the task that waits sets
\* the shutdown state to done, and every task that main() joins then ends.
IdlingEndsProgram ==
  Ending => [](pc["USR1"] = "queued" \/ mode.exit \/ mode.wait => ProgramEnds)
=============================================================================
