------------------------------ MODULE Requests ------------------------------
(***************************************************************************)
(* The requests of clients: the HTTP service of http.rs, with its routing, *)
(* and those messages of the agent protocol (proto.rs) that Agent.tla      *)
(* leaves out, on captured output and the registry.  A handler does not    *)
(* await, but for POST /procs, whose start_procs() is the registry's       *)
(* StartProc.  "via" is the way a request comes; an outcome is             *)
(*   ok         200, or the reply, if any                                  *)
(*   unknown    404, or ProcUnknown                                        *)
(*   error      400, or RequestError / IncomingMessageError                *)
(*   no_method  405                                                        *)
(***************************************************************************)
EXTENDS Capture

CONSTANT Positions    \* the positions that agent messages ask for

ASSUME RequestsAssumption == Positions \subseteq Position

Via == {"http", "agent"}
Outcome == {"none", "ok", "unknown", "error", "no_method"}

Outcomes(outcome) == [Idle EXCEPT !.phase = "answered", !.outcome = outcome]

\* A handler that touches nothing but its answer.
Answer(outcome) ==
  /\ Free
  /\ job' = Outcomes(outcome)
  /\ UNCHANGED <<vars, spec, prog, file, mem, known, careful, clash, tableVars>>

\* The response is handed over.
Respond ==
  /\ job.phase = "answered"
  /\ job' = Idle
  /\ UNCHANGED <<vars, spec, prog, file, mem, known, careful, clash, tableVars>>

\* procs.get()
Found(id) == procs[id] # None

-----------------------------------------------------------------------------
(* Starting, deleting, signalling *)

\* get_body_json() refuses a body, start_procs() refuses the specs; or the
\* process starts, with its program, its capture task and an fd, which has any
\* number that is free.
PostProcs(id, c, valid) ==
  \/ /\ ~valid \/ Found(id) \/ shutdown # "active"
     /\ Answer("error")
  \/ /\ Free
     /\ valid
     /\ spec[c].mode # "none" /\ spec[c].id = id
     /\ StartProc(id, c, "running")
     /\ prog' = [prog EXCEPT ![c].alive = TRUE]
     /\ mem' = [mem EXCEPT ![c].task =
                  IF spec[c].mode = "memory" THEN "reading" ELSE @]
     /\ \E n \in Number :
          /\ open[n] = None
          /\ num' = [num EXCEPT ![c] = n]
          /\ open' = [open EXCEPT ![n] = c]
     /\ job' = Outcomes("ok")
     /\ UNCHANGED <<spec, file, known, careful, clash, lost>>

\* The process that goes drops its handler, and with it the number of a
\* temporary file.
DeleteProcs(id) ==
  \/ ~Found(id) /\ Answer("unknown")
  \/ Found(id) /\ ~Removable(id) /\ Answer("error")
  \/ /\ Free
     /\ DeleteProc(id)
     /\ IF spec[procs[id]].mode = "tempfile"
          THEN Close(procs[id]) ELSE UNCHANGED open
     /\ job' = Outcomes("ok")
     /\ UNCHANGED <<spec, prog, file, mem, known, careful, clash, num, lost>>

\* parse_signum(), get(), send_signal(): a process is signalled until it is
\* reaped, which is after it ended and before its record shows it; kill()
\* refuses a number that is no signal.
SignalProc(via, id, signum) ==
  \/ signum = "unparsable" /\ via = "http" /\ Answer("error")
  \/ signum # "unparsable" /\ ~Found(id) /\ Answer("unknown")
  \/ /\ signum # "unparsable" /\ Found(id)
     /\ \/ /\ signum = "signal"
           /\ state[procs[id]] = "running"
           /\ Answer("ok")
        \/ /\ signum = "number" \/ ~prog[procs[id]].alive
           /\ Answer("error")

-----------------------------------------------------------------------------
(* Reading *)

Begin(newJob) ==
  /\ Free
  /\ job' = newJob
  /\ UNCHANGED <<vars, spec, prog, file, mem, known, clash, tableVars>>

GetProcs ==
  /\ \E order \in Orders({id \in ProcId : Found(id)}) :
       Begin(Ask("result", [i \in DOMAIN order |-> procs[order[i]]], 0, None))
  /\ UNCHANGED careful

GetProc(id) ==
  \/ ~Found(id) /\ Answer("unknown")
  \/ /\ Found(id)
     /\ Begin(Ask("result", <<procs[id]>>, 0, None))
     /\ UNCHANGED careful

\* The client was told that the data from start to stop are there.
Told(c, start, stop) ==
  /\ start \in 0..known[c]
  /\ stop # None => stop \in start..known[c]

\* parse_fd(), get(), get_fd_handler(), get_data().  A fd that is not captured
\* has no data: an empty response, but an error for the agent.
GetData(via, id, fd, start, stop) ==
  \/ fd = "unparsable" /\ Answer("error")
  \/ fd # "unparsable" /\ ~Found(id) /\ Answer("unknown")
  \/ /\ Found(id)
     /\ \/ fd = "absent" /\ Answer("error")
        \/ fd = "plain" /\ Answer(IF via = "http" THEN "ok" ELSE "error")
        \/ /\ fd = "captured"
           /\ Begin(Ask("data", <<procs[id]>>, start, stop))
           /\ careful' = [careful EXCEPT ![procs[id]] =
                            @ /\ Told(procs[id], start, stop)]

-----------------------------------------------------------------------------
(* Router::dispatch() and process_msg() *)

Signum == {"signal", "number", "unparsable"}
Fd == {"captured", "plain", "absent", "unparsable"}

\* No path matches, or no method of the path.
NoRoute == Answer("unknown")
NoMethod == Answer("no_method")

HttpDispatch(id) ==
  \/ GetProcs
  \/ \E c \in Proc, valid \in BOOLEAN : PostProcs(id, c, valid)
  \/ GetProc(id)
  \/ DeleteProcs(id)
  \/ \E signum \in Signum : SignalProc("http", id, signum)
  \/ \E fd \in Fd : GetData("http", id, fd, 0, None)
  \/ NoRoute
  \/ NoMethod

\* ProcidListRequest is answered whatever happens; the requests to start, to
\* delete and for a result do what their HTTP counterparts do.
AgentRequest(id) ==
  \/ Answer("ok")
  \/ \E signum \in Signum \ {"unparsable"} : SignalProc("agent", id, signum)
  \/ \E fd \in Fd, start \in Positions, stop \in Positions \cup {None} :
       GetData("agent", id, fd, start, stop)

Serve == Respond \/ \E id \in ProcId : HttpDispatch(id) \/ AgentRequest(id)

RequestsNext == Serve \/ \E c \in Proc : Step(c)

\* A request runs to its end, and tokio runs a capture task that has something
\* to read in the end, whatever other requests come; a task whose fd was closed
\* may never be woken.
RequestsSpec ==
  /\ CaptureInit
  /\ [][RequestsNext]_allVars
  /\ WF_allVars(Respond)
  /\ \A c \in Proc :
       /\ WF_allVars(JobStep(c))
       /\ SF_allVars(CaptureRead(c) \/ CaptureEOF(c))

-----------------------------------------------------------------------------
(* Properties *)

\* Every variable has its type.
TypeOK ==
  /\ spec \in Loads
  /\ prog \in [Proc -> [alive : BOOLEAN, n : 0..MaxBytes]]
  /\ \A c \in Proc :
       /\ file[c].data \in Seq(0..MaxBytes) /\ file[c].offset \in 0..2 * Limit
       /\ mem[c].pipe \in Seq(1..MaxBytes) /\ mem[c].buf \in Seq(1..MaxBytes)
       /\ mem[c].task \in {"none", "reading", "done", "failed"}
  /\ num \in [Proc -> Number \cup {None}]
  /\ open \in [Number -> Proc \cup {None}]
  /\ lost \in BOOLEAN
  /\ job.phase \in {"idle", "look", "reading", "answered", "panicked"}
  /\ job.todo \in Seq(Proc) /\ job.got \in Seq(0..MaxBytes)
  /\ \A item \in job.items :
       /\ item.c \in Proc
       /\ item.type \in {"bytes", "detached", "error", "foreign"}
       /\ item.type = "bytes" => item.data \in Seq(0..MaxBytes)
  /\ job.outcome \in Outcome
  /\ known \in [Proc -> 0..2 * Limit]
  /\ careful \in [Proc -> BOOLEAN] /\ clash \in [Proc -> BOOLEAN]

Answered == IF job.phase = "answered" THEN job.items ELSE {}

\* Whether a read of the captured output now would give all of it
Settled(c) == told[c] /\ (spec[c].mode = "memory" => mem[c].task = "done")

\* The bytes of an answer are those that the program asked about wrote at their
\* place, until a read fails: from then on they may be another program's, that of
\* "from", at their place too.  The result of a process that is over has all of
\* its output: from memory always, once the capture task is over too; from a
\* temporary file as long as its program and reads of the file, through whichever
\* number, have not moved the shared offset under each other.
AnswersAreOutput ==
  \A item \in Answered :
    item.type = "bytes" =>
      /\ item.from = item.c \/ lost
      /\ ~clash[item.from] =>
           /\ \A i \in DOMAIN item.data : item.data[i] = item.start + i
           /\ job.ask.what = "result" /\ Settled(item.from)
                => item.data = Output(item.from)

\* A capture is in use: a temporary file while its process is in the registry,
\* a pipe while its task reads.
InUse(c) == IF spec[c].mode = "tempfile" THEN \E id \in ProcId : procs[id] = c
            ELSE mem[c].task = "reading"

\* Clients that ask for no more than they were told is there are served: no read
\* fails as long as all of them do and no program writes while its file is read;
\* until a read fails such a request does not panic, and every capture in use
\* keeps its fd.
KnownRangeIsServed ==
  /\ lost => \E c \in Proc : ~careful[c] \/ clash[c]
  /\ ~lost => /\ job.phase = "panicked" => ~careful[job.todo[1]]
              /\ \A c \in Proc : InUse(c) => Opened(c) = c

\* The thread that reads a file to its end gets there although the program
\* goes on writing: a write never leaves more to read than there was.
WritesLeaveNoMoreToRead ==
  [][\A c \in Proc :
       Reads(c) /\ Reads(c)' => Left(c)' <= (IF Left(c) > 0 THEN Left(c) ELSE 0)]_allVars

\* Everything that a program writes to a captured pipe arrives in memory once
\* it ends, unless Procstar ends by a panic or a read failed and closed an fd.
CaptureCompletes ==
  \A c \in Proc :
    mem[c].task = "reading" /\ ~prog[c].alive
      ~> (mem[c].task = "done" /\ mem[c].buf = Output(c)) \/ job.phase = "panicked" \/ lost

\* The result of a process whose NotRunning was sent includes its output.
ResultHoldsOutput ==
  \A item \in Answered :
    job.ask.what = "result" /\ item.type = "bytes" /\ told[item.c]
      => item.data = Output(item.c)
=============================================================================
