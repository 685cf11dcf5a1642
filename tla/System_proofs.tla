---------------------------- MODULE System_proofs ---------------------------
(***************************************************************************)
(* What an agent and its server agree on, for any number of proc IDs,      *)
(* processes and websockets.  The invariant follows a fact on its way from *)
(* the registry to the server: it is in the agent's notifications, on the  *)
(* websocket, in a Register message that a serve task holds, or known.     *)
(***************************************************************************)
EXTENDS System, Registry_proofs

-----------------------------------------------------------------------------
(* Types *)

Notification ==
  ({"Start", "NotRunning", "Delete"} \X ProcId)
    \cup ({"ShutDown"} \X ShutdownState)

RegisterMsg == [type : {"Register"}, ids : SUBSET ProcId, st : ShutdownState]

UpMsg ==
  RegisterMsg
    \cup [type : {"ProcResult"}, id : ProcId, st : States]
    \cup [type : {"ProcDelete", "ProcUnknown", "RequestError"}, id : ProcId]
    \cup [type : {"ShutDown"}, st : ShutdownState]

DownMsg ==
  [type : {"Registered"}]
    \cup [type : {"ProcStartRequest"}, id : ProcId, valid : BOOLEAN]
    \cup [type : {"ProcResultRequest", "ProcDeleteRequest"}, id : ProcId]

\* A serve task that has added its Connection, and is not over.
Tasks == {"request", "recv", "close"}
Added == Tasks \cup {"ended"}

\* Where request_start() is.
StartState == {"idle", "chosen", "chosen again", "retry", "sent", "created",
               "created late", "assert", "failed"}

\* The types that TypeOK does not give.
Types ==
  /\ RegistryTypes
  /\ subq \in [Sub -> Seq(Notification)]
  /\ up \in [Ws -> Seq(UpMsg)]
  /\ down \in [Ws -> Seq(DownMsg)]
  /\ spc \in [Ws -> {"login", "add"} \cup Added]
  /\ register \in [Ws -> RegisterMsg \cup {None}]
  /\ todo \in [Ws -> SUBSET ProcId]
  /\ taskConn \in [Ws -> Ws \cup {None}]
  /\ done \in [Ws -> BOOLEAN]
  /\ connShut \in [Ws -> ShutdownState]
  /\ started \in [ProcId -> StartState]
  /\ chosen \in [ProcId -> Ws \cup {None}]
  /\ popFailed \in BOOLEAN

\* run() gives up as soon as count_max attempts have failed.
CountInv == apc # "failed" => count < CountMax

-----------------------------------------------------------------------------
(* The websockets, and the serve task of each *)

TaskInv ==
  \A w \in Ws :
    /\ agentEnd[w] = "none" <=> serverEnd[w] = "none"
    /\ serverEnd[w] = "none" => spc[w] = "login" /\ up[w] = <<>>
    /\ spc[w] = "login" =>
         /\ down[w] = <<>>
         /\ up[w] # <<>> => Len(up[w]) = 1 /\ up[w][1] \in RegisterMsg
    /\ spc[w] = "add" => register[w] \in RegisterMsg
    /\ spc[w] \in Tasks <=> taskConn[w] # None
    /\ spc[w] \in {"close", "ended"} => serverEnd[w] = "closed" /\ up[w] = <<>>
    /\ done[w] => spc[w] \in {"recv", "close"}
    /\ w \in closing => spc[w] \in Added

\* A Connection object in use has a websocket that was added.
ObjectInv ==
  /\ \A o \in Ws : connWs[o] # None => spc[connWs[o]] \in Added
  /\ conn # None => connWs[conn] # None
  /\ \A w \in Ws : taskConn[w] # None => connWs[taskConn[w]] # None
  /\ \A o \in timer : connWs[o] # None
  /\ \A id \in ProcId :
       /\ processes[id] # None => connWs[processes[id]] # None
       /\ chosen[id] # None => connWs[chosen[id]] # None
       /\ started[id] \in {"chosen", "chosen again", "sent"} => chosen[id] # None

\* The agent serves once its server has answered.
AgentInv ==
  /\ apc = "serving" => spc[ws] # "login"
  /\ ws # None /\ serverEnd[ws] = "open" /\ spc[ws] = "login" => up[ws] # <<>>

-----------------------------------------------------------------------------
(* The end of the agent, and its one Connection *)

\* A member of A is in q; and none of B comes after it.
Has(q, A) == \E i \in DOMAIN q : q[i] \in A
Last(q, A, B) ==
  \E i \in DOMAIN q : q[i] \in A /\ \A j \in DOMAIN q : j > i => q[j] \notin B

\* ShutDown(done) is about to arrive on w, or has.
Ending(w) == done[w] \/ Has(up[w], {ShutDownMsg("done")})

\* The agent ends once: one serve task at most pops the Connection.
EndInv ==
  /\ apc # "exited" => \A w \in Ws : ~Ending(w)
  /\ \A v, w \in Ws : Ending(v) /\ Ending(w) => v = w

\* Until then, without a reconnect timeout, the agent has one Connection.
Unpopped == apc # "exited" \/ \E w \in Ws : Ending(w)
OneConnection ==
  /\ timer = {}
  /\ Unpopped =>
       /\ \A w \in Ws : taskConn[w] \in {None, conn}
       /\ \A id \in ProcId : {processes[id], chosen[id]} \subseteq {None, conn}

\* The agent's websocket is the one its Connection uses, or is to be closed.
Served == ws # None /\ serverEnd[ws] = "open" /\ spc[ws] \in {"request", "recv"}
CurrentInv == Served => connWs[conn] = ws \/ ws \in closing

-----------------------------------------------------------------------------
(* The shutdown state on its way to the server *)

\* The shutdown states that have not been reached, and what may not be told
\* of yet; nobody is told of a return to active.
Ahead ==
  IF shutdown = "active" THEN {"idling", "done"}
  ELSE IF shutdown = "idling" THEN {"done"} ELSE {}
NotYetTold == {ShutDown(st) : st \in Ahead \cup {"active"}}
NotYetSent == {ShutDownMsg(st) : st \in Ahead \cup {"active"}}

\* Nobody is ahead of the registry.
TaskBehind(w) ==
  /\ ~Has(up[w], NotYetSent)
  /\ spc[w] = "login" /\ up[w] # <<>> => up[w][1].st \notin Ahead
  /\ spc[w] = "add" => register[w].st \notin Ahead
  /\ connShut[w] \notin Ahead
AheadInv ==
  /\ ~Has(subq["agent"], NotYetTold)
  /\ \A w \in Ws : TaskBehind(w)

\* Only an agent that serves has notifications.
QueueInv == apc # "serving" => subq["agent"] = <<>>

\* An agent that has a websocket and is to end has its notification, or has
\* missed it.
DoneInv ==
  shutdown = "done" /\ ws # None =>
    "shutdown" \in missed \/ Has(subq["agent"], {ShutDown("done")})

\* The serve task of the agent's websocket is on its way to serve, or serves.
Logging == spc[ws] \in {"login", "add"}
Attached ==
  /\ ws # None
  /\ serverEnd[ws] = "open"
  /\ Logging \/ (spc[ws] \in {"request", "recv"} /\ connWs[conn] = ws)

\* The Register message on its websocket, until it is added.
Registering == IF spc[ws] = "login" THEN up[ws][1] ELSE register[ws]

\* The shutdown state that the server knows, or will from that message.
KnownShutdown == IF Logging THEN Registering.st ELSE connShut[conn]

IdlingInv ==
  shutdown = "idling" /\ Attached /\ "shutdown" \notin missed =>
    \/ Has(subq["agent"], {ShutDown("idling")})
    \/ Has(up[ws], {ShutDownMsg("idling")})
    \/ KnownShutdown = "idling"

-----------------------------------------------------------------------------
(* The proc IDs on their way to the server *)

\* If nothing arrives late, all is on the agent's websocket.
StaleInv == apc # "exited" => \A w \in Ws : w # ws => up[w] = <<>>

Results(id) == {ProcResult(id, st) : st \in States}
Removals(id) == {ProcDelete(id), ProcUnknown(id)}
Starts(id) == {ProcStartRequest(id, valid) : valid \in BOOLEAN}

\* The server tracks the process, or will from the Register message.
Known(id) == IF Logging THEN id \in Registering.ids ELSE processes[id] # None

\* It does, or will be told of it.
Promised(id) == Known(id) \/ Has(up[ws], Results(id))

\* The server will have forgotten the process, or be told the error of it.
WillForget(id) ==
  \/ Has(subq["agent"], {Delete(id)})
  \/ Last(up[ws], Removals(id), Results(id))
  \/ Has(up[ws], {RequestError(id)})
  \/ Has(down[ws], Starts(id))
GhostInv ==
  /\ \A id \in ProcId : started[id] # "sent"
  /\ Attached => \A id \in ProcId :
       Promised(id) /\ id \notin missed /\ "error" \notin heard[id]
         => procs[id] # None \/ WillForget(id)

\* The server will track the process.
WillTrack(id) ==
  \/ Last(subq["agent"], {Start(id)}, {Delete(id)})
  \/ /\ ~Has(subq["agent"], {Delete(id)})
     /\ \/ Last(up[ws], Results(id), Removals(id))
        \/ ~Has(up[ws], Removals(id)) /\ Known(id)
ForgottenInv ==
  Attached => \A id \in ProcId : procs[id] # None /\ id \notin missed => WillTrack(id)

-----------------------------------------------------------------------------
(* Sequences *)

LEMMA LengthZero ==
  ASSUME NEW S, NEW q \in Seq(S), Len(q) = 0
  PROVE  q = <<>>
OBVIOUS

LEMMA SingleSeq ==
  ASSUME NEW S, NEW q \in Seq(S), Len(q) = 1
  PROVE  q # <<>> /\ Head(q) = q[1] /\ Tail(q) = <<>> /\ DOMAIN q = {1}
<1>1. q # <<>>
  <2> SUFFICES ASSUME q = <<>> PROVE FALSE
    OBVIOUS
  <2>1. Len(q) = 0
    OBVIOUS
  <2> QED
    BY <2>1
<1>2. Head(q) = q[1] /\ Tail(q) \in Seq(S) /\ Len(Tail(q)) = Len(q) - 1
  BY <1>1
<1>3. Len(Tail(q)) = 0
  BY <1>2
<1>4. DOMAIN q = 1..Len(q)
  OBVIOUS
<1>5. DOMAIN q = {1}
  BY <1>4
<1>6. Tail(q) = <<>>
  BY <1>2, <1>3, LengthZero
<1> QED
  BY <1>1, <1>2, <1>5, <1>6

\* What arrives of a queue is a prefix of it; none, unless Late.
LEMMA ArrivesPrefix ==
  ASSUME NEW S, NEW q \in Seq(S), NEW p \in Arrives(q)
  PROVE  /\ p \in Seq(S)
         /\ Len(p) <= Len(q)
         /\ \A i \in 1..Len(p) : p[i] = q[i]
         /\ q = <<>> => p = <<>>
         /\ ~Late => p = <<>>
<1>1. CASE Late
  <2>1. PICK k \in 0..Len(q) : p = SubSeq(q, 1, k)
    BY <1>1 DEF Arrives
  <2>2. k \in Nat /\ Len(q) \in Nat /\ k <= Len(q)
    BY <2>1
  <2>3. \A i \in 1..k : q[i] \in S
    BY <2>2
  <2>4. p \in Seq(S) /\ Len(p) = k /\ \A i \in 1..k : p[i] = q[i]
    BY <2>1, <2>2, <2>3
  <2> QED
    BY <1>1, <2>2, <2>4
<1>2. CASE ~Late
  BY <1>2 DEF Arrives
<1> QED
  BY <1>1, <1>2

\* What is in a prefix was in the queue.
LEMMA HasPrefix ==
  ASSUME NEW S, NEW q \in Seq(S), NEW p \in Arrives(q), NEW A, Has(p, A)
  PROVE  Has(q, A)
<1>1. p \in Seq(S) /\ Len(p) <= Len(q) /\ \A i \in 1..Len(p) : p[i] = q[i]
  BY ArrivesPrefix
<1>2. DOMAIN p = 1..Len(p) /\ DOMAIN q = 1..Len(q) /\ Len(p) \in Nat /\ Len(q) \in Nat
  BY <1>1
<1> QED
  BY <1>1, <1>2 DEF Has

\* A message is sent to an end, and arrives in its queue if the end is open.
LEMMA SentSeq ==
  ASSUME NEW S, NEW q \in Seq(S), NEW ms \in Seq(S), NEW end
  PROVE  /\ Sent(q, end, ms) \in Seq(S)
         /\ end # "open" => Sent(q, end, ms) = q
         /\ end = "open" => Sent(q, end, ms) = q \o ms
         /\ ms # <<>> /\ end = "open" => Sent(q, end, ms) # <<>>
         /\ q # <<>> => Sent(q, end, ms) # <<>>
<1>1. /\ q \o ms \in Seq(S) /\ Len(q \o ms) = Len(q) + Len(ms)
      /\ Len(q) \in Nat /\ Len(ms) \in Nat
      /\ ms # <<>> => Len(ms) > 0
      /\ q # <<>> => Len(q) > 0
  OBVIOUS
<1> QED
  BY <1>1 DEF Sent

LEMMA HasOne ==
  ASSUME NEW m, NEW A, NEW B
  PROVE  /\ ~Has(<<>>, A)
         /\ Has(<<m>>, A) <=> m \in A
         /\ m \in A => Last(<<m>>, A, B)
<1>1. ~Has(<<>>, A)
  BY DEF Has
<1>2. Has(<<m>>, A) <=> m \in A
  BY DEF Has
<1>3. m \in A => Last(<<m>>, A, B)
  BY DEF Last
<1> QED
  BY <1>1, <1>2, <1>3

\* Appending to a queue.
LEMMA HasConcat ==
  ASSUME NEW S, NEW q \in Seq(S), NEW ns \in Seq(S), NEW A, NEW B
  PROVE  /\ Has(q \o ns, A) <=> Has(q, A) \/ Has(ns, A)
         /\ Last(ns, A, B) => Last(q \o ns, A, B)
         /\ Last(q, A, B) /\ ~Has(ns, B) => Last(q \o ns, A, B)
<1> DEFINE r == q \o ns
<1>1. /\ r \in Seq(S) /\ DOMAIN r = 1..(Len(q) + Len(ns))
      /\ DOMAIN q = 1..Len(q) /\ DOMAIN ns = 1..Len(ns)
      /\ Len(q) \in Nat /\ Len(ns) \in Nat
  <2>1. r \in Seq(S) /\ Len(r) = Len(q) + Len(ns)
    OBVIOUS
  <2> QED
    BY <2>1
<1>2. \A i \in 1..Len(q) : r[i] = q[i]
  OBVIOUS
<1>3. \A i \in 1..Len(ns) : r[Len(q) + i] = ns[i]
  <2> SUFFICES ASSUME NEW i \in 1..Len(ns) PROVE r[Len(q) + i] = ns[i]
    OBVIOUS
  <2>1. Len(q) + i \in 1..(Len(q) + Len(ns)) /\ ~(Len(q) + i <= Len(q))
    BY <1>1
  <2>2. r[Len(q) + i] = ns[Len(q) + i - Len(q)]
    BY <2>1, <1>1
  <2> QED
    BY <1>1, <2>2
<1>4. \A j \in DOMAIN r : j \in DOMAIN q \/ \E i \in DOMAIN ns : j = Len(q) + i
  <2> SUFFICES ASSUME NEW j \in DOMAIN r, j \notin DOMAIN q
               PROVE  \E i \in DOMAIN ns : j = Len(q) + i
    OBVIOUS
  <2>1. j - Len(q) \in DOMAIN ns /\ j = Len(q) + (j - Len(q))
    BY <1>1
  <2> QED
    BY <2>1
<1> HIDE DEF r
<1>5. ASSUME NEW i \in DOMAIN q PROVE i \in DOMAIN r /\ r[i] = q[i] /\ i <= Len(q)
  BY <1>1, <1>2
<1>6. ASSUME NEW i \in DOMAIN ns
      PROVE  Len(q) + i \in DOMAIN r /\ r[Len(q) + i] = ns[i] /\ Len(q) < Len(q) + i
  BY <1>1, <1>3
<1>7. Has(r, A) => Has(q, A) \/ Has(ns, A)
  BY <1>4, <1>5, <1>6 DEF Has
<1>8. Has(q, A) \/ Has(ns, A) => Has(r, A)
  BY <1>5, <1>6 DEF Has
<1>9. Last(ns, A, B) => Last(r, A, B)
  <2> SUFFICES ASSUME NEW i \in DOMAIN ns, ns[i] \in A,
                      \A j \in DOMAIN ns : j > i => ns[j] \notin B
               PROVE  Last(r, A, B)
    BY DEF Last
  <2>1. ASSUME NEW j \in DOMAIN r, j > Len(q) + i PROVE r[j] \notin B
    <3>1. ~(j \in DOMAIN q)
      BY <1>1, <1>5, <1>6, <2>1
    <3>2. PICK k \in DOMAIN ns : j = Len(q) + k
      BY <1>4, <3>1
    <3>3. k > i
      BY <1>1, <2>1, <3>2
    <3> QED
      BY <1>6, <3>2, <3>3
  <2> QED
    BY <1>6, <2>1 DEF Last
<1>10. Last(q, A, B) /\ ~Has(ns, B) => Last(r, A, B)
  <2> SUFFICES ASSUME NEW i \in DOMAIN q, q[i] \in A, ~Has(ns, B),
                      \A j \in DOMAIN q : j > i => q[j] \notin B
               PROVE  Last(r, A, B)
    BY DEF Last
  <2>1. ASSUME NEW j \in DOMAIN r, j > i PROVE r[j] \notin B
    BY <1>4, <1>5, <1>6, <2>1 DEF Has
  <2> QED
    BY <1>5, <2>1 DEF Last
<1> QED
  BY <1>7, <1>8, <1>9, <1>10 DEF r

\* Receiving from a queue.
LEMMA HasTail ==
  ASSUME NEW S, NEW q \in Seq(S), q # <<>>, NEW A, NEW B
  PROVE  /\ Head(q) \in S /\ Tail(q) \in Seq(S)
         /\ Has(q, A) <=> Head(q) \in A \/ Has(Tail(q), A)
         /\ Last(q, A, B) =>
              Last(Tail(q), A, B) \/ (Head(q) \in A /\ ~Has(Tail(q), B))
<1> DEFINE t == Tail(q)
<1>1. /\ t \in Seq(S) /\ Len(t) = Len(q) - 1 /\ Len(q) \in Nat /\ Len(q) > 0
      /\ Head(q) = q[1]
  OBVIOUS
<1>2. DOMAIN q = 1..Len(q) /\ DOMAIN t = 1..(Len(q) - 1)
  BY <1>1
<1>3. Head(q) \in S
  BY <1>1
<1>4. \A i \in DOMAIN t : t[i] = q[i + 1] /\ i + 1 \in DOMAIN q
  BY <1>1, <1>2
<1> HIDE DEF t
<1>5. ASSUME NEW i \in DOMAIN q, i # 1 PROVE i - 1 \in DOMAIN t /\ t[i - 1] = q[i]
  <2>1. i - 1 \in DOMAIN t /\ (i - 1) + 1 = i
    BY <1>1, <1>2, <1>5
  <2> QED
    BY <1>4, <2>1
<1>6. Has(q, A) => Head(q) \in A \/ Has(t, A)
  BY <1>1, <1>5 DEF Has
<1>7. Head(q) \in A \/ Has(t, A) => Has(q, A)
  <2>1. 1 \in DOMAIN q
    BY <1>1, <1>2
  <2> QED
    BY <1>1, <1>4, <2>1 DEF Has
<1>8. Last(q, A, B) => Last(t, A, B) \/ (Head(q) \in A /\ ~Has(t, B))
  <2> SUFFICES ASSUME NEW i \in DOMAIN q, q[i] \in A,
                      \A j \in DOMAIN q : j > i => q[j] \notin B
               PROVE  Last(t, A, B) \/ (Head(q) \in A /\ ~Has(t, B))
    BY DEF Last
  <2>1. ASSUME NEW j \in DOMAIN t, j + 1 > i PROVE t[j] \notin B
    BY <1>4, <2>1
  <2>2. CASE i = 1
    <3>1. \A j \in DOMAIN t : j + 1 > i
      BY <1>1, <1>2, <2>2
    <3> QED
      BY <1>1, <2>1, <2>2, <3>1 DEF Has
  <2>3. CASE i # 1
    <3>1. \A j \in DOMAIN t : j > i - 1 => j + 1 > i
      BY <1>1, <1>2
    <3> QED
      BY <1>5, <2>1, <2>3, <3>1 DEF Last
  <2> QED
    BY <2>2, <2>3
<1> QED
  BY <1>1, <1>3, <1>6, <1>7, <1>8 DEF t

-----------------------------------------------------------------------------
(* Types, tasks and objects *)

BaseInv ==
  /\ TypeOK
  /\ Types
  /\ CountInv
  /\ MapAgrees
  /\ ToldStopped
  /\ TaskInv
  /\ ObjectInv
  /\ AgentInv

\* What the registry notifies is queued for an agent that serves.
LEMMA AgentNotified ==
  ASSUME BaseInv, NEW ns \in Seq(Notification), NotifyAll(ns)
  PROVE  /\ subs' = subs
         /\ subq' \in [Sub -> Seq(Notification)]
         /\ subq'["agent"] = IF apc = "serving" THEN subq["agent"] \o ns ELSE <<>>
<1>1. Sub = {"agent"} /\ subq["agent"] \in Seq(Notification)
  BY AgentAssumption DEF BaseInv, Types
<1>2. subq["agent"] \o ns \in Seq(Notification)
  BY <1>1
<1> QED
  BY <1>1, <1>2 DEF NotifyAll, BaseInv, TypeOK

\* The operations on the registry in this system, and what they notify.
SystemOp(ns) ==
  \/ \E id \in ProcId, c \in Proc, st \in States :
       StartProc(id, c, st) /\ ns = <<Start(id)>>
  \/ \E c \in Proc, st \in States : StopProc(c, st) /\ ns = <<>>
  \/ \E c \in Proc : TellNotRunning(c) /\ ns = <<NotRunning(idOf[c])>>
  \/ \E id \in ProcId :
       /\ DeleteProc(id)
       /\ ns = CheckIdlingSends(procs', shutdown) \o <<Delete(id)>>
  \/ \E st \in {"idling", "done"} :
       /\ shutdown \in EarlierThan(st)
       /\ SetShutdown(st)
       /\ ns = <<ShutDown(st)>> \o CheckIdlingSends(procs, st)

\* They keep the registry consistent, and notify the agent.
LEMMA RegistryBase ==
  ASSUME BaseInv, NEW ns, SystemOp(ns)
  PROVE  /\ RegistryTypes' /\ MapAgrees' /\ ToldStopped'
         /\ ns \in Seq(Notification)
         /\ subs' = subs
         /\ subq' \in [Sub -> Seq(Notification)]
         /\ apc = "serving" => subq'["agent"] = subq["agent"] \o ns
         /\ apc # "serving" => subq'["agent"] = subq["agent"] \/ subq'["agent"] = <<>>
<1> USE DEF BaseInv, Types
<1>1. RegistryTypes' /\ MapAgrees' /\ ToldStopped'
  <2>1. RegistryOp(subs)
    BY DEF SystemOp, RegistryOp, SetShutdown
  <2> QED
    BY <2>1, RegistryKept
<1>2. \A p, st : CheckIdlingSends(p, st) \in Seq(Notification)
  <2>1. <<ShutDown("done")>> \in Seq(Notification)
    BY DEF Notification, ShutDown, ShutdownState
  <2> QED
    BY <2>1 DEF CheckIdlingSends
<1>3. ASSUME NEW id \in ProcId, NEW c \in Proc, NEW st \in States, StartProc(id, c, st),
             ns = <<Start(id)>>
      PROVE  ns \in Seq(Notification) /\ NotifyAll(ns)
  BY <1>3 DEF StartProc, Notification, Start
<1>4. ASSUME NEW c \in Proc, TellNotRunning(c), ns = <<NotRunning(idOf[c])>>
      PROVE  ns \in Seq(Notification) /\ NotifyAll(ns)
  <2>1. idOf[c] \in ProcId
    BY <1>4 DEF MapAgrees, TellNotRunning
  <2> QED
    BY <1>4, <2>1 DEF TellNotRunning, Notification, NotRunning
<1>5. ASSUME NEW id \in ProcId, DeleteProc(id),
             ns = CheckIdlingSends(procs', shutdown) \o <<Delete(id)>>
      PROVE  ns \in Seq(Notification) /\ NotifyAll(ns)
  <2>1. <<Delete(id)>> \in Seq(Notification)
    BY DEF Notification, Delete
  <2> QED
    BY <1>2, <1>5, <2>1 DEF DeleteProc
<1>6. ASSUME NEW st \in {"idling", "done"}, SetShutdown(st),
             ns = <<ShutDown(st)>> \o CheckIdlingSends(procs, st)
      PROVE  ns \in Seq(Notification) /\ NotifyAll(ns)
  <2>1. <<ShutDown(st)>> \in Seq(Notification)
    BY DEF Notification, ShutDown, ShutdownState
  <2> QED
    BY <1>2, <1>6, <2>1 DEF SetShutdown, set_shutdown, NotifyOnly, NotifyAll
<1>7. CASE \E c \in Proc, st \in States : StopProc(c, st) /\ ns = <<>>
  <2>1. subs' = subs /\ subq' = subq /\ ns = <<>>
    BY <1>7 DEF StopProc, notifyVars
  <2>2. subq["agent"] \in Seq(Notification)
    BY AgentAssumption
  <2> QED
    BY <1>1, <2>1, <2>2
<1> QED
  BY <1>1, <1>3, <1>4, <1>5, <1>6, <1>7, AgentNotified DEF SystemOp

\* A step of the registry's tasks, of signals and of other clients
LEMMA RegistryStepOp ==
  ASSUME RegistryStep
  PROVE  \E ns : SystemOp(ns)
<1>1. ASSUME NEW c \in Proc, NEW st \in States, ProcStops(c, st) PROVE SystemOp(<<>>)
  BY <1>1 DEF ProcStops, SystemOp
<1>2. ASSUME NEW c \in Proc, ProcTold(c) PROVE SystemOp(<<NotRunning(idOf[c])>>)
  BY <1>2 DEF ProcTold, SystemOp
<1>3. ASSUME NEW st \in ShutdownState, SignalShutsDown(st)
      PROVE  SystemOp(<<ShutDown(st)>> \o CheckIdlingSends(procs, st))
  BY <1>3 DEF SignalShutsDown, SystemOp, SetShutdown
<1>4. ASSUME NEW id \in ProcId, NEW c \in Proc, NEW st \in States, OtherStarts(id, c, st)
      PROVE  SystemOp(<<Start(id)>>)
  BY <1>4 DEF OtherStarts, SystemOp
<1>5. ASSUME NEW id \in ProcId, OtherDeletes(id)
      PROVE  SystemOp(CheckIdlingSends(procs', shutdown) \o <<Delete(id)>>)
  BY <1>5 DEF OtherDeletes, SystemOp
<1> QED
  BY <1>1, <1>2, <1>3, <1>4, <1>5 DEF RegistryStep

LEMMA RegistryStepBase ==
  ASSUME BaseInv, RegistryStep, UNCHANGED serverVars
  PROVE  BaseInv'
<1>1. PICK ns : SystemOp(ns)
  BY RegistryStepOp
<1>2. /\ RegistryTypes' /\ MapAgrees' /\ ToldStopped'
      /\ subs' = subs /\ subq' \in [Sub -> Seq(Notification)]
  BY <1>1, RegistryBase
<1>3. UNCHANGED <<wireVars, apc, ws, count, serverVars>>
  BY DEF RegistryStep
<1>4. TypeOK'
  BY <1>2, <1>3 DEF BaseInv, TypeOK, wireVars, serverVars
<1>5. Types'
  BY <1>2, <1>3 DEF BaseInv, Types, wireVars, serverVars
<1>6. TaskInv'
  <2>1. UNCHANGED <<agentEnd, serverEnd, up, down, spc, register, taskConn, done, closing>>
    BY <1>3 DEF wireVars, serverVars
  <2> QED
    BY <2>1 DEF BaseInv, TaskInv
<1>7. ObjectInv'
  <2>1. UNCHANGED <<spc, taskConn, conn, connWs, timer, processes, chosen, started>>
    BY <1>3 DEF serverVars
  <2> QED
    BY <2>1 DEF BaseInv, ObjectInv
<1>8. CountInv' /\ AgentInv'
  BY <1>3 DEF BaseInv, CountInv, AgentInv, wireVars, serverVars
<1> QED
  BY <1>2, <1>4, <1>5, <1>6, <1>7, <1>8 DEF BaseInv

\* Agent actions that leave the websockets alone.
LEMMA AgentAloneBase ==
  ASSUME BaseInv, AgentTop \/ CannotConnect \/ SleepEnds, UNCHANGED serverVars
  PROVE  BaseInv'
<1>1. /\ UNCHANGED <<vars, wireVars, serverVars>>
      /\ apc \in {"top", "connecting", "sleeping"}
      /\ apc' \in {"top", "connecting", "sleeping", "exited", "failed"}
      /\ ws = None /\ ws' = None
      /\ count' \in 0..CountMax
      /\ apc' # "failed" => count' < CountMax
  BY AgentAssumption DEF AgentTop, CannotConnect, SleepEnds, ConnectFailed, BaseInv,
     TypeOK, CountInv
<1>2. RegistryTypes' /\ MapAgrees' /\ ToldStopped' /\ subs' = {}
      /\ subq' \in [Sub -> Seq(Notification)]
  BY <1>1 DEF BaseInv, TypeOK, Types, RegistryTypes, MapAgrees, ToldStopped, vars,
     registryVars, notifyVars
<1>3. TypeOK'
  BY <1>1, <1>2 DEF BaseInv, TypeOK, wireVars, serverVars
<1>4. Types'
  BY <1>1, <1>2 DEF BaseInv, Types, wireVars, serverVars
<1>5. CountInv'
  BY <1>1 DEF CountInv
<1>6. TaskInv' /\ ObjectInv' /\ AgentInv'
  BY <1>1 DEF BaseInv, TaskInv, ObjectInv, AgentInv, wireVars, serverVars
<1> QED
  BY <1>2, <1>3, <1>4, <1>5, <1>6 DEF BaseInv

\* A new websocket, with the Register message
LEMMA ConnectBase ==
  ASSUME BaseInv, NEW w \in Ws, Connect(w), UNCHANGED serverVars
  PROVE  BaseInv'
<1> DEFINE r == Register(Live, shutdown)
<1>1. r \in RegisterMsg /\ r \in UpMsg
  BY DEF Register, Live, RegisterMsg, UpMsg, BaseInv, Types, RegistryTypes
<1>2. <<r>> \in Seq(UpMsg) /\ Len(<<r>>) = 1 /\ <<r>>[1] = r
  BY <1>1
<1> HIDE DEF r
<1>3. /\ apc = "connecting" /\ apc' = "registering" /\ ws = None /\ ws' = w
      /\ agentEnd[w] = "none" /\ serverEnd[w] = "none" /\ spc[w] = "login"
      /\ agentEnd' = [agentEnd EXCEPT ![w] = "open"]
      /\ serverEnd' = [serverEnd EXCEPT ![w] = "open"]
      /\ up' = [up EXCEPT ![w] = <<r>>]
      /\ UNCHANGED <<vars, down, count, serverVars>>
  BY DEF Connect, Unused, BaseInv, TypeOK, TaskInv, r
<1>4. RegistryTypes' /\ MapAgrees' /\ ToldStopped' /\ subs' = {}
      /\ subq' \in [Sub -> Seq(Notification)]
  BY <1>3 DEF BaseInv, TypeOK, Types, RegistryTypes, MapAgrees, ToldStopped, vars,
     registryVars, notifyVars
<1>5. TypeOK'
  BY <1>3, <1>4, AgentAssumption DEF BaseInv, TypeOK, serverVars, End
<1>6. Types'
  BY <1>2, <1>3, <1>4 DEF BaseInv, Types, serverVars
<1>7. CountInv'
  BY <1>3 DEF BaseInv, CountInv
<1>8. TaskInv'
  BY <1>1, <1>2, <1>3 DEF BaseInv, TaskInv, TypeOK, Types, serverVars, Added, Tasks
<1>9. ObjectInv'
  BY <1>3 DEF BaseInv, ObjectInv, serverVars
<1>10. AgentInv'
  BY <1>2, <1>3 DEF BaseInv, AgentInv, Types
<1> QED
  BY <1>4, <1>5, <1>6, <1>7, <1>8, <1>9, <1>10 DEF BaseInv

\* The agent leaves its websocket: what is left of it, in every such step.
AgentLeaves ==
  /\ ws \in Ws
  /\ ws' = None
  /\ agentEnd' = [agentEnd EXCEPT ![ws] = "closed"]
  /\ serverEnd' = serverEnd
  /\ down' = [down EXCEPT ![ws] = <<>>]
  /\ up' \in [Ws -> Seq(UpMsg)]
  /\ \A w \in Ws : w # ws => up'[w] = up[w]
  /\ spc[ws] = "login" => \/ up'[ws] = <<>>
                          \/ up'[ws] = up[ws]
  /\ spc[ws] \in {"close", "ended"} => up'[ws] = <<>>

LEMMA AgentLeavesBase ==
  ASSUME BaseInv, AgentLeaves, UNCHANGED <<registryVars, serverVars>>,
         apc' \in {"top", "sleeping", "exited", "failed"}, subs' = {},
         subq' \in [Sub -> Seq(Notification)],
         count' \in 0..CountMax, apc' # "failed" => count' < CountMax
  PROVE  BaseInv'
<1>1. RegistryTypes' /\ MapAgrees' /\ ToldStopped'
  BY DEF BaseInv, Types, RegistryTypes, MapAgrees, ToldStopped, registryVars
<1>2. TypeOK'
  BY AgentAssumption DEF BaseInv, TypeOK, AgentLeaves, serverVars, End
<1>3. Types'
  <2>1. down' \in [Ws -> Seq(DownMsg)]
    <3>1. <<>> \in Seq(DownMsg)
      OBVIOUS
    <3> QED
      BY <3>1 DEF BaseInv, Types, AgentLeaves
  <2> QED
    BY <1>1, <2>1 DEF BaseInv, Types, AgentLeaves, serverVars
<1>4. TaskInv'
  <2>1. serverEnd[ws] # "none"
    BY DEF BaseInv, TaskInv, TypeOK, AgentLeaves
  <2> QED
    BY <2>1 DEF BaseInv, TaskInv, TypeOK, Types, AgentLeaves, serverVars
<1>5. ObjectInv'
  BY DEF BaseInv, ObjectInv, serverVars
<1>6. AgentInv' /\ CountInv'
  BY DEF AgentInv, AgentLeaves, CountInv
<1> QED
  BY <1>1, <1>2, <1>3, <1>4, <1>5, <1>6 DEF BaseInv

\* CloseAgentEnd() leaves a part of what was sent.
LEMMA CloseAgentLeaves ==
  ASSUME BaseInv, ws \in Ws, ws' = None, CloseAgentEnd(ws)
  PROVE  /\ AgentLeaves
         /\ \E q \in Arrives(up[ws]) : up' = [up EXCEPT ![ws] = q]
<1>1. PICK q \in Arrives(up[ws]) : up' = [up EXCEPT ![ws] = q]
  BY DEF CloseAgentEnd
<1>2. up[ws] \in Seq(UpMsg) /\ up \in [Ws -> Seq(UpMsg)]
  BY DEF BaseInv, Types
<1>3. /\ q \in Seq(UpMsg) /\ Len(q) <= Len(up[ws])
      /\ \A i \in 1..Len(q) : q[i] = up[ws][i]
      /\ up[ws] = <<>> => q = <<>>
  BY <1>2, ArrivesPrefix
<1>4. spc[ws] = "login" => q = <<>> \/ q = up[ws]
  <2> SUFFICES ASSUME spc[ws] = "login", q # <<>> PROVE q = up[ws]
    OBVIOUS
  <2>1. Len(up[ws]) = 1
    BY <1>3 DEF BaseInv, TaskInv
  <2>2. Len(q) = 1
    BY <1>2, <1>3, <2>1
  <2> QED
    BY <1>2, <1>3, <2>1, <2>2
<1>5. spc[ws] \in {"close", "ended"} => q = <<>>
  BY <1>3 DEF BaseInv, TaskInv
<1> QED
  BY <1>1, <1>2, <1>3, <1>4, <1>5 DEF AgentLeaves, CloseAgentEnd

LEMMA RegisterFailsBase ==
  ASSUME BaseInv, RegisterFails, UNCHANGED serverVars
  PROVE  BaseInv'
<1>1. ws \in Ws /\ apc = "registering" /\ subs = {}
  BY DEF BaseInv, TypeOK, RegisterFails
<1>2. AgentLeaves
  BY <1>1, CloseAgentLeaves DEF RegisterFails, ConnectFailed
<1>3. /\ apc' \in {"failed", "sleeping"} /\ subs' = {} /\ subq' = subq
      /\ count' \in 0..CountMax /\ (apc' # "failed" => count' < CountMax)
      /\ UNCHANGED registryVars
  BY <1>1, AgentAssumption DEF RegisterFails, ConnectFailed, BaseInv, TypeOK,
     CountInv, vars, notifyVars
<1> QED
  BY <1>2, <1>3, AgentLeavesBase DEF BaseInv, Types

LEMMA DisconnectBase ==
  ASSUME BaseInv, Disconnect, UNCHANGED serverVars
  PROVE  BaseInv'
<1>1. ws \in Ws /\ apc = "serving" /\ subs = {"agent"}
  BY DEF BaseInv, TypeOK, Disconnect
<1>2. AgentLeaves
  BY <1>1, CloseAgentLeaves DEF Disconnect
<1>3. subs' = {} /\ subq' \in [Sub -> Seq(Notification)]
  <2>1. <<>> \in Seq(Notification)
    OBVIOUS
  <2> QED
    BY <1>1, <2>1 DEF Disconnect, DropSubscription, Unsubscribe, BaseInv, Types
<1>4. /\ apc' = "top" /\ count' = count /\ count < CountMax /\ count \in 0..CountMax
      /\ UNCHANGED registryVars
  BY <1>1 DEF Disconnect, BaseInv, CountInv, TypeOK
<1> QED
  BY <1>2, <1>3, <1>4, AgentLeavesBase

LEMMA RegisteredBase ==
  ASSUME BaseInv, AgentRegistered, UNCHANGED serverVars
  PROVE  BaseInv'
<1>1. /\ ws \in Ws /\ apc = "registering" /\ subs = {} /\ apc' = "serving"
      /\ down[ws] # <<>> /\ down' = [down EXCEPT ![ws] = Tail(@)]
      /\ count' = 0 /\ subs' = {"agent"}
      /\ UNCHANGED <<registryVars, agentEnd, serverEnd, up, ws, serverVars>>
  BY DEF BaseInv, TypeOK, AgentRegistered, ResetCount, Subscribe
<1>2. subq' \in [Sub -> Seq(Notification)]
  <2>1. <<>> \in Seq(Notification)
    OBVIOUS
  <2> QED
    BY <2>1 DEF AgentRegistered, Subscribe, BaseInv, Types
<1>3. down' \in [Ws -> Seq(DownMsg)]
  <2>1. Tail(down[ws]) \in Seq(DownMsg)
    BY <1>1 DEF BaseInv, Types
  <2> QED
    BY <1>1, <2>1 DEF BaseInv, Types
<1>4. RegistryTypes' /\ MapAgrees' /\ ToldStopped'
  BY <1>1 DEF BaseInv, Types, RegistryTypes, MapAgrees, ToldStopped, registryVars
<1>5. TypeOK'
  BY <1>1, AgentAssumption DEF BaseInv, TypeOK, serverVars
<1>6. Types'
  BY <1>1, <1>2, <1>3, <1>4 DEF BaseInv, Types, serverVars
<1>7. spc[ws] # "login"
  BY <1>1 DEF BaseInv, TaskInv
<1>8. TaskInv'
  BY <1>1, <1>7 DEF BaseInv, TaskInv, Types, serverVars
<1>9. ObjectInv'
  BY <1>1 DEF BaseInv, ObjectInv, serverVars
<1>10. AgentInv' /\ CountInv'
  BY <1>1, <1>7, AgentAssumption DEF AgentInv, CountInv, serverVars
<1> QED
  BY <1>4, <1>5, <1>6, <1>8, <1>9, <1>10 DEF BaseInv

\* The agent serves: it sends ms, and may have received a message.
AgentServes(ms) ==
  /\ apc = "serving"
  /\ ms \in Seq(UpMsg)
  /\ AgentSend(ws, ms)
  /\ down' \in {down, [down EXCEPT ![ws] = Tail(@)]}
  /\ UNCHANGED <<apc, ws, count, agentEnd, serverEnd, serverVars>>

LEMMA ServesBase ==
  ASSUME BaseInv, NEW ms, AgentServes(ms), RegistryTypes', MapAgrees', ToldStopped',
         subs' = subs, subq' \in [Sub -> Seq(Notification)],
         down' \in [Ws -> Seq(DownMsg)]
  PROVE  BaseInv'
<1>1. ws \in Ws /\ up[ws] \in Seq(UpMsg) /\ spc[ws] # "login"
  BY DEF AgentServes, BaseInv, TypeOK, Types, AgentInv
<1>2. /\ up' = [up EXCEPT ![ws] = Sent(up[ws], serverEnd[ws], ms)]
      /\ Sent(up[ws], serverEnd[ws], ms) \in Seq(UpMsg)
      /\ serverEnd[ws] # "open" => up' = up
  BY <1>1, SentSeq DEF AgentServes, AgentSend, BaseInv, Types
<1>3. TypeOK'
  BY DEF BaseInv, TypeOK, AgentServes, serverVars
<1>4. Types'
  BY <1>2 DEF BaseInv, Types, AgentServes, serverVars
<1>5. TaskInv'
  <2>1. /\ \A w \in Ws : w # ws => up'[w] = up[w] /\ down'[w] = down[w]
        /\ serverEnd[ws] # "open" => up'[ws] = up[ws]
        /\ serverEnd[ws] # "none"
    BY <1>1, <1>2 DEF BaseInv, Types, TypeOK, TaskInv, AgentServes
  <2> QED
    BY <1>1, <2>1 DEF BaseInv, TaskInv, AgentServes, serverVars, Added, Tasks
<1>6. ObjectInv' /\ AgentInv' /\ CountInv'
  BY <1>1 DEF BaseInv, ObjectInv, AgentInv, CountInv, AgentServes, serverVars
<1> QED
  BY <1>3, <1>4, <1>5, <1>6 DEF BaseInv

LEMMA NotificationKinds ==
  ASSUME NEW n \in Notification
  PROVE  \/ \E id \in ProcId : n \in {Start(id), NotRunning(id)}
         \/ \E id \in ProcId : n = Delete(id)
         \/ \E st \in ShutdownState : n = ShutDown(st)
BY DEF Notification, Start, NotRunning, Delete, ShutDown

\* The message for a notification
LEMMA MessageForNotification ==
  ASSUME BaseInv, NEW n \in Notification
  PROVE  /\ notification_to_message(n) \in Seq(UpMsg)
         /\ \A id \in ProcId :
              n \in {Start(id), NotRunning(id)} =>
                notification_to_message(n) =
                  IF procs[id] # None
                  THEN <<ProcResult(id, state[procs[id]])>> ELSE <<>>
         /\ \A id \in ProcId :
              n = Delete(id) => notification_to_message(n) = <<ProcDelete(id)>>
         /\ \A st \in ShutdownState :
              n = ShutDown(st) => notification_to_message(n) = <<ShutDownMsg(st)>>
<1>1. ASSUME NEW id \in ProcId, n \in {Start(id), NotRunning(id)}
      PROVE  /\ notification_to_message(n) =
                  IF procs[id] # None
                  THEN <<ProcResult(id, state[procs[id]])>> ELSE <<>>
             /\ notification_to_message(n) \in Seq(UpMsg)
  <2>1. n[1] \in {"Start", "NotRunning"} /\ n[2] = id
    BY <1>1 DEF Start, NotRunning
  <2>2. notification_to_message(n) =
          IF procs[id] # None THEN <<ProcResult(id, state[procs[id]])>> ELSE <<>>
    BY <2>1 DEF notification_to_message
  <2>3. procs[id] # None => ProcResult(id, state[procs[id]]) \in UpMsg
    BY DEF BaseInv, Types, RegistryTypes, UpMsg, ProcResult
  <2> QED
    BY <2>2, <2>3
<1>2. ASSUME NEW id \in ProcId, n = Delete(id)
      PROVE  /\ notification_to_message(n) = <<ProcDelete(id)>>
             /\ notification_to_message(n) \in Seq(UpMsg)
  <2>1. ProcDelete(id) \in UpMsg
    BY DEF UpMsg, ProcDelete
  <2> QED
    BY <1>2, <2>1 DEF notification_to_message, Delete
<1>3. ASSUME NEW st \in ShutdownState, n = ShutDown(st)
      PROVE  /\ notification_to_message(n) = <<ShutDownMsg(st)>>
             /\ notification_to_message(n) \in Seq(UpMsg)
  <2>1. ShutDownMsg(st) \in UpMsg
    BY DEF UpMsg, ShutDownMsg
  <2> QED
    BY <1>3, <2>1 DEF notification_to_message, ShutDown
<1> QED
  BY <1>1, <1>2, <1>3, NotificationKinds

\* A notification that does not end the loop is forwarded; one that does is
\* sent before the agent leaves.
LEMMA Forwards ==
  ASSUME BaseInv, ForwardNotification, UNCHANGED serverVars
  PROVE  LET q == subq["agent"]
             ms == notification_to_message(Head(q))
         IN  /\ apc = "serving" /\ ws \in Ws
             /\ q \in Seq(Notification) /\ q # <<>>
             /\ Head(q) \in Notification /\ Tail(q) \in Seq(Notification)
             /\ UNCHANGED <<registryVars, missed, count>>
             /\ subq' \in [Sub -> Seq(Notification)]
             /\ \/ /\ Head(q) # ShutDown("done")
                   /\ AgentServes(ms) /\ down' = down
                   /\ subs' = subs /\ subq'["agent"] = Tail(q)
                \/ /\ Head(q) = ShutDown("done")
                   /\ apc' = "exited"
                   /\ AgentLeaves
                   /\ up' = [up EXCEPT ![ws] = Sent(@, serverEnd[ws], ms)]
                   /\ subs' = {}
<1> DEFINE q == subq["agent"]
           ms == notification_to_message(Head(q))
<1>1. /\ apc = "serving" /\ ws \in Ws /\ subs = {"agent"}
      /\ q \in Seq(Notification) /\ q # <<>>
  BY AgentAssumption DEF BaseInv, TypeOK, Types, ForwardNotification
<1>2. Head(q) \in Notification /\ Tail(q) \in Seq(Notification)
  BY <1>1
<1>3. ms \in Seq(UpMsg)
  BY <1>2, MessageForNotification
<1> HIDE DEF ms
<1>4. CASE Head(q) # ShutDown("done")
  <2>1. /\ AgentSend(ws, ms) /\ Recv("agent")
        /\ UNCHANGED <<apc, ws, agentEnd, serverEnd, down, registryVars, count, missed>>
    BY <1>4 DEF ForwardNotification, EndsLoop, ms
  <2>2. AgentServes(ms)
    BY <1>1, <1>3, <2>1 DEF AgentServes
  <2>3. subs' = subs /\ subq' \in [Sub -> Seq(Notification)] /\ subq'["agent"] = Tail(q)
    BY <1>1, <1>2, <2>1, AgentAssumption DEF Recv, BaseInv, Types
  <2> QED
    BY <1>1, <1>2, <1>4, <2>1, <2>2, <2>3 DEF ms
<1>5. CASE Head(q) = ShutDown("done")
  <2>1. /\ apc' = "exited" /\ ws' = None
        /\ agentEnd' = [agentEnd EXCEPT ![ws] = "closed"]
        /\ up' = [up EXCEPT ![ws] = Sent(@, serverEnd[ws], ms)]
        /\ down' = [down EXCEPT ![ws] = <<>>]
        /\ Unsubscribe("agent")
        /\ UNCHANGED <<serverEnd, registryVars, count, missed>>
    BY <1>5 DEF ForwardNotification, EndsLoop, AgentSend, ms
  <2>2. subs' = {} /\ subq' \in [Sub -> Seq(Notification)]
    <3>1. <<>> \in Seq(Notification)
      OBVIOUS
    <3> QED
      BY <1>1, <2>1, <3>1 DEF Unsubscribe, BaseInv, Types
  <2>3. AgentLeaves
    <3>1. up[ws] \in Seq(UpMsg) /\ spc[ws] # "login"
      BY <1>1 DEF BaseInv, Types, AgentInv
    <3>2. /\ Sent(up[ws], serverEnd[ws], ms) \in Seq(UpMsg)
          /\ serverEnd[ws] # "open" => Sent(up[ws], serverEnd[ws], ms) = up[ws]
      BY <1>3, <3>1, SentSeq
    <3>3. spc[ws] \in {"close", "ended"} => serverEnd[ws] = "closed" /\ up[ws] = <<>>
      BY <1>1 DEF BaseInv, TaskInv
    <3> QED
      BY <1>1, <2>1, <3>1, <3>2, <3>3 DEF AgentLeaves, BaseInv, Types
  <2> QED
    BY <1>1, <1>2, <1>5, <2>1, <2>2, <2>3 DEF ms
<1> QED
  BY <1>4, <1>5

LEMMA ForwardBase ==
  ASSUME BaseInv, ForwardNotification, UNCHANGED serverVars
  PROVE  BaseInv'
<1> DEFINE ms == notification_to_message(Head(subq["agent"]))
<1>1. RegistryTypes' /\ MapAgrees' /\ ToldStopped'
  BY Forwards DEF BaseInv, Types, RegistryTypes, MapAgrees, ToldStopped, registryVars
<1>2. CASE AgentServes(ms) /\ down' = down /\ subs' = subs
  BY <1>1, <1>2, Forwards, ServesBase DEF BaseInv, Types
<1>3. CASE apc' = "exited" /\ AgentLeaves /\ subs' = {}
  <2>1. count' = count /\ count < CountMax /\ count \in 0..CountMax
    BY Forwards DEF BaseInv, CountInv, TypeOK
  <2> QED
    BY <1>3, <2>1, Forwards, AgentLeavesBase
<1> QED
  BY <1>2, <1>3, Forwards

\* What a request for the process id does.
Handles(id, ms) ==
  \/ /\ ms = <<>>
     /\ \E c \in Proc, st \in States : StartProc(id, c, st)
  \/ ms = <<>> /\ DeleteProc(id)
  \/ /\ UNCHANGED vars
     /\ \/ ms = <<RequestError(id)>>
        \/ procs[id] # None /\ ms = <<ProcResult(id, state[procs[id]])>>
        \/ procs[id] = None /\ ms = <<ProcUnknown(id)>>

\* A request is handled; one for a start starts, or is an error.
LEMMA RequestHandled ==
  ASSUME BaseInv, HandleMessage, UNCHANGED serverVars
  PROVE  /\ apc = "serving" /\ ws \in Ws /\ missed' = missed
         /\ down[ws] \in Seq(DownMsg) /\ down[ws] # <<>>
         /\ down' = [down EXCEPT ![ws] = Tail(@)]
         /\ \E id \in ProcId, ms \in Seq(UpMsg) :
              /\ AgentServes(ms)
              /\ Handles(id, ms)
              /\ \A i \in ProcId : Head(down[ws]) \in Starts(i) =>
                   /\ i = id
                   /\ ms = <<RequestError(id)>> \/ \E c \in Proc, st \in States :
                                                      StartProc(id, c, st)
<1> DEFINE m == Head(down[ws])
           id == m.id
<1>1. /\ apc = "serving" /\ ws \in Ws
      /\ down[ws] \in Seq(DownMsg) /\ down[ws] # <<>>
  BY DEF HandleMessage, BaseInv, Types, TypeOK
<1>2. /\ down' = [down EXCEPT ![ws] = Tail(@)]
      /\ UNCHANGED <<agentVars, agentEnd, serverEnd>>
  BY DEF HandleMessage
<1>3. m \in DownMsg /\ m.type \in {"ProcStartRequest", "ProcResultRequest",
                                    "ProcDeleteRequest"}
  <2>1. m \in DownMsg
    BY <1>1
  <2> QED
    BY <2>1 DEF HandleMessage, HandleStart, HandleResult, HandleDelete
<1>4. id \in ProcId
  BY <1>3 DEF DownMsg
<1>5. \A i \in ProcId : m \in Starts(i) => i = id /\ m.type = "ProcStartRequest"
  BY DEF Starts, ProcStartRequest
<1>6. /\ <<>> \in Seq(UpMsg) /\ <<RequestError(id)>> \in Seq(UpMsg)
      /\ <<ProcUnknown(id)>> \in Seq(UpMsg)
      /\ procs[id] # None => <<ProcResult(id, state[procs[id]])>> \in Seq(UpMsg)
  <2>1. RequestError(id) \in UpMsg /\ ProcUnknown(id) \in UpMsg
    BY <1>4 DEF UpMsg, RequestError, ProcUnknown
  <2>2. procs[id] # None => ProcResult(id, state[procs[id]]) \in UpMsg
    BY <1>4 DEF UpMsg, ProcResult, BaseInv, Types, RegistryTypes
  <2> QED
    BY <2>1, <2>2
<1> HIDE DEF m
<1>7. \A ms \in Seq(UpMsg) : AgentSend(ws, ms) => AgentServes(ms)
  BY <1>1, <1>2 DEF AgentServes, agentVars
<1> DEFINE Begins(i) == \E c \in Proc, st \in States : StartProc(i, c, st)
           Good(i, ms) == \A k \in ProcId : Head(down[ws]) \in Starts(k) =>
                            k = i /\ (ms = <<RequestError(i)>> \/ Begins(i))
           Goal == \E i \in ProcId, x \in Seq(UpMsg) :
                     AgentServes(x) /\ Handles(i, x) /\ Good(i, x)
<1> HIDE DEF id, Begins, Goal
<1>8. ASSUME NEW ms \in Seq(UpMsg), AgentServes(ms), Handles(id, ms),
             m.type = "ProcStartRequest" => ms = <<RequestError(id)>> \/ Begins(id)
      PROVE  Goal
  <2>1. Good(id, ms)
    BY <1>5, <1>8 DEF m
  <2> QED
    BY <1>4, <1>8, <2>1 DEF Goal
<1>9. ASSUME HandleStart(m) PROVE Goal
  <2>1. \/ Begins(id) /\ AgentSend(ws, <<>>)
        \/ AgentSend(ws, <<RequestError(id)>>) /\ UNCHANGED vars
    BY <1>9 DEF HandleStart, Answer, id, Begins
  <2>2. CASE Begins(id) /\ AgentSend(ws, <<>>)
    <3>1. AgentServes(<<>>) /\ Handles(id, <<>>)
      BY <1>6, <1>7, <2>2 DEF Handles, Begins
    <3> QED
      BY <1>6, <1>8, <2>2, <3>1
  <2>3. CASE AgentSend(ws, <<RequestError(id)>>) /\ UNCHANGED vars
    <3>1. AgentServes(<<RequestError(id)>>) /\ Handles(id, <<RequestError(id)>>)
      BY <1>6, <1>7, <2>3 DEF Handles
    <3> QED
      BY <1>6, <1>8, <2>3, <3>1
  <2> QED
    BY <2>1, <2>2, <2>3
<1>10. ASSUME HandleResult(m) PROVE Goal
  <2>1. m.type # "ProcStartRequest" /\ UNCHANGED vars
    BY <1>10 DEF HandleResult
  <2>2. CASE procs[id] # None
    <3> DEFINE ms == <<ProcResult(id, state[procs[id]])>>
    <3>1. AgentServes(ms) /\ Handles(id, ms)
      BY <1>6, <1>7, <1>10, <2>1, <2>2 DEF Handles, HandleResult, Answer, id
    <3> QED
      BY <1>6, <1>8, <2>1, <2>2, <3>1
  <2>3. CASE procs[id] = None
    <3>1. AgentServes(<<ProcUnknown(id)>>) /\ Handles(id, <<ProcUnknown(id)>>)
      BY <1>6, <1>7, <1>10, <2>1, <2>3 DEF Handles, HandleResult, Answer, id
    <3> QED
      BY <1>6, <1>8, <2>1, <3>1
  <2> QED
    BY <2>2, <2>3
<1>11. ASSUME HandleDelete(m) PROVE Goal
  <2>1. /\ m.type # "ProcStartRequest"
        /\ \/ DeleteProc(id) /\ AgentSend(ws, <<>>)
           \/ AgentSend(ws, <<RequestError(id)>>) /\ UNCHANGED vars
           \/ procs[id] = None /\ AgentSend(ws, <<ProcUnknown(id)>>) /\ UNCHANGED vars
    BY <1>11 DEF HandleDelete, Answer, id
  <2>2. CASE DeleteProc(id) /\ AgentSend(ws, <<>>)
    <3>1. AgentServes(<<>>) /\ Handles(id, <<>>)
      BY <1>6, <1>7, <2>2 DEF Handles
    <3> QED
      BY <1>6, <1>8, <2>1, <3>1
  <2>3. CASE AgentSend(ws, <<RequestError(id)>>) /\ UNCHANGED vars
    <3>1. AgentServes(<<RequestError(id)>>) /\ Handles(id, <<RequestError(id)>>)
      BY <1>6, <1>7, <2>3 DEF Handles
    <3> QED
      BY <1>6, <1>8, <2>1, <3>1
  <2>4. CASE procs[id] = None /\ AgentSend(ws, <<ProcUnknown(id)>>) /\ UNCHANGED vars
    <3>1. AgentServes(<<ProcUnknown(id)>>) /\ Handles(id, <<ProcUnknown(id)>>)
      BY <1>6, <1>7, <2>4 DEF Handles
    <3> QED
      BY <1>6, <1>8, <2>1, <3>1
  <2> QED
    BY <2>1, <2>2, <2>3, <2>4
<1>12. HandleStart(m) \/ HandleResult(m) \/ HandleDelete(m)
  BY DEF HandleMessage, m
<1>13. Goal
  BY <1>9, <1>10, <1>11, <1>12
<1> QED
  BY <1>1, <1>2, <1>13 DEF agentVars, Begins, Goal

LEMMA HandleBase ==
  ASSUME BaseInv, HandleMessage, UNCHANGED serverVars
  PROVE  BaseInv'
<1>1. PICK id \in ProcId, ms \in Seq(UpMsg) : AgentServes(ms) /\ Handles(id, ms)
  BY RequestHandled
<1>2. down' \in [Ws -> Seq(DownMsg)]
  <2>1. Tail(down[ws]) \in Seq(DownMsg)
    BY RequestHandled
  <2> QED
    BY <2>1, RequestHandled DEF BaseInv, Types
<1>3. CASE UNCHANGED vars
  <2>1. /\ RegistryTypes' /\ MapAgrees' /\ ToldStopped' /\ subs' = subs
        /\ subq' \in [Sub -> Seq(Notification)]
    BY <1>3 DEF BaseInv, Types, RegistryTypes, MapAgrees, ToldStopped, vars,
       registryVars, notifyVars
  <2> QED
    BY <1>1, <1>2, <2>1, ServesBase
<1>4. CASE \E ns : SystemOp(ns)
  <2>1. /\ RegistryTypes' /\ MapAgrees' /\ ToldStopped' /\ subs' = subs
        /\ subq' \in [Sub -> Seq(Notification)]
    BY <1>4, RegistryBase
  <2> QED
    BY <1>1, <1>2, <2>1, ServesBase
<1>5. ASSUME NEW c \in Proc, NEW st \in States, StartProc(id, c, st)
      PROVE  SystemOp(<<Start(id)>>)
  BY <1>5 DEF SystemOp
<1>6. ASSUME DeleteProc(id)
      PROVE  SystemOp(CheckIdlingSends(procs', shutdown) \o <<Delete(id)>>)
  BY <1>6 DEF SystemOp
<1> QED
  BY <1>1, <1>3, <1>4, <1>5, <1>6 DEF Handles

-----------------------------------------------------------------------------
(* The steps of the server *)

\* They leave the agent's side as it is.
LEMMA AgentSideKept ==
  ASSUME BaseInv, UNCHANGED agentSide
  PROVE  /\ RegistryTypes' /\ MapAgrees' /\ ToldStopped' /\ CountInv'
         /\ subq' \in [Sub -> Seq(Notification)]
         /\ UNCHANGED <<apc, ws, count, missed, subs, subq, procs, shutdown, state>>
  BY DEF BaseInv, Types, RegistryTypes, MapAgrees, ToldStopped, CountInv, agentSide,
     agentVars, vars, registryVars, notifyVars

\* An end of the server goes away.
ServerLeaves(w) ==
  /\ serverEnd' = [serverEnd EXCEPT ![w] = "closed"]
  /\ agentEnd' = agentEnd
  /\ up' \in [Ws -> Seq(UpMsg)] /\ down' \in [Ws -> Seq(DownMsg)]
  /\ \A v \in Ws : v # w => up'[v] = up[v] /\ down'[v] = down[v]
  /\ up[w] = <<>> => up'[w] = <<>>
  /\ down[w] = <<>> => down'[w] = <<>>
  /\ \A A : Has(up'[w], A) => Has(up[w], A)
  /\ ~Late => up'[w] = <<>>

LEMMA ServerCloses ==
  ASSUME BaseInv, NEW w \in Ws, CloseServerEnd(w) \/ LeaveServerEnd(w)
  PROVE  /\ ServerLeaves(w)
         /\ LeaveServerEnd(w) => up'[w] = <<>>
<1>1. /\ up \in [Ws -> Seq(UpMsg)] /\ up[w] \in Seq(UpMsg)
      /\ down \in [Ws -> Seq(DownMsg)] /\ down[w] \in Seq(DownMsg)
      /\ <<>> \in Seq(UpMsg)
  BY DEF BaseInv, Types
<1>2. PICK d \in Arrives(down[w]) : down' = [down EXCEPT ![w] = d]
  BY DEF CloseServerEnd, LeaveServerEnd
<1>3. d \in Seq(DownMsg) /\ (down[w] = <<>> => d = <<>>)
  BY <1>1, ArrivesPrefix
<1>4. /\ \A v \in Ws : v # w => down'[v] = down[v]
      /\ down[w] = <<>> => down'[w] = <<>>
      /\ down' \in [Ws -> Seq(DownMsg)]
  BY <1>1, <1>2, <1>3
<1>5. serverEnd' = [serverEnd EXCEPT ![w] = "closed"] /\ agentEnd' = agentEnd
  BY DEF CloseServerEnd, LeaveServerEnd
<1>6. CASE LeaveServerEnd(w)
  <2>1. up' = [up EXCEPT ![w] = <<>>]
    BY <1>6 DEF LeaveServerEnd
  <2>2. up' \in [Ws -> Seq(UpMsg)] /\ up'[w] = <<>> /\ \A v \in Ws : v # w => up'[v] = up[v]
    BY <1>1, <2>1
  <2> QED
    BY <1>4, <1>5, <2>2, HasOne DEF ServerLeaves
<1>7. CASE CloseServerEnd(w) /\ ~LeaveServerEnd(w)
  <2>1. PICK q \in Arrives(up[w]) : up' = [up EXCEPT ![w] = q]
    BY <1>7 DEF CloseServerEnd
  <2>2. q \in Seq(UpMsg) /\ (up[w] = <<>> => q = <<>>) /\ (~Late => q = <<>>)
    BY <1>1, ArrivesPrefix
  <2>3. \A A : Has(q, A) => Has(up[w], A)
    BY <1>1, HasPrefix
  <2>4. up' \in [Ws -> Seq(UpMsg)] /\ up'[w] = q /\ \A v \in Ws : v # w => up'[v] = up[v]
    BY <1>1, <2>1, <2>2
  <2> QED
    BY <1>4, <1>5, <1>7, <2>2, <2>3, <2>4 DEF ServerLeaves
<1> QED
  BY <1>6, <1>7

\* A serve task closes its websocket, before or after it has added it.
LEMMA TaskClosesBase ==
  ASSUME BaseInv, NEW w \in Ws, ServerLeaves(w), up'[w] = <<>>,
         UNCHANGED <<agentSide, register, taskConn, done, connState, procState,
                     appState, popFailed>>,
         todo' \in [Ws -> SUBSET ProcId],
         \/ spc[w] = "login" /\ spc' = [spc EXCEPT ![w] = "ended"]
         \/ spc[w] \in {"request", "recv"} /\ spc' = [spc EXCEPT ![w] = "close"],
         serverEnd[w] # "none"
  PROVE  BaseInv'
<1>1. TypeOK'
  BY AgentSideKept DEF BaseInv, TypeOK, ServerLeaves, connState, procState, End
<1>2. Types'
  BY AgentSideKept DEF BaseInv, Types, ServerLeaves, connState, procState, appState,
     Added, Tasks
<1>3. TaskInv'
  BY DEF BaseInv, TypeOK, Types, TaskInv, ServerLeaves, connState, Added, Tasks
<1>4. ObjectInv'
  <2>1. \A v \in Ws : spc[v] \in Added => spc'[v] \in Added
    BY DEF BaseInv, Types, Added, Tasks
  <2> QED
    BY <2>1 DEF BaseInv, TypeOK, ObjectInv, connState, procState, appState
<1>5. AgentInv'
  <2>1. UNCHANGED <<apc, ws>>
    BY AgentSideKept
  <2>2. spc'[w] # "login" /\ serverEnd'[w] = "closed"
    BY DEF BaseInv, TypeOK, Types, ServerLeaves
  <2>3. \A v \in Ws : v # w =>
          spc'[v] = spc[v] /\ serverEnd'[v] = serverEnd[v] /\ up'[v] = up[v]
    BY DEF BaseInv, TypeOK, Types, ServerLeaves
  <2>4. CASE ws = w
    BY <2>1, <2>2, <2>4 DEF AgentInv
  <2>5. CASE ws \in Ws /\ ws # w
    BY <2>1, <2>3, <2>5 DEF BaseInv, AgentInv
  <2>6. CASE ws = None
    BY <2>1, <2>6 DEF AgentInv, BaseInv, TypeOK
  <2> QED
    BY <2>4, <2>5, <2>6 DEF BaseInv, TypeOK
<1> QED
  BY <1>1, <1>2, <1>3, <1>4, <1>5, AgentSideKept DEF BaseInv

LEMMA TaskEndsBase ==
  ASSUME BaseInv, UNCHANGED agentSide, NEW w \in Ws, LoginFails(w) \/ ServerSeesEnd(w)
  PROVE  BaseInv'
<1>1. LeaveServerEnd(w)
  BY DEF LoginFails, ServerSeesEnd
<1>2. ServerLeaves(w) /\ up'[w] = <<>>
  BY <1>1, ServerCloses
<1>3. /\ UNCHANGED <<register, todo, taskConn, done, connState, procState, appState, popFailed>>
      /\ \/ spc[w] = "login" /\ spc' = [spc EXCEPT ![w] = "ended"]
         \/ spc[w] \in {"request", "recv"} /\ spc' = [spc EXCEPT ![w] = "close"]
  BY DEF LoginFails, ServerSeesEnd
<1>4. serverEnd[w] # "none"
  BY DEF BaseInv, TaskInv, LoginFails, ServerSeesEnd
<1> QED
  BY <1>2, <1>3, <1>4, TaskClosesBase DEF BaseInv, Types

LEMMA LoginBase ==
  ASSUME BaseInv, UNCHANGED agentSide, NEW w \in Ws, Login(w)
  PROVE  BaseInv'
<1>1. /\ spc[w] = "login" /\ serverEnd[w] = "open"
      /\ up[w] \in Seq(UpMsg) /\ up[w] # <<>> /\ Len(up[w]) = 1
      /\ up[w][1] \in RegisterMsg
  BY DEF Login, BaseInv, Types, TaskInv
<1>2. Head(up[w]) \in RegisterMsg /\ Tail(up[w]) = <<>> /\ <<>> \in Seq(UpMsg)
  <2>1. Head(up[w]) = up[w][1]
    BY <1>1
  <2>2. Tail(up[w]) \in Seq(UpMsg) /\ Len(Tail(up[w])) = 0
    BY <1>1
  <2>3. Tail(up[w]) = <<>>
    BY <2>2, LengthZero
  <2> QED
    BY <1>1, <2>1, <2>3
<1>3. /\ down[w] \in Seq(DownMsg)
      /\ Sent(down[w], agentEnd[w], <<Registered>>) \in Seq(DownMsg)
  <2>1. <<Registered>> \in Seq(DownMsg)
    BY DEF Registered, DownMsg
  <2> QED
    BY <2>1, SentSeq DEF BaseInv, Types
<1> DEFINE d == Sent(down[w], agentEnd[w], <<Registered>>)
<1>4. /\ register' = [register EXCEPT ![w] = Head(up[w])]
      /\ up' = [up EXCEPT ![w] = <<>>]
      /\ down' = [down EXCEPT ![w] = d]
      /\ spc' = [spc EXCEPT ![w] = "add"]
      /\ UNCHANGED <<agentEnd, serverEnd, todo, taskConn, done, connState, procState,
                     appState, popFailed>>
  BY <1>2 DEF Login
<1> HIDE DEF d
<1>5. TypeOK'
  BY <1>4, AgentSideKept DEF BaseInv, TypeOK, connState, procState
<1>6. Types'
  BY <1>2, <1>3, <1>4, AgentSideKept DEF BaseInv, Types, connState, procState, appState, d
<1>7. TaskInv'
  BY <1>1, <1>2, <1>4 DEF BaseInv, TypeOK, Types, TaskInv, connState, Added, Tasks
<1>8. ObjectInv'
  <2>1. \A v \in Ws : spc[v] \in Added => spc'[v] \in Added
    BY <1>1, <1>4 DEF BaseInv, Types, Added, Tasks
  <2> QED
    BY <1>4, <2>1 DEF BaseInv, TypeOK, ObjectInv, connState, procState, appState
<1>9. AgentInv'
  BY <1>1, <1>4, AgentSideKept DEF BaseInv, TypeOK, Types, AgentInv
<1> QED
  BY <1>5, <1>6, <1>7, <1>8, <1>9, AgentSideKept DEF BaseInv

\* What _add() and the reconciliation do, with the Connection object o.
LEMMA Adds ==
  ASSUME BaseInv, NEW w \in Ws, AddAndReconcile(w)
  PROVE  LET o == ConnectionFor(w)
             ids == register[w].ids
         IN  /\ spc[w] = "add" /\ register[w] \in RegisterMsg /\ o \in Ws
             /\ (conn # None => o = conn)
             /\ conn' = o
             /\ connWs' = [connWs EXCEPT ![o] = w]
             /\ connShut' = [connShut EXCEPT ![o] = register[w].st]
             /\ timer' = timer \ {o}
             /\ closing' \in SUBSET Ws
             /\ \A v \in Ws : v \in closing' <=>
                  \/ v \in closing
                  \/ conn # None /\ v = connWs[conn] /\ serverEnd[v] # "closed"
             /\ taskConn' = [taskConn EXCEPT ![w] = o]
             /\ processes' \in [ProcId -> Ws \cup {None}]
             /\ \A id \in ProcId :
                  /\ (processes'[id] # None) <=> (id \in ids)
                  /\ processes'[id] \in {None, o, processes[id]}
             /\ heard' \in [ProcId -> SUBSET {"final", "deleted", "unknown", "error",
                                              "timeout"}]
             /\ \A id \in ProcId : "error" \in heard'[id] <=> "error" \in heard[id]
             /\ todo' \in [Ws -> SUBSET ProcId]
             /\ spc' = [spc EXCEPT ![w] = "request"]
             /\ register' = [register EXCEPT ![w] = None]
             /\ UNCHANGED <<wireVars, done, appState, popFailed>>
<1> DEFINE o == ConnectionFor(w)
           ids == register[w].ids
           ours == {id \in ProcId : processes[id] # None}
<1>1. spc[w] = "add" /\ register[w] \in RegisterMsg
  BY DEF AddAndReconcile, BaseInv, TaskInv
<1>2. o \in Ws /\ (conn # None => o = conn)
  BY DEF ConnectionFor, BaseInv, TypeOK
<1>3. ids \subseteq ProcId /\ register[w].st \in ShutdownState
  BY <1>1 DEF RegisterMsg
<1>4. /\ conn' = o
      /\ connWs' = [connWs EXCEPT ![o] = w]
      /\ connShut' = [connShut EXCEPT ![o] = register[w].st]
      /\ timer' = timer \ {o}
      /\ closing' = closing \cup ReplacedWs(w)
      /\ taskConn' = [taskConn EXCEPT ![w] = o]
      /\ processes' = [id \in ProcId |-> IF id \in ids \ ours THEN o
                                         ELSE IF id \in ours \ ids THEN None
                                         ELSE processes[id]]
      /\ heard' = [id \in ProcId |-> IF id \in ours \ ids
                                     THEN heard[id] \cup {"unknown"} ELSE heard[id]]
      /\ todo' = [todo EXCEPT ![w] = ids \cap ours]
      /\ spc' = [spc EXCEPT ![w] = "request"]
      /\ register' = [register EXCEPT ![w] = None]
      /\ UNCHANGED <<wireVars, done, appState, popFailed>>
  BY DEF AddAndReconcile, NewWs, ToCreate, ToDrop, ToRequest
<1> HIDE DEF o
<1>5. /\ processes' \in [ProcId -> Ws \cup {None}]
      /\ \A id \in ProcId : /\ (processes'[id] # None) <=> (id \in ids)
                            /\ processes'[id] \in {None, o, processes[id]}
  BY <1>2, <1>3, <1>4, AgentAssumption DEF BaseInv, TypeOK
<1>6. /\ heard' \in [ProcId -> SUBSET {"final", "deleted", "unknown", "error", "timeout"}]
      /\ \A id \in ProcId : "error" \in heard'[id] <=> "error" \in heard[id]
  BY <1>4 DEF BaseInv, TypeOK
<1>7. todo' \in [Ws -> SUBSET ProcId]
  BY <1>3, <1>4 DEF BaseInv, Types
<1>8. /\ closing' \in SUBSET Ws
      /\ \A v \in Ws : v \in closing' <=>
           \/ v \in closing
           \/ conn # None /\ v = connWs[conn] /\ serverEnd[v] # "closed"
  <2>1. conn # None => conn \in Ws /\ connWs[conn] \in Ws
    BY DEF BaseInv, TypeOK, ObjectInv
  <2> QED
    BY <1>4, <2>1 DEF ReplacedWs, BaseInv, TypeOK
<1> QED
  BY <1>1, <1>2, <1>4, <1>5, <1>6, <1>7, <1>8 DEF o

LEMMA AddBase ==
  ASSUME BaseInv, UNCHANGED agentSide, NEW w \in Ws, AddAndReconcile(w)
  PROVE  BaseInv'
<1> DEFINE o == ConnectionFor(w)
<1>1. o \in Ws /\ conn' = o /\ connWs' = [connWs EXCEPT ![o] = w] /\ spc[w] = "add"
      /\ spc' = [spc EXCEPT ![w] = "request"] /\ taskConn' = [taskConn EXCEPT ![w] = o]
      /\ UNCHANGED <<wireVars, done, appState, popFailed>>
      /\ register' = [register EXCEPT ![w] = None] /\ register[w] \in RegisterMsg
      /\ timer' = timer \ {o}
      /\ connShut' = [connShut EXCEPT ![o] = register[w].st]
  BY Adds
<1> HIDE DEF o
<1>2. TypeOK'
  <2>1. connWs' \in [Ws -> Ws \cup {None}] /\ conn' \in Ws \cup {None} /\ timer' \subseteq Ws
    BY <1>1 DEF BaseInv, TypeOK
  <2> QED
    BY <1>1, <2>1, AgentSideKept, Adds DEF BaseInv, TypeOK, wireVars
<1>3. Types'
  <2>1. register[w].st \in ShutdownState
    BY <1>1 DEF RegisterMsg
  <2> QED
    BY <1>1, <2>1, AgentSideKept, Adds DEF BaseInv, Types, wireVars, appState, Added, Tasks
<1>4. \A v \in Ws : spc[v] \in Added \/ v = w => spc'[v] \in Added
  BY <1>1 DEF BaseInv, Types, Added, Tasks
<1>5. TaskInv'
  <2>1. ASSUME NEW v \in Ws, v \in closing' PROVE spc'[v] \in Added
    <3>1. v \in closing \/ (conn # None /\ v = connWs[conn])
      BY <2>1, Adds
    <3>2. conn # None /\ v = connWs[conn] => conn \in Ws /\ connWs[conn] # None
      BY DEF BaseInv, TypeOK, ObjectInv
    <3>3. spc[v] \in Added
      BY <3>1, <3>2 DEF BaseInv, TaskInv, ObjectInv
    <3> QED
      BY <1>4, <3>3
  <2> QED
    BY <1>1, <2>1, AgentAssumption DEF BaseInv, TypeOK, Types, TaskInv, wireVars, Added, Tasks
<1>6. ObjectInv'
  <2>1. \A x \in Ws : connWs[x] # None \/ x = o => connWs'[x] # None
    BY <1>1, AgentAssumption DEF BaseInv, TypeOK
  <2>2. \A x \in Ws : connWs'[x] # None => spc'[connWs'[x]] \in Added
    BY <1>1, <1>4 DEF BaseInv, TypeOK, ObjectInv
  <2>3. \A v \in Ws : taskConn'[v] # None => connWs'[taskConn'[v]] # None
    BY <1>1, <2>1 DEF BaseInv, Types, ObjectInv
  <2>4. \A x \in timer' : connWs'[x] # None
    BY <1>1, <2>1 DEF BaseInv, TypeOK, ObjectInv
  <2>5. \A id \in ProcId :
          /\ processes'[id] # None => connWs'[processes'[id]] # None
          /\ chosen'[id] # None => connWs'[chosen'[id]] # None
          /\ started'[id] \in {"chosen", "chosen again", "sent"} => chosen'[id] # None
    <3>1. \A id \in ProcId : processes'[id] \in {None, o, processes[id]}
      BY Adds DEF o
    <3>2. ASSUME NEW id \in ProcId, processes'[id] # None
          PROVE  connWs'[processes'[id]] # None
      <4>1. CASE processes'[id] = o
        BY <1>1, <2>1, <4>1
      <4>2. CASE processes'[id] = processes[id]
        <5>1. processes[id] \in Ws /\ connWs[processes[id]] # None
          BY <3>2, <4>2 DEF BaseInv, TypeOK, ObjectInv
        <5> QED
          BY <2>1, <4>2, <5>1
      <4> QED
        BY <3>1, <3>2, <4>1, <4>2
    <3>3. ASSUME NEW id \in ProcId, chosen[id] # None PROVE connWs'[chosen[id]] # None
      BY <2>1, <3>3 DEF BaseInv, Types, ObjectInv
    <3> QED
      BY <1>1, <3>2, <3>3 DEF BaseInv, ObjectInv, appState
  <2> QED
    BY <1>1, <2>1, <2>2, <2>3, <2>4, <2>5 DEF ObjectInv
<1>7. AgentInv'
  BY <1>1, AgentSideKept DEF BaseInv, TypeOK, Types, AgentInv, wireVars
<1> QED
  BY <1>2, <1>3, <1>5, <1>6, <1>7, AgentSideKept DEF BaseInv

Heard == {"final", "deleted", "unknown", "error", "timeout"}

\* A step that leaves the ends and the tasks as they are.
LEMMA SameTasksBase ==
  ASSUME BaseInv,
         UNCHANGED <<agentSide, agentEnd, serverEnd, up, spc, register, taskConn, done,
                     connWs, connShut, closing>>,
         down' \in [Ws -> Seq(DownMsg)],
         \A v \in Ws : spc[v] = "login" => down'[v] = down[v],
         conn' \in {conn, None}, timer' \subseteq timer,
         todo' \in [Ws -> SUBSET ProcId],
         heard' \in [ProcId -> SUBSET Heard],
         popFailed' \in BOOLEAN,
         processes' \in [ProcId -> Ws \cup {None}],
         chosen' \in [ProcId -> Ws \cup {None}],
         started' \in [ProcId -> StartState],
         \A id \in ProcId :
           /\ processes'[id] \in {None, processes[id], chosen[id]}
           /\ chosen'[id] \in {None, chosen[id], conn}
           /\ started'[id] \in {"chosen", "chosen again", "sent"} => chosen'[id] # None
  PROVE  BaseInv'
<1>1. TypeOK'
  BY AgentSideKept DEF BaseInv, TypeOK, Heard
<1>2. Types'
  BY AgentSideKept DEF BaseInv, Types
<1>3. TaskInv'
  BY DEF BaseInv, TaskInv
<1>4. ObjectInv'
  <2>1. ASSUME NEW id \in ProcId, processes'[id] # None
        PROVE  connWs'[processes'[id]] # None
    BY <2>1 DEF BaseInv, ObjectInv
  <2>2. ASSUME NEW id \in ProcId, chosen'[id] # None
        PROVE  connWs'[chosen'[id]] # None
    BY <2>2 DEF BaseInv, ObjectInv
  <2> QED
    BY <2>1, <2>2 DEF BaseInv, ObjectInv
<1>5. AgentInv'
  BY AgentSideKept DEF BaseInv, AgentInv
<1> QED
  BY <1>1, <1>2, <1>3, <1>4, <1>5, AgentSideKept DEF BaseInv

\* A message is sent on the websocket of a Connection object in use.
LEMMA SendsBase ==
  ASSUME BaseInv, NEW o \in Ws, connWs[o] # None, NEW m \in DownMsg,
         ServerSend(connWs[o], <<m>>)
  PROVE  /\ connWs[o] \in Ws
         /\ down' \in [Ws -> Seq(DownMsg)]
         /\ \A v \in Ws : v # connWs[o] => down'[v] = down[v]
         /\ \A v \in Ws : spc[v] = "login" => down'[v] = down[v]
         /\ UNCHANGED <<agentEnd, serverEnd, up>>
         /\ down'[connWs[o]] = Sent(down[connWs[o]], agentEnd[connWs[o]], <<m>>)
<1> DEFINE w == connWs[o]
<1>1. w \in Ws /\ spc[w] \in Added
  BY DEF BaseInv, TypeOK, ObjectInv
<1>2. down[w] \in Seq(DownMsg) /\ <<m>> \in Seq(DownMsg) /\ down \in [Ws -> Seq(DownMsg)]
  BY <1>1 DEF BaseInv, Types
<1>3. Sent(down[w], agentEnd[w], <<m>>) \in Seq(DownMsg)
  BY <1>2, SentSeq
<1>4. /\ down' = [down EXCEPT ![w] = Sent(down[w], agentEnd[w], <<m>>)]
      /\ UNCHANGED <<agentEnd, serverEnd, up>>
  BY DEF ServerSend
<1> HIDE DEF w
<1>5. /\ down' \in [Ws -> Seq(DownMsg)]
      /\ \A v \in Ws : v # w => down'[v] = down[v]
      /\ down'[w] = Sent(down[w], agentEnd[w], <<m>>)
  BY <1>1, <1>2, <1>3, <1>4
<1>6. spc[w] # "login"
  BY <1>1 DEF Added, Tasks
<1> QED
  BY <1>1, <1>4, <1>5, <1>6 DEF w

LEMMA TimeoutBase ==
  ASSUME BaseInv, UNCHANGED agentSide, NEW o \in Ws, ReconnectTimesOut(o)
  PROVE  BaseInv'
<1>1. /\ UNCHANGED <<wireVars, taskState, connWs, connShut, closing, processes, appState>>
      /\ conn' \in {conn, None} /\ timer' \subseteq timer
  BY DEF ReconnectTimesOut
<1>2. heard' \in [ProcId -> SUBSET Heard]
  BY DEF ReconnectTimesOut, BaseInv, TypeOK, Heard
<1>3. popFailed' \in BOOLEAN
  BY DEF ReconnectTimesOut, BaseInv, Types
<1> QED
  BY <1>1, <1>2, <1>3, SameTasksBase DEF BaseInv, TypeOK, Types, ObjectInv, wireVars,
     taskState, appState

LEMMA ChooseBase ==
  ASSUME BaseInv, UNCHANGED agentSide, NEW id \in ProcId, ChooseConnection(id)
  PROVE  BaseInv'
<1>1. /\ UNCHANGED <<wireVars, taskState, connState, procState, deleting, popFailed>>
      /\ conn \in Ws /\ conn # None
      /\ chosen' = [chosen EXCEPT ![id] = conn]
      /\ \A i \in ProcId : i # id => started'[i] = started[i]
      /\ started' \in [ProcId -> StartState]
  BY DEF ChooseConnection, BaseInv, TypeOK, Types, StartState
<1>2. /\ chosen' \in [ProcId -> Ws \cup {None}]
      /\ \A i \in ProcId :
           /\ chosen'[i] \in {None, chosen[i], conn}
           /\ started'[i] \in {"chosen", "chosen again", "sent"} => chosen'[i] # None
  BY <1>1 DEF BaseInv, Types, ObjectInv
<1> QED
  BY <1>1, <1>2, SameTasksBase DEF BaseInv, TypeOK, Types, wireVars,
     taskState, connState, procState, Heard

\* Processes.create()
LEMMA Creates ==
  ASSUME BaseInv, NEW id \in ProcId, chosen[id] \in Ws, NEW pc,
         pc \in {"created", "created late"}, Create(id, chosen[id], pc)
  PROVE  /\ processes' \in [ProcId -> Ws \cup {None}]
         /\ chosen' \in [ProcId -> Ws \cup {None}]
         /\ started' \in [ProcId -> StartState]
         /\ \A i \in ProcId :
              /\ processes'[i] \in {processes[i], chosen[i]}
              /\ i # id => processes'[i] = processes[i]
              /\ chosen'[i] \in {None, chosen[i], conn}
              /\ started'[i] \in {"chosen", "chosen again", "sent"} => chosen'[i] # None
<1>1. chosen' = [chosen EXCEPT ![id] = None]
  BY DEF Create
<1>2. PICK next \in {pc, "assert"} : started' = [started EXCEPT ![id] = next]
  BY DEF Create
<1>3. processes' = processes \/ processes' = [processes EXCEPT ![id] = chosen[id]]
  BY DEF Create
<1>4. chosen' \in [ProcId -> Ws \cup {None}] /\ started' \in [ProcId -> StartState]
  BY <1>1, <1>2 DEF BaseInv, Types, StartState
<1>5. /\ processes' \in [ProcId -> Ws \cup {None}]
      /\ \A i \in ProcId : /\ processes'[i] \in {processes[i], chosen[i]}
                           /\ i # id => processes'[i] = processes[i]
  BY <1>3 DEF BaseInv, TypeOK
<1>6. \A i \in ProcId :
        /\ chosen'[i] \in {None, chosen[i], conn}
        /\ started'[i] \in {"chosen", "chosen again", "sent"} => chosen'[i] # None
  BY <1>1, <1>2 DEF BaseInv, Types, ObjectInv
<1> QED
  BY <1>4, <1>5, <1>6

LEMMA CreateBase ==
  ASSUME BaseInv, UNCHANGED agentSide, NEW id \in ProcId, CreateProcess(id)
  PROVE  BaseInv'
<1>1. /\ UNCHANGED <<wireVars, taskState, connState, heard, deleting, popFailed>>
      /\ chosen[id] \in Ws
      /\ Create(id, chosen[id], "created late")
  BY DEF CreateProcess, BaseInv, Types, ObjectInv
<1>2. /\ processes' \in [ProcId -> Ws \cup {None}]
      /\ chosen' \in [ProcId -> Ws \cup {None}]
      /\ started' \in [ProcId -> StartState]
      /\ \A i \in ProcId :
           /\ processes'[i] \in {processes[i], chosen[i]}
           /\ chosen'[i] \in {None, chosen[i], conn}
           /\ started'[i] \in {"chosen", "chosen again", "sent"} => chosen'[i] # None
  BY <1>1, Creates
<1> QED
  BY <1>1, <1>2, SameTasksBase DEF BaseInv, TypeOK, Types, wireVars, taskState,
     connState, Heard

\* The request to start is sent on the Connection chosen, if it is open, and
\* the Process created or, after a suspended send, to be created.
LEMMA StartSent ==
  ASSUME BaseInv, NEW id \in ProcId, SendStart(id)
  PROVE  /\ chosen[id] \in Ws /\ connWs[chosen[id]] \in Ws
         /\ UNCHANGED <<agentEnd, serverEnd, up, taskState, connState, heard, popFailed>>
         /\ down' \in [Ws -> Seq(DownMsg)]
         /\ \A v \in Ws : spc[v] = "login" => down'[v] = down[v]
         /\ processes' \in [ProcId -> Ws \cup {None}]
         /\ chosen' \in [ProcId -> Ws \cup {None}]
         /\ started' \in [ProcId -> StartState]
         /\ \A i \in ProcId :
              /\ processes'[i] \in {processes[i], chosen[i]}
              /\ i # id => processes'[i] = processes[i]
              /\ chosen'[i] \in {None, chosen[i], conn}
              /\ started'[i] \in {"chosen", "chosen again", "sent"} => chosen'[i] # None
         /\ \/ \E valid \in BOOLEAN :
                 ServerSend(connWs[chosen[id]], <<ProcStartRequest(id, valid)>>)
            \/ processes' = processes /\ down' = down
<1>1. /\ chosen[id] \in Ws /\ connWs[chosen[id]] # None
      /\ connWs[chosen[id]] \in Ws
  BY DEF SendStart, BaseInv, TypeOK, Types, ObjectInv
<1>2. UNCHANGED <<taskState, connState, heard, popFailed>>
  BY DEF SendStart
<1>3. CASE Open(chosen[id])
  <2>1. PICK valid \in BOOLEAN :
          ServerSend(connWs[chosen[id]], <<ProcStartRequest(id, valid)>>)
    BY <1>3 DEF SendStart
  <2>2. ProcStartRequest(id, valid) \in DownMsg
    BY DEF ProcStartRequest, DownMsg
  <2>3. /\ UNCHANGED <<agentEnd, serverEnd, up>>
        /\ down' \in [Ws -> Seq(DownMsg)]
        /\ \A v \in Ws : spc[v] = "login" => down'[v] = down[v]
    BY <1>1, <2>1, <2>2, SendsBase
  <2>4. CASE Create(id, chosen[id], "created")
    BY <1>1, <1>2, <2>1, <2>3, <2>4, Creates
  <2>5. CASE /\ started' = [started EXCEPT ![id] = "sent"]
             /\ UNCHANGED <<processes, chosen>>
    <3>1. /\ started' \in [ProcId -> StartState]
          /\ \A i \in ProcId :
               started'[i] \in {"chosen", "chosen again", "sent"} => chosen'[i] # None
      BY <1>1, <2>5, AgentAssumption DEF BaseInv, Types, ObjectInv, StartState
    <3> QED
      BY <1>1, <1>2, <2>1, <2>3, <2>5, <3>1 DEF BaseInv, Types, TypeOK
  <2> QED
    BY <1>3, <2>4, <2>5 DEF SendStart
<1>4. CASE ~Open(chosen[id])
  <2>1. PICK pc \in AfterNotOpen(started[id]) : started' = [started EXCEPT ![id] = pc]
    BY <1>4 DEF SendStart
  <2>2. chosen' = [chosen EXCEPT ![id] = None] /\ UNCHANGED <<wireVars, processes>>
    BY <1>4 DEF SendStart
  <2>3. pc \in {"retry", "failed"}
    BY DEF AfterNotOpen
  <2>4. /\ started' \in [ProcId -> StartState]
        /\ chosen' \in [ProcId -> Ws \cup {None}]
        /\ \A i \in ProcId :
             /\ chosen'[i] \in {None, chosen[i], conn}
             /\ started'[i] \in {"chosen", "chosen again", "sent"} => chosen'[i] # None
    BY <2>1, <2>2, <2>3 DEF BaseInv, Types, ObjectInv, StartState
  <2> QED
    BY <1>1, <1>2, <2>2, <2>4 DEF BaseInv, TypeOK, Types, wireVars
<1> QED
  BY <1>3, <1>4

LEMMA SendStartBase ==
  ASSUME BaseInv, UNCHANGED agentSide, NEW id \in ProcId, SendStart(id)
  PROVE  BaseInv'
<1>1. /\ UNCHANGED <<agentEnd, serverEnd, up, taskState, connState, heard, popFailed>>
      /\ down' \in [Ws -> Seq(DownMsg)]
      /\ \A v \in Ws : spc[v] = "login" => down'[v] = down[v]
      /\ processes' \in [ProcId -> Ws \cup {None}]
      /\ chosen' \in [ProcId -> Ws \cup {None}]
      /\ started' \in [ProcId -> StartState]
      /\ \A i \in ProcId :
           /\ processes'[i] \in {processes[i], chosen[i]}
           /\ chosen'[i] \in {None, chosen[i], conn}
           /\ started'[i] \in {"chosen", "chosen again", "sent"} => chosen'[i] # None
  BY StartSent
<1> QED
  BY <1>1, SameTasksBase DEF BaseInv, TypeOK, Types, taskState, connState, Heard

LEMMA DeleteBase ==
  ASSUME BaseInv, UNCHANGED agentSide, NEW id \in ProcId, DeleteProcess(id)
  PROVE  BaseInv'
<1>1. UNCHANGED <<taskState, connState, procState, started, chosen, popFailed>>
  BY DEF DeleteProcess
<1>2. /\ UNCHANGED <<agentEnd, serverEnd, up>>
      /\ down' \in [Ws -> Seq(DownMsg)]
      /\ \A v \in Ws : spc[v] = "login" => down'[v] = down[v]
  <2>1. CASE Open(processes[id])
    <3>1. processes[id] \in Ws /\ connWs[processes[id]] # None
      BY DEF DeleteProcess, BaseInv, TypeOK, ObjectInv
    <3>2. ProcDeleteRequest(id) \in DownMsg
      BY DEF ProcDeleteRequest, DownMsg
    <3> QED
      BY <2>1, <3>1, <3>2, SendsBase DEF DeleteProcess
  <2>2. CASE ~Open(processes[id])
    BY <2>2 DEF DeleteProcess, wireVars, BaseInv, Types
  <2> QED
    BY <2>1, <2>2
<1> QED
  BY <1>1, <1>2, SameTasksBase DEF BaseInv, TypeOK, Types, ObjectInv, taskState,
     connState, procState, Heard

\* What a message m of the agent does to the state of the server.
Receives(w, m) ==
  \/ \E id \in ProcId :
       /\ m \in Results(id) \cup {RequestError(id)}
       /\ processes' = [processes EXCEPT ![id] = IF @ = None THEN taskConn[w] ELSE @]
       /\ m = RequestError(id) => "error" \in heard'[id]
       /\ UNCHANGED <<connShut, done>>
  \/ \E id \in ProcId :
       /\ m \in Removals(id)
       /\ processes' = [processes EXCEPT ![id] = None]
       /\ UNCHANGED <<connShut, done>>
  \/ \E st \in ShutdownState :
       /\ m = ShutDownMsg(st)
       /\ processes' = processes
       /\ connShut' = [connShut EXCEPT ![taskConn[w]] = st]
       /\ done' = [done EXCEPT ![w] = @ \/ st = "done"]

\* A message is received, or a task ends on an unknown proc ID.
LEMMA MessageReceived ==
  ASSUME BaseInv, NEW w \in Ws, ServerReceive(w)
  PROVE  /\ spc[w] = "recv" /\ up[w] \in Seq(UpMsg) /\ up[w] # <<>>
         /\ taskConn[w] \in Ws
         /\ UNCHANGED <<register, todo, taskConn, conn, connWs, timer, closing, appState,
                        popFailed>>
         /\ \/ /\ LeaveServerEnd(w)
               /\ spc' = [spc EXCEPT ![w] = "close"]
               /\ UNCHANGED <<procState, done, connShut>>
            \/ /\ up' = [up EXCEPT ![w] = Tail(@)]
               /\ UNCHANGED <<spc, agentEnd, serverEnd, down>>
               /\ Receives(w, Head(up[w]))
               /\ heard' \in [ProcId -> SUBSET Heard]
               /\ \A id \in ProcId : "error" \in heard[id] => "error" \in heard'[id]
<1> DEFINE m == Head(up[w])
           o == taskConn[w]
<1>1. spc[w] = "recv" /\ up[w] \in Seq(UpMsg) /\ up[w] # <<>> /\ o \in Ws
  BY DEF ServerReceive, BaseInv, Types, TaskInv, Tasks
<1>2. UNCHANGED <<register, todo, taskConn, conn, connWs, timer, closing, appState,
                  popFailed>>
  BY DEF ServerReceive
<1>3. CASE KeyError(m)
  BY <1>1, <1>2, <1>3 DEF ServerReceive
<1>4. CASE ~KeyError(m)
  <2>1. m \in UpMsg
    BY <1>1
  <2>2. /\ up' = [up EXCEPT ![w] = Tail(@)]
        /\ OnMessage(m, o)
        /\ m.type = "ShutDown" =>
             /\ connShut' = [connShut EXCEPT ![o] = m.st]
             /\ done' = [done EXCEPT ![w] = @ \/ EndsConnection(m.st)]
        /\ m.type # "ShutDown" => UNCHANGED <<connShut, done>>
        /\ UNCHANGED <<spc, agentEnd, serverEnd, down>>
    BY <1>4 DEF ServerReceive
  <2> HIDE DEF m, o
  <2>3. CASE m.type = "ProcResult"
    <3>1. PICK id \in ProcId, st \in States : m = ProcResult(id, st)
      BY <2>1, <2>3 DEF UpMsg, RegisterMsg, ProcResult
    <3>2. m.id = id /\ m.st = st /\ m \in Results(id) /\ m # RequestError(id)
      BY <2>3, <3>1 DEF ProcResult, Results, RequestError
    <3>3. /\ processes' = [processes EXCEPT ![id] = IF @ = None THEN o ELSE @]
          /\ heard' = [heard EXCEPT ![id] = @ \cup Summary(st)]
      BY <2>2, <2>3, <3>2 DEF OnMessage, Tell
    <3>4. /\ heard' \in [ProcId -> SUBSET Heard]
          /\ \A i \in ProcId : "error" \in heard[i] => "error" \in heard'[i]
      BY <3>3 DEF BaseInv, TypeOK, Heard, Summary
    <3>5. Receives(w, m)
      BY <2>2, <2>3, <3>2, <3>3 DEF Receives, o
    <3> QED
      BY <1>1, <1>2, <2>2, <3>4, <3>5 DEF m, o
  <2>4. CASE m.type = "RequestError"
    <3>1. PICK id \in ProcId : m = RequestError(id)
      BY <2>1, <2>4 DEF UpMsg, RegisterMsg, RequestError
    <3>2. m.id = id
      BY <3>1 DEF RequestError
    <3>3. /\ processes' = [processes EXCEPT ![id] = IF @ = None THEN o ELSE @]
          /\ heard' = [heard EXCEPT ![id] = @ \cup {"error"}]
      BY <2>2, <2>4, <3>2 DEF OnMessage, Tell
    <3>4. /\ heard' \in [ProcId -> SUBSET Heard]
          /\ "error" \in heard'[id]
          /\ \A i \in ProcId : "error" \in heard[i] => "error" \in heard'[i]
      BY <3>3 DEF BaseInv, TypeOK, Heard
    <3>5. Receives(w, m)
      BY <2>2, <2>4, <3>1, <3>3, <3>4 DEF Receives, o
    <3> QED
      BY <1>1, <1>2, <2>2, <3>4, <3>5 DEF m, o
  <2>5. CASE m.type \in {"ProcDelete", "ProcUnknown"}
    <3>1. PICK id \in ProcId : m \in Removals(id)
      BY <2>1, <2>5 DEF UpMsg, RegisterMsg, Removals, ProcDelete, ProcUnknown
    <3>2. m.id = id
      BY <3>1 DEF Removals, ProcDelete, ProcUnknown
    <3>3. /\ processes' = [processes EXCEPT ![id] = None]
          /\ \E what \in Heard : heard' = [heard EXCEPT ![id] = @ \cup {what}]
      BY <2>2, <2>5, <3>2 DEF OnMessage, PopAndTell, Heard
    <3>4. /\ heard' \in [ProcId -> SUBSET Heard]
          /\ \A i \in ProcId : "error" \in heard[i] => "error" \in heard'[i]
      BY <3>3 DEF BaseInv, TypeOK, Heard
    <3>5. Receives(w, m)
      BY <2>2, <2>5, <3>1, <3>3 DEF Receives, o
    <3> QED
      BY <1>1, <1>2, <2>2, <3>4, <3>5 DEF m, o
  <2>6. CASE m.type = "ShutDown"
    <3>1. PICK st \in ShutdownState : m = ShutDownMsg(st)
      BY <2>1, <2>6 DEF UpMsg, RegisterMsg, ShutDownMsg
    <3>2. m.st = st
      BY <3>1 DEF ShutDownMsg
    <3>3. UNCHANGED procState
      BY <2>2, <2>6 DEF OnMessage
    <3>4. Receives(w, m)
      BY <2>2, <2>6, <3>1, <3>2, <3>3 DEF Receives, EndsConnection, procState, o
    <3> QED
      BY <1>1, <1>2, <2>2, <3>3, <3>4 DEF m, o, procState, BaseInv, TypeOK, Heard
  <2> QED
    BY <2>2, <2>3, <2>4, <2>5, <2>6 DEF OnMessage
<1> QED
  BY <1>3, <1>4

LEMMA ReceiveBase ==
  ASSUME BaseInv, UNCHANGED agentSide, NEW w \in Ws, ServerReceive(w)
  PROVE  BaseInv'
<1>1. /\ spc[w] = "recv" /\ up[w] \in Seq(UpMsg) /\ up[w] # <<>> /\ taskConn[w] \in Ws
      /\ serverEnd[w] # "none"
      /\ UNCHANGED <<register, todo, taskConn, conn, connWs, timer, closing, appState,
                     popFailed>>
  BY MessageReceived DEF BaseInv, TaskInv
<1>2. CASE /\ LeaveServerEnd(w) /\ spc' = [spc EXCEPT ![w] = "close"]
           /\ UNCHANGED <<procState, done, connShut>>
  <2>1. ServerLeaves(w) /\ up'[w] = <<>>
    BY <1>2, ServerCloses
  <2> QED
    BY <1>1, <1>2, <2>1, TaskClosesBase DEF BaseInv, Types, connState
<1>3. CASE /\ up' = [up EXCEPT ![w] = Tail(@)]
           /\ UNCHANGED <<spc, agentEnd, serverEnd, down>>
           /\ Receives(w, Head(up[w]))
           /\ heard' \in [ProcId -> SUBSET Heard]
  <2>1. up' \in [Ws -> Seq(UpMsg)] /\ \A v \in Ws : v # w => up'[v] = up[v]
    <3>1. Tail(up[w]) \in Seq(UpMsg)
      BY <1>1
    <3> QED
      BY <1>3, <3>1 DEF BaseInv, Types
  <2>2. /\ processes' \in [ProcId -> Ws \cup {None}]
        /\ \A id \in ProcId : processes'[id] \in {None, processes[id], taskConn[w]}
    BY <1>1, <1>3 DEF Receives, BaseInv, TypeOK
  <2>3. /\ connShut' \in [Ws -> ShutdownState]
        /\ done' \in [Ws -> BOOLEAN]
        /\ \A v \in Ws : v # w => done'[v] = done[v]
    <3>1. connShut \in [Ws -> ShutdownState] /\ done \in [Ws -> BOOLEAN]
      BY DEF BaseInv, Types
    <3>2. CASE UNCHANGED <<connShut, done>>
      BY <3>1, <3>2
    <3>3. ASSUME NEW st \in ShutdownState, connShut' = [connShut EXCEPT ![taskConn[w]] = st],
                 done' = [done EXCEPT ![w] = @ \/ st = "done"]
          PROVE  /\ connShut' \in [Ws -> ShutdownState]
                 /\ done' \in [Ws -> BOOLEAN]
                 /\ \A v \in Ws : v # w => done'[v] = done[v]
      <4>1. connShut' \in [Ws -> ShutdownState]
        BY <1>1, <3>1, <3>3
      <4>2. done' \in [Ws -> BOOLEAN] /\ \A v \in Ws : v # w => done'[v] = done[v]
        BY <3>1, <3>3
      <4> QED
        BY <4>1, <4>2
    <3> QED
      BY <1>3, <3>2, <3>3 DEF Receives
  <2>4. TypeOK'
    BY <1>1, <1>3, <2>2, AgentSideKept DEF BaseInv, TypeOK, Heard
  <2>5. Types'
    BY <1>1, <1>3, <2>1, <2>3, AgentSideKept DEF BaseInv, Types, appState
  <2>6. TaskInv'
    BY <1>1, <1>3, <2>1, <2>3 DEF BaseInv, TaskInv, Tasks
  <2>7. ObjectInv'
    <3>1. ASSUME NEW id \in ProcId, processes'[id] # None
          PROVE  connWs'[processes'[id]] # None
      BY <1>1, <2>2, <3>1, AgentAssumption DEF BaseInv, ObjectInv
    <3> QED
      BY <1>1, <1>3, <3>1 DEF BaseInv, ObjectInv, appState
  <2>8. AgentInv'
    BY <1>1, <1>3, <2>1, AgentSideKept DEF BaseInv, TypeOK, AgentInv
  <2> QED
    BY <2>4, <2>5, <2>6, <2>7, <2>8, AgentSideKept DEF BaseInv
<1> QED
  BY <1>2, <1>3, MessageReceived

\* Requests for results: the loop over todo ends, sends or fails.
LEMMA Requests ==
  ASSUME BaseInv, NEW w \in Ws, RequestResult(w)
  PROVE  /\ spc[w] = "request" /\ serverEnd[w] # "none"
         /\ UNCHANGED <<register, taskConn, done, connState, procState, appState, popFailed>>
         /\ todo' \in [Ws -> SUBSET ProcId]
         /\ \/ spc' = [spc EXCEPT ![w] = "recv"] /\ UNCHANGED wireVars
            \/ /\ UNCHANGED spc
               /\ taskConn[w] \in Ws /\ connWs[taskConn[w]] # None
               /\ \E id \in ProcId :
                    ServerSend(connWs[taskConn[w]], <<ProcResultRequest(id)>>)
            \/ spc' = [spc EXCEPT ![w] = "close"] /\ LeaveServerEnd(w)
<1>1. spc[w] = "request" /\ serverEnd[w] # "none"
  BY DEF RequestResult, BaseInv, TaskInv
<1>2. UNCHANGED <<register, taskConn, done, connState, procState, appState, popFailed>>
  BY DEF RequestResult
<1>3. taskConn[w] \in Ws /\ connWs[taskConn[w]] # None /\ todo[w] \subseteq ProcId
      /\ todo \in [Ws -> SUBSET ProcId]
  BY <1>1 DEF BaseInv, TaskInv, Types, ObjectInv, Tasks
<1>4. CASE todo[w] = {}
  BY <1>1, <1>2, <1>3, <1>4 DEF RequestResult
<1>5. CASE todo[w] # {}
  <2>1. PICK id \in todo[w] :
          IF Open(taskConn[w])
          THEN /\ ServerSend(connWs[taskConn[w]], <<ProcResultRequest(id)>>)
               /\ todo' = [todo EXCEPT ![w] = @ \ {id}]
               /\ UNCHANGED spc
          ELSE /\ spc' = [spc EXCEPT ![w] = "close"]
               /\ todo' = [todo EXCEPT ![w] = {}]
               /\ LeaveServerEnd(w)
    BY <1>5 DEF RequestResult
  <2>2. todo' \in [Ws -> SUBSET ProcId]
    BY <1>3, <2>1
  <2> QED
    BY <1>1, <1>2, <1>3, <2>1, <2>2
<1> QED
  BY <1>4, <1>5

LEMMA RequestBase ==
  ASSUME BaseInv, UNCHANGED agentSide, NEW w \in Ws, RequestResult(w)
  PROVE  BaseInv'
<1>1. /\ spc[w] = "request" /\ serverEnd[w] # "none"
      /\ UNCHANGED <<register, taskConn, done, connState, procState, appState, popFailed>>
      /\ todo' \in [Ws -> SUBSET ProcId]
  BY Requests
<1>2. CASE spc' = [spc EXCEPT ![w] = "recv"] /\ UNCHANGED wireVars
  <2>1. TypeOK'
    BY <1>1, <1>2, AgentSideKept DEF BaseInv, TypeOK, connState, procState, wireVars
  <2>2. Types'
    BY <1>1, <1>2, AgentSideKept DEF BaseInv, Types, connState, appState, wireVars,
       Added, Tasks
  <2>3. \A v \in Ws : spc[v] \in Added => spc'[v] \in Added
    BY <1>2 DEF BaseInv, Types, Added, Tasks
  <2>4. TaskInv'
    BY <1>1, <1>2, <2>3 DEF BaseInv, Types, TaskInv, connState, wireVars, Tasks
  <2>5. ObjectInv'
    BY <1>1, <2>3 DEF BaseInv, TypeOK, ObjectInv, connState, procState, appState
  <2>6. AgentInv'
    BY <1>1, <1>2, AgentSideKept DEF BaseInv, TypeOK, Types, AgentInv, wireVars
  <2> QED
    BY <2>1, <2>2, <2>4, <2>5, <2>6, AgentSideKept DEF BaseInv
<1>3. ASSUME UNCHANGED spc, taskConn[w] \in Ws, connWs[taskConn[w]] # None,
             NEW id \in ProcId, ServerSend(connWs[taskConn[w]], <<ProcResultRequest(id)>>)
      PROVE  BaseInv'
  <2>1. ProcResultRequest(id) \in DownMsg
    BY DEF ProcResultRequest, DownMsg
  <2>2. /\ UNCHANGED <<agentEnd, serverEnd, up>>
        /\ down' \in [Ws -> Seq(DownMsg)]
        /\ \A v \in Ws : spc[v] = "login" => down'[v] = down[v]
    BY <1>3, <2>1, SendsBase
  <2> QED
    BY <1>1, <1>3, <2>2, SameTasksBase DEF BaseInv, TypeOK, Types, ObjectInv, connState,
       procState, appState, Heard
<1>4. CASE spc' = [spc EXCEPT ![w] = "close"] /\ LeaveServerEnd(w)
  <2>1. ServerLeaves(w) /\ up'[w] = <<>>
    BY <1>4, ServerCloses
  <2> QED
    BY <1>1, <1>4, <2>1, TaskClosesBase
<1> QED
  BY <1>2, <1>3, <1>4, Requests

LEMMA FinishBase ==
  ASSUME BaseInv, UNCHANGED agentSide, NEW w \in Ws, FinishConnection(w)
  PROVE  BaseInv'
<1>1. /\ spc[w] = "close" /\ spc' = [spc EXCEPT ![w] = "ended"]
      /\ taskConn' = [taskConn EXCEPT ![w] = None]
      /\ done' = [done EXCEPT ![w] = FALSE]
      /\ UNCHANGED <<wireVars, register, todo, connWs, connShut, closing, procState, appState>>
  BY DEF FinishConnection
<1>2. taskConn[w] \in Ws /\ connWs[taskConn[w]] # None
  BY <1>1 DEF BaseInv, TaskInv, Types, ObjectInv, Tasks
<1>3. /\ conn' \in {conn, None}
      /\ timer' \subseteq timer \cup {taskConn[w]}
      /\ popFailed' \in BOOLEAN
  BY DEF FinishConnection, SetReconnectTimeout, BaseInv, Types
<1>4. TypeOK'
  BY <1>1, <1>2, <1>3, AgentSideKept DEF BaseInv, TypeOK, procState, wireVars
<1>5. Types'
  BY <1>1, <1>3, AgentSideKept DEF BaseInv, Types, appState, wireVars, Added, Tasks
<1>6. \A v \in Ws : spc[v] \in Added => spc'[v] \in Added
  BY <1>1 DEF BaseInv, Types, Added, Tasks
<1>7. TaskInv'
  BY <1>1, <1>6, AgentAssumption DEF BaseInv, Types, TaskInv, wireVars, Tasks
<1>8. ObjectInv'
  <2>1. \A v \in Ws : taskConn'[v] # None => taskConn'[v] = taskConn[v]
    BY <1>1 DEF BaseInv, Types
  <2> QED
    <3>1. UNCHANGED <<connWs, processes, chosen, started>>
      BY <1>1 DEF procState, appState
    <3>2. \A x \in Ws : connWs'[x] # None => spc'[connWs'[x]] \in Added
      BY <1>6, <3>1 DEF BaseInv, TypeOK, ObjectInv
    <3>3. conn' # None => connWs'[conn'] # None
      BY <1>3, <3>1 DEF BaseInv, ObjectInv
    <3>4. \A v \in Ws : taskConn'[v] # None => connWs'[taskConn'[v]] # None
      BY <2>1, <3>1 DEF BaseInv, ObjectInv
    <3>5. \A x \in timer' : connWs'[x] # None
      BY <1>2, <1>3, <3>1 DEF BaseInv, ObjectInv
    <3> QED
      BY <3>1, <3>2, <3>3, <3>4, <3>5 DEF BaseInv, ObjectInv
<1>9. AgentInv'
  BY <1>1, AgentSideKept DEF BaseInv, TypeOK, Types, AgentInv, wireVars
<1> QED
  BY <1>4, <1>5, <1>7, <1>8, <1>9, AgentSideKept DEF BaseInv

\* The server's end of a websocket is closed, while its task goes on.
LEMMA EndClosedBase ==
  ASSUME BaseInv, UNCHANGED agentSide, NEW w \in Ws, CloseOld(w) \/ ServerEndFails(w)
  PROVE  BaseInv'
<1>1. /\ ServerLeaves(w)
      /\ UNCHANGED <<taskState, conn, connWs, connShut, timer, procState, appState, popFailed>>
      /\ closing' \subseteq closing
      /\ spc[w] \in Added \cup {"add"}
  <2>1. CloseServerEnd(w)
    BY DEF CloseOld, ServerEndFails
  <2>2. ServerLeaves(w)
    BY <2>1, ServerCloses
  <2> QED
    BY <2>2 DEF CloseOld, ServerEndFails, serverVars, taskState, procState, appState,
       BaseInv, TaskInv, Added, Tasks
<1>2. TypeOK'
  BY <1>1, AgentSideKept DEF BaseInv, TypeOK, ServerLeaves, procState, End
<1>3. Types'
  BY <1>1, AgentSideKept DEF BaseInv, Types, ServerLeaves, taskState, appState
<1>4. TaskInv'
  <2>1. UNCHANGED <<spc, register, taskConn, done>>
    BY <1>1 DEF taskState
  <2>2. /\ agentEnd' = agentEnd /\ closing' \subseteq closing
        /\ serverEnd'[w] = "closed" /\ spc[w] # "login"
        /\ up[w] = <<>> => up'[w] = <<>>
        /\ \A v \in Ws : v # w =>
             serverEnd'[v] = serverEnd[v] /\ up'[v] = up[v] /\ down'[v] = down[v]
    BY <1>1 DEF BaseInv, TypeOK, ServerLeaves, Added, Tasks
  <2>3. agentEnd[w] # "none"
    BY <2>2 DEF BaseInv, TaskInv
  <2>4. ASSUME NEW v \in Ws, v # w PROVE
          /\ agentEnd'[v] = "none" <=> serverEnd'[v] = "none"
          /\ serverEnd'[v] = "none" => spc'[v] = "login" /\ up'[v] = <<>>
          /\ spc'[v] = "login" =>
               /\ down'[v] = <<>>
               /\ up'[v] # <<>> => Len(up'[v]) = 1 /\ up'[v][1] \in RegisterMsg
          /\ spc'[v] \in {"close", "ended"} => serverEnd'[v] = "closed" /\ up'[v] = <<>>
    BY <2>1, <2>2, <2>4 DEF BaseInv, TaskInv
  <2>5. /\ agentEnd'[w] = "none" <=> serverEnd'[w] = "none"
        /\ serverEnd'[w] # "none"
        /\ spc'[w] # "login"
        /\ spc'[w] \in {"close", "ended"} => serverEnd'[w] = "closed" /\ up'[w] = <<>>
    BY <2>1, <2>2, <2>3 DEF BaseInv, TaskInv
  <2>6. \A v \in Ws :
          /\ spc'[v] = "add" => register'[v] \in RegisterMsg
          /\ spc'[v] \in Tasks <=> taskConn'[v] # None
          /\ done'[v] => spc'[v] \in {"recv", "close"}
          /\ v \in closing' => spc'[v] \in Added
    BY <2>1, <2>2 DEF BaseInv, TaskInv
  <2> QED
    BY <2>4, <2>5, <2>6 DEF TaskInv
<1>5. ObjectInv'
  BY <1>1 DEF BaseInv, ObjectInv, taskState, procState, appState
<1>6. AgentInv'
  BY <1>1, AgentSideKept DEF BaseInv, TypeOK, AgentInv, ServerLeaves, taskState
<1> QED
  BY <1>2, <1>3, <1>4, <1>5, <1>6, AgentSideKept DEF BaseInv

-----------------------------------------------------------------------------
LEMMA InitBase == SystemInit => BaseInv
<1> SUFFICES ASSUME SystemInit PROVE BaseInv
  OBVIOUS
<1> USE DEF SystemInit, AgentInit, WireInit, ServerInit, Init, RegistryInit, NotifyInit
<1>1. TypeOK
  BY AgentAssumption DEF TypeOK, End
<1>2. RegistryTypes /\ MapAgrees /\ ToldStopped
  BY DEF RegistryTypes, MapAgrees, ToldStopped, States, ShutdownState
<1>3. Types
  <2>1. <<>> \in Seq(Notification) /\ <<>> \in Seq(UpMsg) /\ <<>> \in Seq(DownMsg)
    OBVIOUS
  <2>2. /\ subq \in [Sub -> Seq(Notification)]
        /\ up \in [Ws -> Seq(UpMsg)] /\ down \in [Ws -> Seq(DownMsg)]
    BY <2>1
  <2>3. /\ spc \in [Ws -> {"login", "add"} \cup Added]
        /\ register \in [Ws -> RegisterMsg \cup {None}]
        /\ todo \in [Ws -> SUBSET ProcId]
        /\ taskConn \in [Ws -> Ws \cup {None}]
        /\ done \in [Ws -> BOOLEAN]
        /\ connShut \in [Ws -> ShutdownState]
    BY DEF ShutdownState
  <2>4. /\ started \in [ProcId -> StartState]
        /\ chosen \in [ProcId -> Ws \cup {None}]
        /\ popFailed \in BOOLEAN
    BY DEF StartState
  <2> QED
    BY <1>2, <2>2, <2>3, <2>4 DEF Types
<1>4. CountInv /\ AgentInv
  BY AgentAssumption DEF CountInv, AgentInv
<1>5. TaskInv
  BY DEF TaskInv, Added, Tasks
<1>6. ObjectInv
  BY DEF ObjectInv
<1> QED
  BY <1>1, <1>2, <1>3, <1>4, <1>5, <1>6 DEF BaseInv

\* A step is one of the agent, of its registry or of the server.
LEMMA StepBase ==
  ASSUME BaseInv, [SystemNext]_systemVars
  PROVE  BaseInv'
<1>1. ASSUME AgentStep, UNCHANGED serverVars PROVE BaseInv'
  BY <1>1, AgentAloneBase, ConnectBase, RegisterFailsBase, RegisteredBase,
     DisconnectBase, ForwardBase, HandleBase DEF AgentStep
<1>2. ASSUME RegistryStep, UNCHANGED serverVars PROVE BaseInv'
  BY <1>2, RegistryStepBase
<1>3. ASSUME ServerStep, UNCHANGED agentSide PROVE BaseInv'
  BY <1>3, LoginBase, AddBase, RequestBase, ReceiveBase, TaskEndsBase, FinishBase,
     EndClosedBase, TimeoutBase, ChooseBase, SendStartBase, CreateBase, DeleteBase
     DEF ServerStep, ServeStep
<1>4. ASSUME UNCHANGED systemVars PROVE BaseInv'
  <2>1. UNCHANGED <<agentSide, wireVars, serverVars>>
    BY <1>4 DEF systemVars
  <2>2. \A id \in ProcId :
          started[id] \in {"chosen", "chosen again", "sent"} => chosen[id] # None
    BY DEF BaseInv, ObjectInv
  <2> QED
    BY <2>1, <2>2, SameTasksBase DEF BaseInv, TypeOK, Types, wireVars, serverVars, Heard
<1> QED
  BY <1>1, <1>2, <1>3, <1>4 DEF SystemNext

\* TypeOK with the types of messages and tasks, and what the two ends and the
\* serve task of a websocket say of each other, is inductive.
THEOREM BaseInvariance == SystemSpec => []BaseInv
<1>1. SystemInit => BaseInv
  BY InitBase
<1>2. BaseInv /\ [SystemNext]_systemVars => BaseInv'
  BY StepBase
<1> QED
  BY <1>1, <1>2, PTL DEF SystemSpec

\* The agent has a websocket exactly while it registers or serves, it is the
\* only one whose end the agent has open, and the agent is subscribed exactly
\* while it serves; the server's tasks and objects have their types.
THEOREM TypeCorrect == SystemSpec => []TypeOK
<1>1. BaseInv => TypeOK
  BY DEF BaseInv
<1> QED
  BY <1>1, BaseInvariance, PTL

-----------------------------------------------------------------------------
(* The end of the agent *)

\* No websocket is about to be the last one unless it was.
NoNewEnd == \A w \in Ws : Ending(w)' => Ending(w)

LEMMA EndKept ==
  ASSUME EndInv, NoNewEnd, apc = "exited" => apc' = "exited"
  PROVE  EndInv' /\ (Unpopped' => Unpopped)
BY DEF EndInv, NoNewEnd, Unpopped

\* If no queue has more than before, and no task has received the end.
LEMMA NothingSent ==
  ASSUME \A w \in Ws : done'[w] => done[w],
         \A w \in Ws : Has(up'[w], {ShutDownMsg("done")}) => Has(up[w], {ShutDownMsg("done")})
  PROVE  NoNewEnd
BY DEF NoNewEnd, Ending

\* The agent serves, and does not send the end.
LEMMA ServesNoEnd ==
  ASSUME BaseInv, NEW ms, AgentServes(ms), ~Has(ms, {ShutDownMsg("done")})
  PROVE  NoNewEnd
<1> DEFINE D == {ShutDownMsg("done")}
<1>1. ws \in Ws /\ up[ws] \in Seq(UpMsg) /\ ms \in Seq(UpMsg)
  BY DEF AgentServes, BaseInv, TypeOK, Types
<1>2. up' = [up EXCEPT ![ws] = Sent(up[ws], serverEnd[ws], ms)] /\ done' = done
  BY DEF AgentServes, AgentSend, serverVars
<1>3. Has(Sent(up[ws], serverEnd[ws], ms), D) => Has(up[ws], D)
  BY <1>1, HasConcat DEF Sent
<1>4. \A w \in Ws : Has(up'[w], D) => Has(up[w], D)
  BY <1>1, <1>2, <1>3 DEF BaseInv, Types
<1> QED
  BY <1>2, <1>4, NothingSent

LEMMA AgentStepEnd ==
  ASSUME BaseInv, EndInv, AgentStep, UNCHANGED serverVars
  PROVE  EndInv' /\ (Unpopped' => Unpopped)
<1> DEFINE D == {ShutDownMsg("done")}
<1>1. done' = done
  BY DEF serverVars
<1>2. CASE UNCHANGED up /\ apc # "exited"
  BY <1>1, <1>2, NothingSent, EndKept
<1>3. ASSUME NEW w \in Ws, Connect(w) PROVE EndInv' /\ (Unpopped' => Unpopped)
  <2>1. ~Has(<<Register(Live, shutdown)>>, D)
    BY HasOne DEF Register, ShutDownMsg
  <2>2. \A v \in Ws : Has(up'[v], D) => Has(up[v], D)
    BY <1>3, <2>1 DEF Connect, BaseInv, Types
  <2>3. apc # "exited"
    BY <1>3 DEF Connect
  <2> QED
    BY <1>1, <2>2, <2>3, NothingSent, EndKept
<1>4. CASE RegisterFails \/ Disconnect
  <2>1. ws \in Ws /\ apc # "exited" /\ ws' = None /\ CloseAgentEnd(ws)
    BY <1>4 DEF RegisterFails, ConnectFailed, Disconnect, BaseInv, TypeOK
  <2>2. PICK q \in Arrives(up[ws]) : up' = [up EXCEPT ![ws] = q]
    BY <2>1 DEF CloseAgentEnd
  <2>3. Has(q, D) => Has(up[ws], D)
    BY <2>1, HasPrefix DEF BaseInv, Types
  <2>4. \A v \in Ws : Has(up'[v], D) => Has(up[v], D)
    BY <2>2, <2>3 DEF BaseInv, Types
  <2> QED
    BY <1>1, <2>1, <2>4, NothingSent, EndKept
<1>5. CASE ForwardNotification
  <2> DEFINE q == subq["agent"]
             n == Head(q)
             ms == notification_to_message(n)
  <2>1. n \in Notification /\ ms \in Seq(UpMsg) /\ apc = "serving" /\ ws \in Ws
    BY <1>5, Forwards, MessageForNotification
  <2>2. CASE n # ShutDown("done") /\ AgentServes(ms)
    <3>1. ~Has(ms, D)
      <4>1. ASSUME NEW id \in ProcId, n \in {Start(id), NotRunning(id)} PROVE ~Has(ms, D)
        <5>1. ms = <<>> \/ ms = <<ProcResult(id, state[procs[id]])>>
          BY <2>1, <4>1, MessageForNotification
        <5>2. ProcResult(id, state[procs[id]]) \notin D
          BY DEF ProcResult, ShutDownMsg
        <5> QED
          BY <5>1, <5>2, HasOne
      <4>2. ASSUME NEW id \in ProcId, n = Delete(id) PROVE ~Has(ms, D)
        <5>1. ms = <<ProcDelete(id)>>
          BY <2>1, <4>2, MessageForNotification
        <5>2. ProcDelete(id) \notin D
          BY DEF ProcDelete, ShutDownMsg
        <5> QED
          BY <5>1, <5>2, HasOne
      <4>3. ASSUME NEW st \in ShutdownState, n = ShutDown(st) PROVE ~Has(ms, D)
        <5>1. ms = <<ShutDownMsg(st)>>
          BY <2>1, <4>3, MessageForNotification
        <5>2. ShutDownMsg(st) \notin D
          BY <2>2, <4>3 DEF ShutDownMsg, ShutDown
        <5> QED
          BY <5>1, <5>2, HasOne
      <4> QED
        BY <2>1, <4>1, <4>2, <4>3, NotificationKinds
    <3> QED
      BY <2>1, <2>2, <3>1, ServesNoEnd, EndKept
  <2>3. CASE apc' = "exited" /\ AgentLeaves
    <3>1. \A w \in Ws : ~Ending(w)
      BY <2>1 DEF EndInv
    <3>2. \A w \in Ws : Ending(w)' => w = ws
      BY <1>1, <2>3, <3>1 DEF Ending, AgentLeaves
    <3> QED
      BY <2>1, <2>3, <3>2 DEF EndInv, Unpopped
  <2> QED
    BY <1>5, <2>2, <2>3, Forwards
<1>6. CASE HandleMessage
  <2>1. PICK id \in ProcId, ms \in Seq(UpMsg) : AgentServes(ms) /\ Handles(id, ms)
    BY <1>6, RequestHandled
  <2>2. ~Has(ms, D)
    <3>1. /\ RequestError(id) \notin D /\ ProcUnknown(id) \notin D
          /\ \A st : ProcResult(id, st) \notin D
      BY DEF RequestError, ProcUnknown, ProcResult, ShutDownMsg
    <3> QED
      BY <2>1, <3>1, HasOne DEF Handles
  <2> QED
    BY <2>1, <2>2, ServesNoEnd, EndKept DEF AgentServes
<1>7. CASE AgentTop \/ CannotConnect \/ SleepEnds \/ AgentRegistered
  BY <1>2, <1>7 DEF AgentTop, CannotConnect, SleepEnds, AgentRegistered, wireVars
<1> QED
  BY <1>3, <1>4, <1>5, <1>6, <1>7 DEF AgentStep

\* The end is received from the queue of the one task.
LEMMA ServerStepNoEnd ==
  ASSUME BaseInv, ServerStep, UNCHANGED agentSide
  PROVE  NoNewEnd
<1> DEFINE D == {ShutDownMsg("done")}
<1>1. CASE UNCHANGED <<up, done>>
  BY <1>1, NothingSent
<1>2. ASSUME NEW w \in Ws, Login(w) PROVE NoNewEnd
  <2>1. up[w] \in Seq(UpMsg) /\ up[w] # <<>> /\ up' = [up EXCEPT ![w] = Tail(@)] /\ done' = done
    BY <1>2 DEF Login, BaseInv, Types
  <2>2. Has(Tail(up[w]), D) => Has(up[w], D)
    BY <2>1, HasTail
  <2>3. \A v \in Ws : Has(up'[v], D) => Has(up[v], D)
    BY <2>1, <2>2 DEF BaseInv, Types
  <2> QED
    BY <2>1, <2>3, NothingSent
<1>3. ASSUME NEW w \in Ws, CloseServerEnd(w) \/ LeaveServerEnd(w), UNCHANGED done
      PROVE  NoNewEnd
  <2>1. \A v \in Ws : Has(up'[v], D) => Has(up[v], D)
    BY <1>3, ServerCloses DEF ServerLeaves
  <2> QED
    BY <1>3, <2>1, NothingSent
<1>4. ASSUME NEW w \in Ws, ServerReceive(w) PROVE NoNewEnd
  <2>1. CASE LeaveServerEnd(w) /\ UNCHANGED done
    BY <1>3, <2>1
  <2>2. CASE up' = [up EXCEPT ![w] = Tail(@)] /\ Receives(w, Head(up[w]))
    <3>1. up[w] \in Seq(UpMsg) /\ up[w] # <<>>
      BY <1>4, MessageReceived
    <3>2. Has(up[w], D) <=> Head(up[w]) \in D \/ Has(Tail(up[w]), D)
      BY <3>1, HasTail
    <3>3. \A v \in Ws : Has(up'[v], D) => Has(up[v], D)
      BY <2>2, <3>2 DEF BaseInv, Types
    <3>4. CASE done' = done
      BY <3>2, <3>3, <3>4, NothingSent
    <3>5. ASSUME NEW st \in ShutdownState, Head(up[w]) = ShutDownMsg(st),
                 done' = [done EXCEPT ![w] = @ \/ st = "done"]
          PROVE  NoNewEnd
      <4>1. st = "done" => Has(up[w], D)
        BY <3>2, <3>5
      <4>2. \A v \in Ws : v # w => done'[v] = done[v]
        BY <3>5 DEF BaseInv, Types
      <4>3. done'[w] = (done[w] \/ st = "done")
        BY <3>5 DEF BaseInv, Types
      <4> QED
        BY <3>3, <4>1, <4>2, <4>3 DEF NoNewEnd, Ending
    <3> QED
      BY <2>2, <3>4, <3>5 DEF Receives
  <2> QED
    BY <1>4, <2>1, <2>2, MessageReceived
<1>5. ASSUME NEW w \in Ws, FinishConnection(w) PROVE NoNewEnd
  <2>1. up' = up /\ \A v \in Ws : done'[v] => done[v]
    BY <1>5 DEF FinishConnection, wireVars, BaseInv, Types
  <2> QED
    BY <2>1, NothingSent
<1>6. ASSUME NEW w \in Ws, RequestResult(w) PROVE NoNewEnd
  <2>1. done' = done /\ (UNCHANGED up \/ LeaveServerEnd(w))
    BY <1>6, Requests DEF ServerSend, wireVars
  <2> QED
    BY <1>1, <1>3, <2>1
<1>7. ASSUME NEW w \in Ws, LoginFails(w) \/ ServerSeesEnd(w) \/ CloseOld(w) \/ ServerEndFails(w)
      PROVE  NoNewEnd
  BY <1>3, <1>7 DEF LoginFails, ServerSeesEnd, CloseOld, ServerEndFails, taskState, serverVars
<1>8. ASSUME NEW w \in Ws, AddAndReconcile(w) \/ ReconnectTimesOut(w) PROVE NoNewEnd
  BY <1>1, <1>8 DEF AddAndReconcile, ReconnectTimesOut, wireVars, taskState
<1>9. ASSUME NEW id \in ProcId, ChooseConnection(id) \/ CreateProcess(id) \/ DeleteProcess(id)
                                \/ SendStart(id)
      PROVE  NoNewEnd
  BY <1>1, <1>9 DEF ChooseConnection, CreateProcess, DeleteProcess, SendStart,
     ServerSend, wireVars, taskState
<1> QED
  BY <1>2, <1>4, <1>5, <1>6, <1>7, <1>8, <1>9 DEF ServerStep, ServeStep

\* The agent ends once.
LEMMA StepEnd ==
  ASSUME BaseInv, EndInv, [SystemNext]_systemVars
  PROVE  EndInv' /\ (Unpopped' => Unpopped)
<1>1. CASE AgentStep /\ UNCHANGED serverVars
  BY <1>1, AgentStepEnd
<1>2. CASE RegistryStep /\ UNCHANGED serverVars
  <2>1. UNCHANGED <<up, done, apc>>
    BY <1>2 DEF RegistryStep, wireVars, serverVars
  <2> QED
    BY <2>1, NothingSent, EndKept
<1>3. CASE ServerStep /\ UNCHANGED agentSide
  BY <1>3, ServerStepNoEnd, EndKept, AgentSideKept
<1>4. CASE UNCHANGED systemVars
  <2>1. UNCHANGED <<up, done, apc>>
    BY <1>4 DEF systemVars, wireVars, serverVars, agentSide, agentVars
  <2> QED
    BY <2>1, NothingSent, EndKept
<1> QED
  BY <1>1, <1>2, <1>3, <1>4 DEF SystemNext

-----------------------------------------------------------------------------
(* One Connection *)

\* Until its end, an agent has one Connection object, which its tasks, its
\* processes and request_start() use.
LEMMA SameConnectionKept ==
  ASSUME BaseInv, OneConnection, Unpopped' => Unpopped, conn' = conn, timer' = timer,
         \A w \in Ws : taskConn'[w] \in {None, conn, taskConn[w]},
         \A id \in ProcId :
           /\ processes'[id] \in {None, conn, processes[id], chosen[id]}
                                   \cup {taskConn[w] : w \in Ws}
           /\ chosen'[id] \in {None, conn, chosen[id]}
  PROVE  OneConnection'
BY DEF OneConnection

LEMMA ServerStepOneConnection ==
  ASSUME ~ReconnectTimeout, BaseInv, EndInv, OneConnection, PopNeverFails,
         ServerStep, UNCHANGED agentSide
  PROVE  OneConnection' /\ PopNeverFails'
<1>1. EndInv' /\ (Unpopped' => Unpopped) /\ NoNewEnd
  BY ServerStepNoEnd, EndKept, AgentSideKept
<1>2. CASE UNCHANGED <<conn, timer, taskConn, processes, chosen, popFailed>>
  BY <1>1, <1>2, SameConnectionKept DEF PopNeverFails
<1>3. ASSUME NEW w \in Ws, AddAndReconcile(w) PROVE OneConnection' /\ PopNeverFails'
  <2> DEFINE o == ConnectionFor(w)
  <2>1. /\ conn # None => o = conn
        /\ conn' = o /\ timer' = timer \ {o} /\ popFailed' = popFailed
        /\ \A v \in Ws : taskConn'[v] \in {o, taskConn[v]}
        /\ \A id \in ProcId : /\ processes'[id] \in {None, o, processes[id]}
                              /\ chosen'[id] = chosen[id]
    BY <1>3, Adds DEF BaseInv, Types, appState
  <2> HIDE DEF o
  <2>2. \A x \in {None, conn} : x \in {None, o}
    BY <2>1
  <2> QED
    BY <1>1, <2>1, <2>2 DEF OneConnection, PopNeverFails
<1>4. ASSUME NEW w \in Ws, FinishConnection(w) PROVE OneConnection' /\ PopNeverFails'
  <2>1. /\ spc[w] = "close" /\ taskConn[w] \in Ws /\ up[w] = <<>>
        /\ UNCHANGED <<up, processes, chosen>>
        /\ \A v \in Ws : taskConn'[v] \in {None, taskConn[v]}
        /\ done' = [done EXCEPT ![w] = FALSE]
    BY <1>4 DEF FinishConnection, BaseInv, TaskInv, Types, Tasks, wireVars, procState,
       appState
  <2>2. CASE done[w]
    <3>1. Ending(w) /\ apc = "exited" /\ Unpopped
      BY <2>2 DEF Ending, EndInv, Unpopped
    <3>2. conn = taskConn[w]
      BY <2>1, <3>1, AgentAssumption DEF OneConnection
    <3>3. popFailed' = (popFailed \/ ~PopIs(taskConn[w])) /\ timer' = timer \ {conn}
      BY <1>4, <2>2 DEF FinishConnection
    <3>4. ~popFailed' /\ timer' = {}
      BY <3>2, <3>3 DEF PopIs, OneConnection, PopNeverFails
    <3>5. ~done'[w] /\ up'[w] = <<>>
      BY <2>1 DEF BaseInv, Types
    <3>6. ~Ending(w)'
      BY <3>5 DEF Ending, Has
    <3>7. ~Unpopped'
      BY <1>1, <3>1, <3>6, AgentSideKept DEF Unpopped, NoNewEnd, EndInv
    <3> QED
      BY <3>7, <3>4 DEF OneConnection, PopNeverFails
  <2>3. CASE ~done[w]
    <3>1. UNCHANGED <<conn, popFailed, timer>>
      BY <1>4, <2>3 DEF FinishConnection, SetReconnectTimeout
    <3> QED
      BY <1>1, <2>1, <3>1, SameConnectionKept DEF PopNeverFails
  <2> QED
    BY <2>2, <2>3
<1>5. ASSUME NEW w \in Ws, ServerReceive(w) PROVE OneConnection' /\ PopNeverFails'
  <2>1. UNCHANGED <<conn, timer, taskConn, chosen, popFailed>>
    BY <1>5, MessageReceived DEF appState
  <2>2. \A id \in ProcId : processes'[id] \in {None, processes[id], taskConn[w]}
    BY <1>5, MessageReceived DEF Receives, procState, BaseInv, TypeOK
  <2> QED
    BY <1>1, <2>1, <2>2, SameConnectionKept DEF PopNeverFails
<1>6. ASSUME NEW w \in Ws, RequestResult(w) PROVE OneConnection' /\ PopNeverFails'
  BY <1>2, <1>6, Requests DEF connState, procState, appState
<1>7. ASSUME NEW w \in Ws, Login(w) \/ LoginFails(w) \/ ServerSeesEnd(w) \/ CloseOld(w)
                           \/ ServerEndFails(w)
      PROVE  OneConnection' /\ PopNeverFails'
  BY <1>2, <1>7 DEF Login, LoginFails, ServerSeesEnd, CloseOld, ServerEndFails, connState,
     procState, appState, taskState, serverVars
<1>8. \A o \in Ws : ~ReconnectTimesOut(o)
  BY DEF ReconnectTimesOut, OneConnection
<1>9. ASSUME NEW id \in ProcId, ChooseConnection(id) PROVE OneConnection' /\ PopNeverFails'
  <2>1. /\ UNCHANGED <<conn, timer, taskConn, processes, popFailed>>
        /\ \A i \in ProcId : chosen'[i] \in {conn, chosen[i]}
    BY <1>9 DEF ChooseConnection, taskState, connState, procState, BaseInv, Types
  <2> QED
    BY <1>1, <2>1, SameConnectionKept DEF PopNeverFails
<1>10. ASSUME NEW id \in ProcId, SendStart(id) PROVE OneConnection' /\ PopNeverFails'
  BY <1>1, <1>10, StartSent, SameConnectionKept DEF PopNeverFails, connState, taskState
<1>11. ASSUME NEW id \in ProcId, CreateProcess(id) PROVE OneConnection' /\ PopNeverFails'
  <2>1. /\ UNCHANGED <<conn, timer, taskConn, popFailed>> /\ chosen[id] \in Ws
        /\ Create(id, chosen[id], "created late")
    BY <1>11 DEF CreateProcess, connState, taskState, BaseInv, Types, ObjectInv
  <2> QED
    BY <1>1, <2>1, Creates, SameConnectionKept DEF PopNeverFails
<1>12. ASSUME NEW id \in ProcId, DeleteProcess(id) PROVE OneConnection' /\ PopNeverFails'
  BY <1>2, <1>12 DEF DeleteProcess, connState, taskState, procState
<1> QED
  BY <1>3, <1>4, <1>5, <1>6, <1>7, <1>8, <1>9, <1>10, <1>11, <1>12 DEF ServerStep, ServeStep


LEMMA StepOneConnection ==
  ASSUME ~ReconnectTimeout, BaseInv, EndInv, OneConnection, PopNeverFails,
         [SystemNext]_systemVars
  PROVE  EndInv' /\ OneConnection' /\ PopNeverFails'
<1>1. EndInv' /\ (Unpopped' => Unpopped)
  BY StepEnd
<1>2. CASE UNCHANGED serverVars
  BY <1>1, <1>2, SameConnectionKept DEF serverVars, PopNeverFails
<1>3. CASE ServerStep /\ UNCHANGED agentSide
  BY <1>1, <1>3, ServerStepOneConnection
<1> QED
  BY <1>2, <1>3 DEF SystemNext, systemVars

\* Without a reconnect timeout, an agent has one Connection until it ends.
ConnectionInv == BaseInv /\ EndInv /\ OneConnection /\ PopNeverFails

LEMMA InitConnection == SystemInit => ConnectionInv
<1> SUFFICES ASSUME SystemInit PROVE EndInv /\ OneConnection /\ PopNeverFails
  BY InitBase DEF ConnectionInv
<1>1. \A w \in Ws : ~done[w] /\ up[w] = <<>>
  BY DEF SystemInit, WireInit, ServerInit
<1>2. \A w \in Ws : ~Ending(w)
  BY <1>1 DEF Ending, Has
<1> QED
  BY <1>2 DEF SystemInit, ServerInit, EndInv, OneConnection, PopNeverFails

\* This is inductive: the Connection object is popped by the serve task that
\* received the agent's ShutDown(done), and only one does.
THEOREM ConnectionInvariance ==
  ASSUME ~ReconnectTimeout
  PROVE  SystemSpec => []ConnectionInv
<1>1. ConnectionInv /\ [SystemNext]_systemVars => ConnectionInv'
  BY StepBase, StepOneConnection DEF ConnectionInv
<1> QED
  BY <1>1, InitConnection, PTL DEF SystemSpec

\* A serve task that pops finds the Connection it expects: a reconnection
\* meanwhile uses the same object, and no other task has popped it.
THEOREM PopsSucceed ==
  ASSUME ~ReconnectTimeout
  PROVE  SystemSpec => []PopNeverFails
<1>1. ConnectionInv => PopNeverFails
  BY DEF ConnectionInv
<1> QED
  BY <1>1, ConnectionInvariance, PTL

\* The Process objects of an agent that serves use its one Connection.
THEOREM ProcessesUseTheConnection ==
  ASSUME ~ReconnectTimeout
  PROVE  SystemSpec => []SameConnection
<1>1. ConnectionInv => SameConnection
  BY DEF ConnectionInv, OneConnection, SameConnection, Quiet, Unpopped
<1> QED
  BY <1>1, ConnectionInvariance, PTL

-----------------------------------------------------------------------------
(* Steps of the server *)

\* What the server may read is what it could read before, less what it has
\* read; only the agent sends.
Reads(w) ==
  /\ \A A : Has(up'[w], A) => Has(up[w], A)
  /\ up[w] = <<>> => up'[w] = <<>>
  /\ spc'[w] = "login" => spc[w] = "login" /\ up'[w] = up[w]

LEMMA ServerReads ==
  ASSUME BaseInv, ServerStep
  PROVE  \A v \in Ws : Reads(v)
<1>1. CASE UNCHANGED up /\ \A v \in Ws : spc'[v] = "login" => spc[v] = "login"
  BY <1>1 DEF Reads
<1>2. ASSUME NEW w \in Ws, up[w] \in Seq(UpMsg), up[w] # <<>>,
             up' = [up EXCEPT ![w] = Tail(@)], spc'[w] # "login",
             \A v \in Ws : v # w => spc'[v] = spc[v]
      PROVE  \A v \in Ws : Reads(v)
  <2>1. up'[w] = Tail(up[w]) /\ \A v \in Ws : v # w => up'[v] = up[v]
    BY <1>2 DEF BaseInv, Types
  <2>2. \A A : Has(Tail(up[w]), A) => Has(up[w], A)
    BY <1>2, HasTail
  <2> QED
    BY <1>2, <2>1, <2>2 DEF Reads
<1>3. ASSUME NEW w \in Ws, ServerLeaves(w), spc'[w] # "login",
             \A v \in Ws : v # w => spc'[v] = spc[v]
      PROVE  \A v \in Ws : Reads(v)
  BY <1>3 DEF ServerLeaves, Reads
<1>4. ASSUME NEW w \in Ws, Login(w) PROVE \A v \in Ws : Reads(v)
  <2>1. /\ up[w] \in Seq(UpMsg) /\ up[w] # <<>> /\ up' = [up EXCEPT ![w] = Tail(@)]
        /\ spc'[w] # "login" /\ \A v \in Ws : v # w => spc'[v] = spc[v]
    BY <1>4 DEF Login, BaseInv, Types
  <2> QED
    BY <1>2, <2>1
<1>5. ASSUME NEW w \in Ws, ServerReceive(w) PROVE \A v \in Ws : Reads(v)
  <2>1. spc[w] = "recv" /\ up[w] \in Seq(UpMsg) /\ up[w] # <<>>
    BY <1>5, MessageReceived
  <2>2. CASE LeaveServerEnd(w) /\ spc' = [spc EXCEPT ![w] = "close"]
    <3>1. spc'[w] # "login" /\ \A v \in Ws : v # w => spc'[v] = spc[v]
      BY <2>2 DEF BaseInv, Types
    <3> QED
      BY <1>3, <2>2, <3>1, ServerCloses
  <2>3. CASE up' = [up EXCEPT ![w] = Tail(@)] /\ UNCHANGED spc
    BY <1>2, <2>1, <2>3
  <2> QED
    BY <1>5, <2>2, <2>3, MessageReceived
<1>6. ASSUME NEW w \in Ws, LoginFails(w) \/ ServerSeesEnd(w) \/ CloseOld(w) \/ ServerEndFails(w)
      PROVE  \A v \in Ws : Reads(v)
  <2>1. ServerLeaves(w)
    BY <1>6, ServerCloses DEF LoginFails, ServerSeesEnd, CloseOld, ServerEndFails
  <2>2. spc'[w] # "login" /\ \A v \in Ws : v # w => spc'[v] = spc[v]
    BY <1>6 DEF LoginFails, ServerSeesEnd, CloseOld, ServerEndFails, BaseInv, Types, TaskInv,
       Added, Tasks, taskState, serverVars
  <2> QED
    BY <1>3, <2>1, <2>2
<1>7. ASSUME NEW w \in Ws, RequestResult(w) PROVE \A v \in Ws : Reads(v)
  <2>1. CASE spc' = [spc EXCEPT ![w] = "close"] /\ LeaveServerEnd(w)
    <3>1. spc'[w] # "login" /\ \A v \in Ws : v # w => spc'[v] = spc[v]
      BY <2>1 DEF BaseInv, Types
    <3> QED
      BY <1>3, <2>1, <3>1, ServerCloses
  <2>2. CASE spc' = [spc EXCEPT ![w] = "recv"] /\ UNCHANGED wireVars
    BY <1>1, <2>2 DEF BaseInv, Types, wireVars
  <2>3. CASE UNCHANGED spc /\ \E id \in ProcId :
               ServerSend(connWs[taskConn[w]], <<ProcResultRequest(id)>>)
    BY <1>1, <2>3 DEF ServerSend
  <2> QED
    BY <1>7, <2>1, <2>2, <2>3, Requests
<1>8. ASSUME NEW w \in Ws, AddAndReconcile(w) \/ FinishConnection(w) \/ ReconnectTimesOut(w)
      PROVE  \A v \in Ws : Reads(v)
  BY <1>1, <1>8 DEF AddAndReconcile, FinishConnection, ReconnectTimesOut, wireVars, taskState,
     BaseInv, Types
<1>9. ASSUME NEW id \in ProcId, ChooseConnection(id) \/ CreateProcess(id) \/ DeleteProcess(id)
                                \/ SendStart(id)
      PROVE  \A v \in Ws : Reads(v)
  BY <1>1, <1>9 DEF ChooseConnection, CreateProcess, DeleteProcess, SendStart,
     ServerSend, wireVars, taskState
<1> QED
  BY <1>4, <1>5, <1>6, <1>7, <1>8, <1>9 DEF ServerStep, ServeStep

-----------------------------------------------------------------------------
(* Steps of the registry *)

\* A change of the shutdown state is told, and never a state ahead of it.
LEMMA ShutdownTold ==
  ASSUME BaseInv, NEW ns, SystemOp(ns)
  PROVE  /\ Ahead' \subseteq Ahead
         /\ ~Has(ns, NotYetTold')
         /\ shutdown' # shutdown =>
              shutdown' \in {"idling", "done"} /\ Has(ns, {ShutDown(shutdown')})
<1> DEFINE Goal == /\ Ahead' \subseteq Ahead
                   /\ ~Has(ns, NotYetTold')
                   /\ shutdown' # shutdown =>
                        /\ shutdown' \in {"idling", "done"}
                        /\ Has(ns, {ShutDown(shutdown')})
<1>1. \A n : n[1] # "ShutDown" => n \notin NotYetTold'
  BY DEF NotYetTold, ShutDown
<1>2. shutdown \in ShutdownState
  BY DEF BaseInv, Types, RegistryTypes
<1>3. CASE UNCHANGED shutdown /\ \E n : n[1] # "ShutDown" /\ ns \in {<<>>, <<n>>}
  <2>1. Ahead' = Ahead
    BY <1>3 DEF Ahead
  <2>2. PICK n : n[1] # "ShutDown" /\ ns \in {<<>>, <<n>>}
    BY <1>3
  <2>3. ~Has(<<>>, NotYetTold') /\ (Has(<<n>>, NotYetTold') => n \in NotYetTold')
    BY HasOne
  <2>4. ~Has(ns, NotYetTold')
    BY <1>1, <2>2, <2>3
  <2> QED
    BY <1>3, <2>1, <2>4
<1>4. \A id : Start(id)[1] = "Start" /\ NotRunning(id)[1] = "NotRunning"
              /\ Delete(id)[1] = "Delete"
  BY DEF Start, NotRunning, Delete
<1>5. ASSUME NEW id \in ProcId, NEW c \in Proc, NEW st \in States, StartProc(id, c, st),
             ns = <<Start(id)>>
      PROVE  Goal
  BY <1>3, <1>4, <1>5 DEF StartProc
<1>6. ASSUME NEW c \in Proc, NEW st \in States, StopProc(c, st), ns = <<>> PROVE Goal
  BY <1>3, <1>4, <1>6 DEF StopProc
<1>7. ASSUME NEW c \in Proc, TellNotRunning(c), ns = <<NotRunning(idOf[c])>> PROVE Goal
  BY <1>3, <1>4, <1>7 DEF TellNotRunning
<1>8. Has(<<ShutDown("done")>>, {ShutDown("done")})
      /\ (shutdown' = "done" => ~Has(<<ShutDown("done")>>, NotYetTold'))
  <2>1. shutdown' = "done" => ShutDown("done") \notin NotYetTold'
    BY DEF NotYetTold, Ahead, ShutDown
  <2> QED
    BY <2>1, HasOne
<1>9. \A id \in ProcId : <<Delete(id)>> \in Seq(Notification)
  BY DEF Notification, Delete
<1>10. <<ShutDown("done")>> \in Seq(Notification) /\ <<ShutDown("idling")>> \in Seq(Notification)
  BY DEF Notification, ShutDown, ShutdownState
<1>11. ASSUME NEW id \in ProcId, DeleteProc(id),
              ns = CheckIdlingSends(procs', shutdown) \o <<Delete(id)>>
       PROVE  Goal
  <2>1. CASE IsEmpty(procs') /\ shutdown = "idling"
    <3>1. shutdown' = "done" /\ ns = <<ShutDown("done")>> \o <<Delete(id)>>
      BY <1>11, <2>1 DEF DeleteProc, AfterCheckIdling, CheckIdlingSends
    <3>2. ~Has(<<Delete(id)>>, NotYetTold')
      BY <1>1, <1>4, HasOne
    <3>3. ~Has(ns, NotYetTold') /\ Has(ns, {ShutDown("done")})
      BY <1>8, <1>9, <1>10, <3>1, <3>2, HasConcat
    <3> QED
      BY <3>1, <3>3 DEF Ahead
  <2>2. CASE ~(IsEmpty(procs') /\ shutdown = "idling")
    <3>1. shutdown' = shutdown /\ ns = <<>> \o <<Delete(id)>>
      BY <1>11, <2>2 DEF DeleteProc, AfterCheckIdling, CheckIdlingSends
    <3>2. ns = <<Delete(id)>>
      BY <3>1
    <3> QED
      BY <1>3, <1>4, <3>1, <3>2
  <2> QED
    BY <2>1, <2>2
<1>12. ASSUME NEW st \in {"idling", "done"}, SetShutdown(st), shutdown \in EarlierThan(st),
              ns = <<ShutDown(st)>> \o CheckIdlingSends(procs, st)
       PROVE  Goal
  <2>1. shutdown' = AfterCheckIdling(procs, st)
    BY <1>12 DEF SetShutdown, set_shutdown
  <2>2. CASE IsEmpty(procs) /\ st = "idling"
    <3>1. shutdown' = "done" /\ ns = <<ShutDown("idling")>> \o <<ShutDown("done")>>
      BY <1>12, <2>1, <2>2 DEF AfterCheckIdling, CheckIdlingSends
    <3>2. ShutDown("idling") \notin NotYetTold'
      BY <3>1 DEF NotYetTold, Ahead, ShutDown
    <3>3. ~Has(<<ShutDown("idling")>>, NotYetTold')
      BY <3>2, HasOne
    <3>4. ~Has(ns, NotYetTold') /\ Has(ns, {ShutDown("done")})
      BY <1>8, <1>10, <3>1, <3>3, HasConcat
    <3> QED
      BY <1>12, <2>2, <3>1, <3>4 DEF Ahead, EarlierThan
  <2>3. CASE ~(IsEmpty(procs) /\ st = "idling")
    <3>1. shutdown' = st /\ ns = <<ShutDown(st)>> \o <<>>
      BY <1>12, <2>1, <2>3 DEF AfterCheckIdling, CheckIdlingSends
    <3>2. ns = <<ShutDown(st)>>
      BY <3>1
    <3>3. ShutDown(st) \notin NotYetTold'
      BY <1>12, <3>1 DEF NotYetTold, Ahead, ShutDown
    <3>4. ~Has(ns, NotYetTold') /\ Has(ns, {ShutDown(st)})
      BY <3>2, <3>3, HasOne
    <3> QED
      BY <1>12, <3>1, <3>4 DEF Ahead, EarlierThan
  <2> QED
    BY <2>2, <2>3
<1> HIDE DEF Goal
<1>13. Goal
  BY <1>5, <1>6, <1>7, <1>11, <1>12 DEF SystemOp
<1> QED
  BY <1>13 DEF Goal

\* What is notified while the agent is registering is missed.
LEMMA RegistryMisses ==
  ASSUME BaseInv, RegistryStep
  PROVE  /\ missed \subseteq missed'
         /\ apc = "registering" =>
              /\ shutdown' # shutdown => "shutdown" \in missed'
              /\ \A id \in ProcId : (procs'[id] # None) # (procs[id] # None) => id \in missed'
<1>1. ASSUME NEW c \in Proc, NEW st \in States, ProcStops(c, st)
      PROVE  UNCHANGED <<missed, shutdown, procs>>
  BY <1>1 DEF ProcStops, StopProc
<1>2. ASSUME NEW c \in Proc, ProcTold(c) PROVE UNCHANGED <<missed, shutdown, procs>>
  BY <1>2 DEF ProcTold, TellNotRunning
<1>3. ASSUME NEW st \in ShutdownState, SignalShutsDown(st)
      PROVE  UNCHANGED procs /\ Missing({"shutdown"})
  BY <1>3 DEF SignalShutsDown, SetShutdown, set_shutdown
<1>4. ASSUME NEW id \in ProcId, NEW c \in Proc, NEW st \in States, OtherStarts(id, c, st)
      PROVE  /\ UNCHANGED shutdown /\ Missing({id})
             /\ \A i \in ProcId : i # id => procs'[i] = procs[i]
  BY <1>4 DEF OtherStarts, StartProc, BaseInv, Types, RegistryTypes
<1>5. ASSUME NEW id \in ProcId, OtherDeletes(id)
      PROVE  /\ Missing({id, "shutdown"})
             /\ \A i \in ProcId : i # id => procs'[i] = procs[i]
  BY <1>5 DEF OtherDeletes, DeleteProc, BaseInv, Types, RegistryTypes
<1> QED
  BY <1>1, <1>2, <1>3, <1>4, <1>5 DEF RegistryStep, Missing


\* A start and a deletion are told; nothing else about a proc ID that the
\* registry has.
LEMMA ProcsTold ==
  ASSUME BaseInv, NEW ns, SystemOp(ns), NEW id \in ProcId
  PROVE  /\ procs[id] = None /\ procs'[id] # None => Last(ns, {Start(id)}, {Delete(id)})
         /\ procs[id] # None /\ procs'[id] = None => Has(ns, {Delete(id)})
         /\ procs'[id] # None => ~Has(ns, {Delete(id)})
<1> DEFINE Goal == /\ procs[id] = None /\ procs'[id] # None =>
                        Last(ns, {Start(id)}, {Delete(id)})
                   /\ procs[id] # None /\ procs'[id] = None => Has(ns, {Delete(id)})
                   /\ procs'[id] # None => ~Has(ns, {Delete(id)})
<1>1. /\ \A st : ShutDown(st) # Delete(id)
      /\ \A i : Start(i) # Delete(id) /\ NotRunning(i) # Delete(id)
  BY DEF Delete, ShutDown, Start, NotRunning
<1>2. ASSUME NEW i \in ProcId, NEW c \in Proc, NEW st \in States, StartProc(i, c, st),
             ns = <<Start(i)>>
      PROVE  Goal
  <2>1. /\ procs[i] = None /\ procs' = [procs EXCEPT ![i] = c] /\ c # None
        /\ procs \in [ProcId -> Proc \cup {None}]
    BY <1>2, RegistryAssumption DEF StartProc, BaseInv, Types, RegistryTypes
  <2>2. ~Has(ns, {Delete(id)})
    BY <1>1, <1>2, HasOne
  <2>3. id = i => Last(ns, {Start(id)}, {Delete(id)})
    BY <1>2, HasOne
  <2> QED
    BY <2>1, <2>2, <2>3
<1>3. ASSUME NEW c \in Proc, NEW st \in States, StopProc(c, st), ns = <<>> PROVE Goal
  BY <1>3, HasOne DEF StopProc
<1>4. ASSUME NEW c \in Proc, TellNotRunning(c), ns = <<NotRunning(idOf[c])>> PROVE Goal
  BY <1>1, <1>4, HasOne DEF TellNotRunning
<1>5. \A p, st : /\ CheckIdlingSends(p, st) \in Seq(Notification)
                 /\ ~Has(CheckIdlingSends(p, st), {Delete(id)})
  <2>1. <<>> \in Seq(Notification) /\ <<ShutDown("done")>> \in Seq(Notification)
    BY DEF Notification, ShutDown, ShutdownState
  <2>2. ~Has(<<>>, {Delete(id)}) /\ ~Has(<<ShutDown("done")>>, {Delete(id)})
    BY <1>1, HasOne
  <2> QED
    BY <2>1, <2>2 DEF CheckIdlingSends
<1>6. ASSUME NEW i \in ProcId, DeleteProc(i),
             ns = CheckIdlingSends(procs', shutdown) \o <<Delete(i)>>
      PROVE  Goal
  <2>1. /\ procs' = [procs EXCEPT ![i] = None]
        /\ procs \in [ProcId -> Proc \cup {None}]
    BY <1>6 DEF DeleteProc, BaseInv, Types, RegistryTypes
  <2>2. <<Delete(i)>> \in Seq(Notification)
    BY DEF Notification, Delete
  <2>3. Has(<<Delete(i)>>, {Delete(id)}) <=> i = id
    BY HasOne DEF Delete
  <2> DEFINE p == CheckIdlingSends(procs', shutdown)
             D == {Delete(id)}
  <2>4. p \in Seq(Notification) /\ ~Has(p, D)
    BY <1>5
  <2> HIDE DEF p
  <2>5. Has(p \o <<Delete(i)>>, D) <=> Has(p, D) \/ Has(<<Delete(i)>>, D)
    BY <2>2, <2>4, HasConcat
  <2>6. Has(ns, {Delete(id)}) <=> i = id
    BY <1>6, <2>3, <2>4, <2>5 DEF p
  <2> QED
    BY <2>1, <2>6
<1>7. ASSUME NEW st \in {"idling", "done"}, SetShutdown(st),
             ns = <<ShutDown(st)>> \o CheckIdlingSends(procs, st)
      PROVE  Goal
  <2>1. <<ShutDown(st)>> \in Seq(Notification)
    BY DEF Notification, ShutDown, ShutdownState
  <2>2. ~Has(<<ShutDown(st)>>, {Delete(id)})
    BY <1>1, HasOne
  <2> DEFINE p == CheckIdlingSends(procs, st)
             D == {Delete(id)}
  <2>3. p \in Seq(Notification) /\ ~Has(p, D)
    BY <1>5
  <2> HIDE DEF p
  <2>4. Has(<<ShutDown(st)>> \o p, D) <=> Has(<<ShutDown(st)>>, D) \/ Has(p, D)
    BY <2>1, <2>3, HasConcat
  <2>5. ~Has(ns, {Delete(id)})
    BY <1>7, <2>2, <2>3, <2>4 DEF p
  <2> QED
    BY <1>7, <2>5 DEF SetShutdown, set_shutdown
<1> HIDE DEF Goal
<1>8. Goal
  BY <1>2, <1>3, <1>4, <1>6, <1>7 DEF SystemOp
<1> QED
  BY <1>8 DEF Goal

\* A request that changes the registry is an operation on it.
LEMMA HandlesOp ==
  ASSUME NEW id \in ProcId, NEW ms, Handles(id, ms)
  PROVE  UNCHANGED vars \/ \E ns : SystemOp(ns)
<1>1. ASSUME NEW c \in Proc, NEW st \in States, StartProc(id, c, st)
      PROVE  SystemOp(<<Start(id)>>)
  BY <1>1 DEF SystemOp
<1>2. ASSUME DeleteProc(id)
      PROVE  SystemOp(CheckIdlingSends(procs', shutdown) \o <<Delete(id)>>)
  BY <1>2 DEF SystemOp
<1> QED
  BY <1>1, <1>2 DEF Handles

-----------------------------------------------------------------------------
(* The agent's notifications *)

LEMMA StepQueue ==
  ASSUME BaseInv, QueueInv, [SystemNext]_systemVars
  PROVE  QueueInv'
<1>1. CASE UNCHANGED <<subq, apc>>
  BY <1>1 DEF QueueInv
<1>2. CASE RegistryStep
  <2>1. PICK ns : SystemOp(ns)
    BY <1>2, RegistryStepOp
  <2>2. apc' = apc
    BY <1>2 DEF RegistryStep
  <2> QED
    BY <2>1, <2>2, RegistryBase DEF QueueInv
<1>3. CASE AgentStep /\ UNCHANGED serverVars
  <2>1. ASSUME NEW w \in Ws, Connect(w) PROVE QueueInv'
    <3>1. UNCHANGED subq /\ apc # "serving"
      BY <2>1 DEF Connect, vars, notifyVars
    <3> QED
      BY <3>1 DEF QueueInv
  <2>2. CASE AgentTop \/ CannotConnect \/ RegisterFails \/ SleepEnds
    <3>1. UNCHANGED subq /\ apc # "serving"
      BY <2>2 DEF AgentTop, CannotConnect, RegisterFails, SleepEnds, ConnectFailed, vars,
         notifyVars
    <3> QED
      BY <3>1 DEF QueueInv
  <2>3. CASE AgentRegistered
    BY <2>3 DEF AgentRegistered, QueueInv
  <2>4. CASE Disconnect
    BY <2>4, AgentAssumption DEF Disconnect, DropSubscription, Unsubscribe, QueueInv, BaseInv,
       Types
  <2>5. CASE ForwardNotification
    BY <2>5, AgentAssumption DEF ForwardNotification, Unsubscribe, QueueInv, BaseInv, Types
  <2>6. CASE HandleMessage
    BY <2>6 DEF HandleMessage, QueueInv, agentVars
  <2> QED
    BY <1>3, <2>1, <2>2, <2>3, <2>4, <2>5, <2>6 DEF AgentStep
<1> QED
  BY <1>1, <1>2, <1>3 DEF SystemNext, systemVars, agentSide, agentVars, vars, notifyVars

-----------------------------------------------------------------------------
(* Nobody is ahead of the registry *)

LEMMA LessAhead ==
  ASSUME Ahead' \subseteq Ahead, NEW q
  PROVE  /\ Has(q, NotYetSent') => Has(q, NotYetSent)
         /\ Has(q, NotYetTold') => Has(q, NotYetTold)
<1>1. NotYetSent' \subseteq NotYetSent /\ NotYetTold' \subseteq NotYetTold
  BY DEF NotYetSent, NotYetTold
<1> QED
  BY <1>1 DEF Has

\* The registry goes on, and tells the agent.
LEMMA RegistryAhead ==
  ASSUME BaseInv, AheadInv, NEW ns, SystemOp(ns)
  PROVE  Ahead' \subseteq Ahead /\ ~Has(subq'["agent"], NotYetTold')
<1>1. Ahead' \subseteq Ahead /\ ~Has(ns, NotYetTold')
  BY ShutdownTold
<1>2. ~Has(subq["agent"], NotYetTold')
  BY <1>1, LessAhead DEF AheadInv
<1>3. subq["agent"] \in Seq(Notification) /\ ns \in Seq(Notification)
  BY AgentAssumption, RegistryBase DEF BaseInv, Types
<1>4. ~Has(subq["agent"] \o ns, NotYetTold') /\ ~Has(<<>>, NotYetTold')
  BY <1>1, <1>2, <1>3, HasConcat, HasOne
<1> QED
  BY <1>1, <1>2, <1>4, RegistryBase

\* The server has what it had, and no more is sent but what the agent was told.
LEMMA TasksStayBehind ==
  ASSUME AheadInv, Ahead' \subseteq Ahead, UNCHANGED serverVars,
         \A w \in Ws : /\ Has(up'[w], NotYetSent) => Has(up[w], NotYetSent)
                       /\ spc[w] = "login" => up'[w] \in {<<>>, up[w]}
  PROVE  \A w \in Ws : TaskBehind(w)'
<1> SUFFICES ASSUME NEW w \in Ws PROVE TaskBehind(w)'
  OBVIOUS
<1>1. TaskBehind(w) /\ UNCHANGED <<spc, register, connShut>>
  BY DEF AheadInv, serverVars
<1>2. ~Has(up'[w], NotYetSent')
  BY <1>1, LessAhead DEF TaskBehind
<1> QED
  BY <1>1, <1>2 DEF TaskBehind

\* The agent serves, and sends what is not ahead.
LEMMA ServesBehind ==
  ASSUME BaseInv, AheadInv, NEW ms, AgentServes(ms), ~Has(ms, NotYetSent),
         Ahead' \subseteq Ahead
  PROVE  \A w \in Ws : TaskBehind(w)'
<1>1. ws \in Ws /\ up[ws] \in Seq(UpMsg) /\ ms \in Seq(UpMsg) /\ spc[ws] # "login"
  BY DEF AgentServes, BaseInv, TypeOK, Types, AgentInv
<1>2. up' = [up EXCEPT ![ws] = Sent(up[ws], serverEnd[ws], ms)] /\ UNCHANGED serverVars
  BY DEF AgentServes, AgentSend
<1>3. Has(Sent(up[ws], serverEnd[ws], ms), NotYetSent) => Has(up[ws], NotYetSent)
  BY <1>1, HasConcat DEF Sent
<1>4. \A w \in Ws : /\ Has(up'[w], NotYetSent) => Has(up[w], NotYetSent)
                    /\ spc[w] = "login" => up'[w] \in {<<>>, up[w]}
  BY <1>1, <1>2, <1>3 DEF BaseInv, Types
<1> QED
  BY <1>2, <1>4, TasksStayBehind

\* A notification that may be told is sent as a message that may be sent.
LEMMA ForwardsBehind ==
  ASSUME BaseInv, NEW n \in Notification, n \notin NotYetTold
  PROVE  ~Has(notification_to_message(n), NotYetSent)
<1> DEFINE ms == notification_to_message(n)
<1>1. ASSUME NEW id \in ProcId, n \in {Start(id), NotRunning(id)} PROVE ~Has(ms, NotYetSent)
  <2>1. ms = <<>> \/ ms = <<ProcResult(id, state[procs[id]])>>
    BY <1>1, MessageForNotification
  <2>2. ProcResult(id, state[procs[id]]) \notin NotYetSent
    BY DEF ProcResult, ShutDownMsg, NotYetSent
  <2> QED
    BY <2>1, <2>2, HasOne
<1>2. ASSUME NEW id \in ProcId, n = Delete(id) PROVE ~Has(ms, NotYetSent)
  <2>1. ms = <<ProcDelete(id)>>
    BY <1>2, MessageForNotification
  <2>2. ProcDelete(id) \notin NotYetSent
    BY DEF ProcDelete, ShutDownMsg, NotYetSent
  <2> QED
    BY <2>1, <2>2, HasOne
<1>3. ASSUME NEW st \in ShutdownState, n = ShutDown(st) PROVE ~Has(ms, NotYetSent)
  <2>1. ms = <<ShutDownMsg(st)>>
    BY <1>3, MessageForNotification
  <2>2. st \notin Ahead \cup {"active"}
    BY <1>3 DEF NotYetTold
  <2>3. ShutDownMsg(st) \notin NotYetSent
    BY <2>2 DEF NotYetSent, ShutDownMsg
  <2> QED
    BY <2>1, <2>3, HasOne
<1> QED
  BY <1>1, <1>2, <1>3, NotificationKinds

LEMMA AgentStepAhead ==
  ASSUME BaseInv, AheadInv, AgentStep, UNCHANGED serverVars
  PROVE  AheadInv'
<1>1. ASSUME UNCHANGED <<shutdown, subq>>,
             \A w \in Ws : /\ Has(up'[w], NotYetSent) => Has(up[w], NotYetSent)
                           /\ spc[w] = "login" => up'[w] \in {<<>>, up[w]}
      PROVE  AheadInv'
  <2>1. Ahead' = Ahead /\ NotYetTold' = NotYetTold
    BY <1>1 DEF Ahead, NotYetTold
  <2> QED
    BY <1>1, <2>1, TasksStayBehind DEF AheadInv
<1>2. CASE AgentTop \/ CannotConnect \/ SleepEnds
  BY <1>1, <1>2 DEF AgentTop, CannotConnect, SleepEnds, ConnectFailed, vars, registryVars,
     notifyVars, wireVars
<1>3. ASSUME NEW w \in Ws, Connect(w) PROVE AheadInv'
  <2> DEFINE r == Register(Live, shutdown)
  <2>1. /\ UNCHANGED <<shutdown, subq, spc, register, connShut>>
        /\ up' = [up EXCEPT ![w] = <<r>>] /\ up \in [Ws -> Seq(UpMsg)]
    BY <1>3 DEF Connect, vars, registryVars, notifyVars, serverVars, BaseInv, Types
  <2>2. Ahead' = Ahead /\ NotYetTold' = NotYetTold /\ NotYetSent' = NotYetSent
    BY <2>1 DEF Ahead, NotYetTold, NotYetSent
  <2>3. r \notin NotYetSent
    BY DEF Register, NotYetSent, ShutDownMsg
  <2>4. ~Has(<<r>>, NotYetSent)
    BY <2>3, HasOne
  <2>5. r.st \notin Ahead
    BY DEF Register, Ahead
  <2>6. ASSUME NEW v \in Ws PROVE TaskBehind(v)'
    <3>1. TaskBehind(v)
      BY DEF AheadInv
    <3>2. CASE v # w
      BY <2>1, <2>2, <3>1, <3>2 DEF TaskBehind
    <3>3. CASE v = w
      <4>1. up'[v] = <<r>> /\ up'[v][1] = r
        BY <2>1, <3>3
      <4> HIDE DEF r
      <4> QED
        BY <2>1, <2>2, <2>4, <2>5, <3>1, <4>1 DEF TaskBehind
    <3> QED
      BY <3>2, <3>3
  <2> QED
    BY <2>1, <2>2, <2>6 DEF AheadInv
<1>4. ASSUME ws \in Ws, ws' = None, CloseAgentEnd(ws)
      PROVE  \A w \in Ws : /\ Has(up'[w], NotYetSent) => Has(up[w], NotYetSent)
                           /\ spc[w] = "login" => up'[w] \in {<<>>, up[w]}
  <2>1. AgentLeaves
    BY <1>4, CloseAgentLeaves
  <2>2. PICK q \in Arrives(up[ws]) : up' = [up EXCEPT ![ws] = q]
    BY <1>4 DEF CloseAgentEnd
  <2>3. Has(q, NotYetSent) => Has(up[ws], NotYetSent)
    BY <1>4, HasPrefix DEF BaseInv, Types
  <2> QED
    BY <2>1, <2>2, <2>3 DEF AgentLeaves, BaseInv, Types
<1>5. CASE RegisterFails
  BY <1>1, <1>4, <1>5 DEF RegisterFails, ConnectFailed, vars, registryVars, notifyVars,
     BaseInv, TypeOK
<1>6. ASSUME UNCHANGED shutdown, subq'["agent"] = <<>>, \A w \in Ws : TaskBehind(w)'
      PROVE  AheadInv'
  BY <1>6, HasOne DEF AheadInv
<1>7. CASE Disconnect
  <2>1. /\ UNCHANGED shutdown /\ subq'["agent"] = <<>>
        /\ ws \in Ws /\ ws' = None /\ CloseAgentEnd(ws)
    BY <1>7, AgentAssumption DEF Disconnect, DropSubscription, Unsubscribe, registryVars,
       BaseInv, Types, TypeOK
  <2>2. Ahead' = Ahead
    BY <2>1 DEF Ahead
  <2> QED
    BY <1>4, <1>6, <2>1, <2>2, TasksStayBehind
<1>8. CASE AgentRegistered
  <2>1. UNCHANGED <<shutdown, up>> /\ subq'["agent"] = <<>>
    BY <1>8, AgentAssumption DEF AgentRegistered, Subscribe, registryVars, BaseInv, Types
  <2>2. Ahead' = Ahead
    BY <2>1 DEF Ahead
  <2> QED
    BY <1>6, <2>1, <2>2, TasksStayBehind
<1>9. CASE ForwardNotification
  <2> DEFINE q == subq["agent"]
             n == Head(q)
             ms == notification_to_message(n)
  <2>1. /\ q \in Seq(Notification) /\ q # <<>> /\ n \in Notification
        /\ UNCHANGED shutdown /\ ws \in Ws /\ apc = "serving"
    BY <1>9, Forwards DEF registryVars
  <2>2. n \notin NotYetTold /\ ~Has(Tail(q), NotYetTold)
    BY <2>1, HasTail DEF AheadInv
  <2>3. ~Has(ms, NotYetSent) /\ ms \in Seq(UpMsg)
    BY <2>1, <2>2, ForwardsBehind, MessageForNotification
  <2>4. Ahead' = Ahead /\ NotYetTold' = NotYetTold
    BY <2>1 DEF Ahead, NotYetTold
  <2>5. CASE AgentServes(ms) /\ subq'["agent"] = Tail(q)
    BY <2>2, <2>3, <2>4, <2>5, ServesBehind DEF AheadInv
  <2>6. CASE /\ AgentLeaves /\ n = ShutDown("done")
             /\ up' = [up EXCEPT ![ws] = Sent(@, serverEnd[ws], ms)]
    <3>1. subq'["agent"] = <<>>
      BY <1>9, <2>6, AgentAssumption DEF ForwardNotification, EndsLoop, Unsubscribe, BaseInv, Types
    <3>2. up[ws] \in Seq(UpMsg) /\ spc[ws] # "login"
      BY <2>1 DEF BaseInv, Types, AgentInv
    <3>3. Has(Sent(up[ws], serverEnd[ws], ms), NotYetSent) => Has(up[ws], NotYetSent)
      BY <2>3, <3>2, HasConcat DEF Sent
    <3>4. \A w \in Ws : /\ Has(up'[w], NotYetSent) => Has(up[w], NotYetSent)
                        /\ spc[w] = "login" => up'[w] \in {<<>>, up[w]}
      BY <2>1, <2>6, <3>2, <3>3 DEF BaseInv, Types
    <3> QED
      BY <1>6, <2>1, <2>4, <3>1, <3>4, TasksStayBehind
  <2> QED
    BY <1>9, <2>5, <2>6, Forwards
<1>10. CASE HandleMessage
  <2>1. PICK id \in ProcId, ms \in Seq(UpMsg) : AgentServes(ms) /\ Handles(id, ms)
    BY <1>10, RequestHandled
  <2>2. ~Has(ms, NotYetSent)
    <3>1. /\ RequestError(id) \notin NotYetSent /\ ProcUnknown(id) \notin NotYetSent
          /\ \A st : ProcResult(id, st) \notin NotYetSent
      BY DEF RequestError, ProcUnknown, ProcResult, ShutDownMsg, NotYetSent
    <3> QED
      BY <2>1, <3>1, HasOne DEF Handles
  <2>3. CASE UNCHANGED vars
    <3>1. Ahead' = Ahead /\ NotYetTold' = NotYetTold /\ subq' = subq
      BY <2>3 DEF Ahead, NotYetTold, vars, registryVars, notifyVars
    <3> QED
      BY <2>1, <2>2, <3>1, ServesBehind DEF AheadInv
  <2>4. ASSUME NEW ns, SystemOp(ns) PROVE AheadInv'
    <3>1. Ahead' \subseteq Ahead /\ ~Has(subq'["agent"], NotYetTold')
      BY <2>4, RegistryAhead
    <3> QED
      BY <2>1, <2>2, <3>1, ServesBehind DEF AheadInv
  <2> QED
    BY <2>1, <2>3, <2>4, HandlesOp
<1> QED
  BY <1>2, <1>3, <1>5, <1>7, <1>8, <1>9, <1>10 DEF AgentStep


LEMMA ServerStepAhead ==
  ASSUME BaseInv, AheadInv, ServerStep, UNCHANGED agentSide
  PROVE  AheadInv'
<1>1. Ahead' = Ahead /\ NotYetTold' = NotYetTold /\ NotYetSent' = NotYetSent /\ subq' = subq
  BY AgentSideKept DEF Ahead, NotYetTold, NotYetSent
<1>2. \A w \in Ws : Reads(w) /\ TaskBehind(w)
  BY ServerReads DEF AheadInv
<1>3. SUFFICES \A w \in Ws : /\ spc'[w] = "add" => register'[w].st \notin Ahead
                             /\ connShut'[w] \notin Ahead
  BY <1>1, <1>2 DEF AheadInv, TaskBehind, Reads
<1>4. CASE UNCHANGED connShut /\ \A w \in Ws : spc'[w] = "add" =>
             spc[w] = "add" /\ register'[w] = register[w]
  BY <1>2, <1>4 DEF TaskBehind
<1>5. ASSUME NEW w \in Ws, Login(w)
      PROVE  \A v \in Ws : /\ spc'[v] = "add" => register'[v].st \notin Ahead
                           /\ connShut'[v] \notin Ahead
  <2>1. /\ spc[w] = "login" /\ up[w] # <<>> /\ up[w] \in Seq(UpMsg)
        /\ register' = [register EXCEPT ![w] = Head(up[w])]
        /\ UNCHANGED connShut /\ \A v \in Ws : v # w => spc'[v] = spc[v]
    BY <1>5 DEF Login, connState, BaseInv, Types
  <2>2. Head(up[w]).st \notin Ahead
    BY <1>2, <2>1 DEF TaskBehind
  <2>3. register'[w] = Head(up[w]) /\ \A v \in Ws : v # w => register'[v] = register[v]
    BY <2>1 DEF BaseInv, Types
  <2> QED
    BY <1>2, <2>1, <2>2, <2>3 DEF TaskBehind
<1>6. ASSUME NEW w \in Ws, AddAndReconcile(w)
      PROVE  \A v \in Ws : /\ spc'[v] = "add" => register'[v].st \notin Ahead
                           /\ connShut'[v] \notin Ahead
  <2>1. PICK o \in Ws : connShut' = [connShut EXCEPT ![o] = register[w].st]
    BY <1>6, Adds
  <2>2. /\ spc[w] = "add" /\ spc' = [spc EXCEPT ![w] = "request"]
        /\ register' = [register EXCEPT ![w] = None]
    BY <1>6, Adds
  <2>3. register[w].st \notin Ahead
    BY <1>2, <2>2 DEF TaskBehind
  <2>4. \A v \in Ws : connShut'[v] \notin Ahead
    BY <1>2, <2>1, <2>3 DEF TaskBehind, BaseInv, Types
  <2>5. \A v \in Ws : spc'[v] = "add" => spc[v] = "add" /\ register'[v] = register[v]
    BY <2>2 DEF BaseInv, Types
  <2> QED
    BY <1>2, <2>4, <2>5 DEF TaskBehind
<1>7. ASSUME NEW w \in Ws, ServerReceive(w)
      PROVE  \A v \in Ws : /\ spc'[v] = "add" => register'[v].st \notin Ahead
                           /\ connShut'[v] \notin Ahead
  <2>1. /\ up[w] \in Seq(UpMsg) /\ up[w] # <<>> /\ taskConn[w] \in Ws
        /\ UNCHANGED register /\ \A v \in Ws : spc'[v] = "add" => spc[v] = "add"
    BY <1>7, MessageReceived DEF BaseInv, Types
  <2>2. CASE UNCHANGED connShut
    BY <1>4, <2>1, <2>2
  <2>3. ASSUME NEW st \in ShutdownState, Head(up[w]) = ShutDownMsg(st),
               connShut' = [connShut EXCEPT ![taskConn[w]] = st]
        PROVE  \A v \in Ws : connShut'[v] \notin Ahead
    <3>1. Head(up[w]) \notin NotYetSent
      BY <1>2, <2>1, HasTail DEF TaskBehind
    <3>2. st \notin Ahead
      BY <2>3, <3>1 DEF NotYetSent
    <3> QED
      BY <1>2, <2>1, <2>3, <3>2 DEF TaskBehind, BaseInv, Types
  <2>4. UNCHANGED connShut \/ \E st \in ShutdownState :
          Head(up[w]) = ShutDownMsg(st) /\ connShut' = [connShut EXCEPT ![taskConn[w]] = st]
    BY <1>7, MessageReceived DEF Receives
  <2> QED
    BY <1>2, <2>1, <2>2, <2>3, <2>4 DEF TaskBehind
<1>8. ASSUME NEW w \in Ws, RequestResult(w)
      PROVE  UNCHANGED connShut /\ \A v \in Ws : spc'[v] = "add" =>
               spc[v] = "add" /\ register'[v] = register[v]
  BY <1>8, Requests DEF connState, BaseInv, Types
<1>9. ASSUME NEW w \in Ws, LoginFails(w) \/ ServerSeesEnd(w) \/ CloseOld(w) \/ ServerEndFails(w)
                           \/ FinishConnection(w) \/ ReconnectTimesOut(w)
      PROVE  UNCHANGED connShut /\ \A v \in Ws : spc'[v] = "add" =>
               spc[v] = "add" /\ register'[v] = register[v]
  BY <1>9 DEF LoginFails, ServerSeesEnd, CloseOld, ServerEndFails, FinishConnection,
     ReconnectTimesOut, connState, taskState, serverVars, BaseInv, Types
<1>10. ASSUME NEW id \in ProcId, ChooseConnection(id) \/ CreateProcess(id) \/ DeleteProcess(id)
                                 \/ SendStart(id)
       PROVE  UNCHANGED connShut /\ \A v \in Ws : spc'[v] = "add" =>
                spc[v] = "add" /\ register'[v] = register[v]
  BY <1>10 DEF ChooseConnection, CreateProcess, DeleteProcess, SendStart, connState, taskState
<1> QED
  BY <1>4, <1>5, <1>6, <1>7, <1>8, <1>9, <1>10 DEF ServerStep, ServeStep

LEMMA StepAhead ==
  ASSUME BaseInv, AheadInv, [SystemNext]_systemVars
  PROVE  AheadInv'
<1>1. CASE RegistryStep /\ UNCHANGED serverVars
  <2>1. PICK ns : SystemOp(ns)
    BY <1>1, RegistryStepOp
  <2>2. Ahead' \subseteq Ahead /\ ~Has(subq'["agent"], NotYetTold') /\ UNCHANGED up
    BY <1>1, <2>1, RegistryAhead DEF RegistryStep, wireVars
  <2> QED
    BY <1>1, <2>2, TasksStayBehind DEF AheadInv
<1>2. CASE UNCHANGED systemVars
  BY <1>2 DEF systemVars, serverVars, wireVars, agentSide, vars, registryVars, notifyVars,
     AheadInv, TaskBehind, NotYetTold, NotYetSent, Ahead
<1> QED
  BY <1>1, <1>2, AgentStepAhead, ServerStepAhead DEF SystemNext

-----------------------------------------------------------------------------
(* The end is told *)

LEMMA StepDone ==
  ASSUME BaseInv, QueueInv, DoneInv, [SystemNext]_systemVars
  PROVE  DoneInv'
<1> DEFINE q == subq["agent"]
           D == {ShutDown("done")}
<1>1. q \in Seq(Notification) /\ Sub = {"agent"}
  BY AgentAssumption DEF BaseInv, Types
<1>2. CASE UNCHANGED <<shutdown, ws, missed, subq>>
  BY <1>2 DEF DoneInv
<1>3. CASE ws' = None
  BY <1>3 DEF DoneInv
<1>4. ASSUME NEW ns, SystemOp(ns), UNCHANGED <<ws, apc>>, missed \subseteq missed',
             apc = "registering" /\ shutdown' # shutdown => "shutdown" \in missed'
      PROVE  DoneInv'
  <2>1. /\ ns \in Seq(Notification)
        /\ apc = "serving" => subq'["agent"] = q \o ns
    BY <1>4, RegistryBase
  <2>2. Has(q \o ns, D) <=> Has(q, D) \/ Has(ns, D)
    BY <1>1, <2>1, HasConcat
  <2>3. shutdown' # shutdown => Has(ns, {ShutDown(shutdown')})
    BY <1>4, ShutdownTold
  <2>4. ws # None => apc \in {"registering", "serving"}
    BY DEF BaseInv, TypeOK
  <2>5. apc # "serving" => ~Has(q, D)
    BY HasOne DEF QueueInv
  <2> QED
    BY <1>4, <2>1, <2>2, <2>3, <2>4, <2>5 DEF DoneInv
<1>5. CASE RegistryStep
  <2>1. PICK ns : SystemOp(ns)
    BY <1>5, RegistryStepOp
  <2> QED
    BY <1>4, <1>5, <2>1, RegistryMisses DEF RegistryStep
<1>6. CASE AgentTop \/ CannotConnect \/ SleepEnds \/ RegisterFails \/ Disconnect
  BY <1>3, <1>6 DEF AgentTop, CannotConnect, SleepEnds, RegisterFails, Disconnect,
     ConnectFailed, BaseInv, TypeOK
<1>7. ASSUME NEW w \in Ws, Connect(w) PROVE DoneInv'
  BY <1>7 DEF Connect, DoneInv, vars, registryVars
<1>8. CASE AgentRegistered
  <2>1. ~Has(q, D)
    BY <1>8, HasOne DEF AgentRegistered, QueueInv
  <2> QED
    BY <1>8, <2>1 DEF AgentRegistered, DoneInv, registryVars
<1>9. CASE ForwardNotification /\ UNCHANGED serverVars
  <2>1. q # <<>> /\ UNCHANGED <<shutdown, missed>>
    BY <1>9, Forwards DEF registryVars
  <2>2. CASE Head(q) # ShutDown("done") /\ ws' = ws /\ subq'["agent"] = Tail(q)
    <3>1. Has(q, D) => Has(Tail(q), D)
      BY <1>1, <2>1, <2>2, HasTail
    <3> QED
      BY <2>1, <2>2, <3>1 DEF DoneInv
  <2>3. \/ Head(q) # ShutDown("done") /\ ws' = ws /\ subq'["agent"] = Tail(q)
        \/ ws' = None
    BY <1>9, Forwards DEF AgentServes, AgentLeaves
  <2> QED
    BY <1>3, <2>2, <2>3
<1>10. CASE HandleMessage /\ UNCHANGED serverVars
  <2>1. PICK id \in ProcId, ms \in Seq(UpMsg) : AgentServes(ms) /\ Handles(id, ms)
    BY <1>10, RequestHandled
  <2>2. UNCHANGED <<ws, apc, missed>> /\ apc = "serving"
    BY <1>10 DEF HandleMessage, agentVars
  <2>3. UNCHANGED vars \/ \E ns : SystemOp(ns)
    BY <2>1, HandlesOp
  <2> QED
    BY <1>2, <1>4, <2>2, <2>3 DEF vars, registryVars, notifyVars
<1>11. CASE UNCHANGED agentSide
  BY <1>2, <1>11 DEF agentSide, agentVars, vars, registryVars, notifyVars
<1> QED
  BY <1>5, <1>6, <1>7, <1>8, <1>9, <1>10, <1>11 DEF SystemNext, AgentStep, systemVars

-----------------------------------------------------------------------------
(* The agent's websocket is its Connection's *)

\* The Connection of the agent's serve task, and no task's end, concern it.
LEMMA ServedConnection ==
  ASSUME BaseInv, EndInv, OneConnection, ws # None
  PROVE  /\ ws \in Ws /\ agentEnd[ws] = "open" /\ apc \in {"registering", "serving"}
         /\ \A w \in Ws : ~done[w] /\ taskConn[w] \in {None, conn}
         /\ \A id \in ProcId : {processes[id], chosen[id]} \subseteq {None, conn}
         /\ spc[ws] \in Tasks => conn # None /\ taskConn[ws] = conn
<1>1. ws \in Ws /\ agentEnd[ws] = "open" /\ apc \in {"registering", "serving"}
  BY DEF BaseInv, TypeOK
<1>2. \A w \in Ws : ~done[w]
  BY <1>1 DEF EndInv, Ending
<1>3. /\ \A w \in Ws : taskConn[w] \in {None, conn}
      /\ \A id \in ProcId : {processes[id], chosen[id]} \subseteq {None, conn}
  BY <1>1 DEF OneConnection, Unpopped
<1> QED
  BY <1>1, <1>2, <1>3 DEF BaseInv, TaskInv

LEMMA ServerStepCurrent ==
  ASSUME ~ReconnectTimeout, BaseInv, EndInv, OneConnection, CurrentInv,
         ServerStep, UNCHANGED agentSide
  PROVE  CurrentInv'
<1>1. SUFFICES ASSUME Served' PROVE (connWs[conn] = ws \/ ws \in closing)'
  BY DEF CurrentInv
<1>2. ws' = ws /\ ws # None /\ serverEnd'[ws] = "open" /\ spc'[ws] \in {"request", "recv"}
  BY <1>1, AgentSideKept DEF Served
<1>3. ws \in Ws /\ (spc[ws] \in Tasks => conn # None) /\ \A w \in Ws : ~done[w]
  BY <1>2, ServedConnection
<1>4. CASE Served /\ UNCHANGED <<conn, connWs, closing>>
  BY <1>2, <1>4 DEF CurrentInv
<1>5. ASSUME NEW w \in Ws, AddAndReconcile(w) PROVE (connWs[conn] = ws \/ ws \in closing)'
  <2> DEFINE o == ConnectionFor(w)
  <2>1. /\ o \in Ws /\ conn' = o /\ connWs' = [connWs EXCEPT ![o] = w]
        /\ \A v \in Ws : v \in closing' <=>
             \/ v \in closing
             \/ conn # None /\ v = connWs[conn] /\ serverEnd[v] # "closed"
        /\ spc' = [spc EXCEPT ![w] = "request"] /\ UNCHANGED serverEnd
    BY <1>5, Adds DEF wireVars
  <2> HIDE DEF o
  <2>2. CASE w = ws
    BY <1>2, <2>1, <2>2 DEF BaseInv, TypeOK
  <2>3. CASE w # ws
    <3>1. spc[ws] = spc'[ws] /\ serverEnd[ws] = "open"
      BY <1>2, <1>3, <2>1, <2>3 DEF BaseInv, Types
    <3>2. Served /\ conn # None
      BY <1>2, <1>3, <3>1 DEF Served, Tasks
    <3> QED
      BY <1>2, <1>3, <2>1, <3>1, <3>2 DEF CurrentInv
  <2> QED
    BY <2>2, <2>3
<1>6. ASSUME NEW w \in Ws, CloseOld(w) PROVE (connWs[conn] = ws \/ ws \in closing)'
  <2>1. /\ UNCHANGED <<spc, conn, connWs>> /\ closing' = closing \ {w}
        /\ serverEnd' = [serverEnd EXCEPT ![w] = "closed"]
    BY <1>6 DEF CloseOld, CloseServerEnd, taskState
  <2>2. w # ws /\ serverEnd[ws] = "open"
    BY <1>2, <1>3, <2>1 DEF BaseInv, TypeOK
  <2> QED
    BY <1>2, <2>1, <2>2 DEF CurrentInv, Served
<1>7. ASSUME NEW w \in Ws, Login(w) PROVE Served /\ UNCHANGED <<conn, connWs, closing>>
  BY <1>2, <1>3, <1>7 DEF Login, Served, connState, BaseInv, Types
<1>8. ASSUME NEW w \in Ws, RequestResult(w) PROVE Served /\ UNCHANGED <<conn, connWs, closing>>
  <2>1. /\ spc[w] = "request" /\ UNCHANGED <<conn, connWs, closing>>
        /\ \A v \in Ws : v # w => spc'[v] = spc[v]
    BY <1>8, Requests DEF connState, BaseInv, Types
  <2>2. serverEnd'[ws] = "open" => serverEnd[ws] = "open"
    BY <1>3, <1>8, Requests DEF LeaveServerEnd, ServerSend, wireVars, BaseInv, TypeOK
  <2> QED
    BY <1>2, <1>3, <2>1, <2>2 DEF Served
<1>9. ASSUME NEW w \in Ws, ServerReceive(w) PROVE Served /\ UNCHANGED <<conn, connWs, closing>>
  <2>1. /\ spc[w] = "recv" /\ UNCHANGED <<conn, connWs, closing>>
        /\ \A v \in Ws : v # w => spc'[v] = spc[v]
    BY <1>9, MessageReceived DEF BaseInv, Types
  <2>2. serverEnd'[ws] = "open" => serverEnd[ws] = "open"
    BY <1>3, <1>9, MessageReceived DEF LeaveServerEnd, BaseInv, TypeOK
  <2> QED
    BY <1>2, <1>3, <2>1, <2>2 DEF Served
<1>10. ASSUME NEW w \in Ws, LoginFails(w) \/ ServerSeesEnd(w) \/ ServerEndFails(w)
       PROVE  Served /\ UNCHANGED <<conn, connWs, closing>>
  <2>1. serverEnd' = [serverEnd EXCEPT ![w] = "closed"] /\ UNCHANGED <<conn, connWs, closing>>
    BY <1>10 DEF LoginFails, ServerSeesEnd, ServerEndFails, LeaveServerEnd, CloseServerEnd,
       connState, serverVars
  <2>2. w # ws /\ serverEnd[ws] = "open"
    BY <1>2, <1>3, <2>1 DEF BaseInv, TypeOK
  <2>3. spc[ws] = spc'[ws]
    BY <1>3, <1>10, <2>2 DEF LoginFails, ServerSeesEnd, ServerEndFails, BaseInv, Types, serverVars
  <2> QED
    BY <1>2, <2>1, <2>2, <2>3 DEF Served
<1>11. ASSUME NEW w \in Ws, FinishConnection(w)
       PROVE  Served /\ UNCHANGED <<conn, connWs, closing>>
  <2>1. UNCHANGED <<conn, connWs, closing, serverEnd>>
    BY <1>3, <1>11 DEF FinishConnection, wireVars
  <2>2. spc[ws] \in {"request", "recv"}
    BY <1>2, <1>3, <1>11 DEF FinishConnection, BaseInv, Types
  <2> QED
    BY <1>2, <2>1, <2>2 DEF Served
<1>12. \A w \in Ws : ~ReconnectTimesOut(w)
  BY DEF ReconnectTimesOut, OneConnection
<1>13. ASSUME NEW id \in ProcId, ChooseConnection(id) \/ CreateProcess(id) \/ DeleteProcess(id)
                                 \/ SendStart(id)
       PROVE  Served /\ UNCHANGED <<conn, connWs, closing>>
  BY <1>2, <1>13 DEF ChooseConnection, CreateProcess, DeleteProcess, SendStart, ServerSend,
     wireVars, connState, taskState, Served
<1> QED
  BY <1>4, <1>5, <1>6, <1>7, <1>8, <1>9, <1>10, <1>11, <1>12, <1>13 DEF ServerStep, ServeStep

LEMMA StepCurrent ==
  ASSUME ~ReconnectTimeout, BaseInv, EndInv, OneConnection, CurrentInv,
         [SystemNext]_systemVars
  PROVE  CurrentInv'
<1>1. CASE UNCHANGED <<serverVars, ws, serverEnd>>
  BY <1>1 DEF CurrentInv, Served, serverVars
<1>2. CASE UNCHANGED serverVars /\ ws' = None
  BY <1>2 DEF CurrentInv, Served
<1>3. ASSUME NEW w \in Ws, Connect(w), UNCHANGED serverVars PROVE CurrentInv'
  <2>1. spc[w] = "login" /\ ws' = w
    BY <1>3 DEF Connect, Unused, BaseInv, TaskInv
  <2> QED
    BY <1>3, <2>1 DEF CurrentInv, Served, serverVars
<1>4. CASE AgentStep /\ UNCHANGED serverVars
  <2>1. CASE AgentTop \/ CannotConnect \/ SleepEnds \/ RegisterFails \/ Disconnect
    BY <1>2, <1>4, <2>1 DEF AgentTop, CannotConnect, SleepEnds, RegisterFails, Disconnect,
       ConnectFailed, BaseInv, TypeOK
  <2>2. CASE AgentRegistered \/ HandleMessage
    BY <1>1, <1>4, <2>2 DEF AgentRegistered, HandleMessage, agentVars
  <2>3. CASE ForwardNotification
    BY <1>1, <1>2, <1>4, <2>3, Forwards DEF AgentServes, AgentLeaves
  <2> QED
    BY <1>3, <1>4, <2>1, <2>2, <2>3 DEF AgentStep
<1>5. CASE (RegistryStep /\ UNCHANGED serverVars) \/ UNCHANGED systemVars
  BY <1>1, <1>5 DEF RegistryStep, systemVars, wireVars, agentSide, agentVars
<1> QED
  BY <1>4, <1>5, ServerStepCurrent DEF SystemNext

-----------------------------------------------------------------------------
(* Steps of the server, for the agent's websocket *)

\* An end of the server is not opened again; an error stays; what was sent to
\* an agent stays there while the server's end is open.
LEMMA ServerKeeps ==
  ASSUME BaseInv, ServerStep
  PROVE  /\ \A v \in Ws : serverEnd'[v] = "open" =>
              serverEnd[v] = "open" /\ \A A : Has(down[v], A) => Has(down'[v], A)
         /\ \A id \in ProcId : "error" \in heard[id] => "error" \in heard'[id]
<1> DEFINE Ends == \A v \in Ws : serverEnd'[v] = "open" =>
                     serverEnd[v] = "open" /\ \A A : Has(down[v], A) => Has(down'[v], A)
           Errors == \A id \in ProcId : "error" \in heard[id] => "error" \in heard'[id]
<1>1. UNCHANGED heard => Errors
  OBVIOUS
<1>2. UNCHANGED <<serverEnd, down>> => Ends
  OBVIOUS
<1>3. ASSUME NEW w \in Ws, NEW m \in DownMsg, UNCHANGED serverEnd,
             down' = [down EXCEPT ![w] = Sent(@, agentEnd[w], <<m>>)]
      PROVE  Ends
  <2>1. down[w] \in Seq(DownMsg) /\ <<m>> \in Seq(DownMsg)
    BY DEF BaseInv, Types
  <2>2. \A A : Has(down[w], A) => Has(Sent(down[w], agentEnd[w], <<m>>), A)
    <3> SUFFICES ASSUME NEW A PROVE Has(down[w], A) => Has(down[w] \o <<m>>, A)
      BY DEF Sent
    <3> QED
      BY <2>1, HasConcat
  <2>3. \A v \in Ws : v # w => down'[v] = down[v]
    BY <1>3 DEF BaseInv, Types
  <2>4. down'[w] = Sent(down[w], agentEnd[w], <<m>>)
    BY <1>3 DEF BaseInv, Types
  <2> QED
    BY <1>3, <2>2, <2>3, <2>4
<1>4. ASSUME NEW w \in Ws, CloseServerEnd(w) \/ LeaveServerEnd(w) PROVE Ends
  <2>1. ServerLeaves(w)
    BY <1>4, ServerCloses
  <2>2. \A v \in Ws : serverEnd'[v] = "open" => v # w /\ serverEnd[v] = "open"
    BY <2>1 DEF ServerLeaves, BaseInv, TypeOK
  <2> QED
    BY <2>1, <2>2 DEF ServerLeaves
<1>5. /\ Registered \in DownMsg
      /\ \A id \in ProcId : /\ ProcResultRequest(id) \in DownMsg
                            /\ ProcDeleteRequest(id) \in DownMsg
                            /\ \A valid \in BOOLEAN : ProcStartRequest(id, valid) \in DownMsg
  BY DEF DownMsg, Registered, ProcResultRequest, ProcDeleteRequest, ProcStartRequest
<1> HIDE DEF Ends
<1>6. ASSUME NEW w \in Ws, Login(w) PROVE Ends /\ Errors
  BY <1>1, <1>3, <1>5, <1>6 DEF Login, procState
<1>7. ASSUME NEW w \in Ws, AddAndReconcile(w) PROVE Ends /\ Errors
  BY <1>2, <1>7, Adds DEF wireVars
<1>8. ASSUME NEW w \in Ws, RequestResult(w) PROVE Ends /\ Errors
  <2>1. UNCHANGED heard
    BY <1>8, Requests DEF procState
  <2>2. ASSUME NEW id \in ProcId, taskConn[w] \in Ws, connWs[taskConn[w]] # None,
               ServerSend(connWs[taskConn[w]], <<ProcResultRequest(id)>>)
        PROVE  Ends
    <3>1. connWs[taskConn[w]] \in Ws
      BY <2>2 DEF BaseInv, TypeOK
    <3> QED
      BY <1>3, <1>5, <2>2, <3>1 DEF ServerSend
  <2> QED
    BY <1>1, <1>2, <1>4, <1>8, <2>1, <2>2, Requests DEF wireVars
<1>9. ASSUME NEW w \in Ws, ServerReceive(w) PROVE Ends /\ Errors
  <2>1. Ends
    BY <1>2, <1>4, <1>9, MessageReceived
  <2>2. Errors
    BY <1>1, <1>9, MessageReceived DEF procState
  <2> QED
    BY <2>1, <2>2
<1>10. ASSUME NEW w \in Ws, LoginFails(w) \/ ServerSeesEnd(w) \/ CloseOld(w) \/ ServerEndFails(w)
       PROVE  Ends /\ Errors
  BY <1>1, <1>4, <1>10 DEF LoginFails, ServerSeesEnd, CloseOld, ServerEndFails, procState,
     serverVars
<1>11. ASSUME NEW w \in Ws, FinishConnection(w) PROVE Ends /\ Errors
  BY <1>1, <1>2, <1>11 DEF FinishConnection, wireVars, procState
<1>12. ASSUME NEW w \in Ws, ReconnectTimesOut(w) PROVE Ends /\ Errors
  <2>1. UNCHANGED wireVars /\
        (heard' = heard \/ heard' = [id \in ProcId |-> IF processes[id] # None
                                     THEN heard[id] \cup {"timeout"} ELSE heard[id]])
    BY <1>12 DEF ReconnectTimesOut
  <2> QED
    BY <1>2, <2>1 DEF wireVars
<1>13. ASSUME NEW id \in ProcId, ChooseConnection(id) \/ CreateProcess(id) PROVE Ends /\ Errors
  BY <1>1, <1>2, <1>13 DEF ChooseConnection, CreateProcess, wireVars, procState
<1>14. ASSUME NEW id \in ProcId, SendStart(id) PROVE Ends /\ Errors
  <2>1. UNCHANGED <<heard, serverEnd>> /\ connWs[chosen[id]] \in Ws
    BY <1>14, StartSent
  <2>2. \/ \E valid \in BOOLEAN :
             ServerSend(connWs[chosen[id]], <<ProcStartRequest(id, valid)>>)
        \/ down' = down
    BY <1>14, StartSent
  <2> QED
    BY <1>1, <1>2, <1>3, <1>5, <2>1, <2>2 DEF ServerSend
<1>15. ASSUME NEW id \in ProcId, DeleteProcess(id) PROVE Ends /\ Errors
  <2>1. UNCHANGED heard /\ processes[id] \in Ws /\ connWs[processes[id]] \in Ws
    BY <1>15 DEF DeleteProcess, procState, BaseInv, TypeOK, ObjectInv
  <2>2. ServerSend(connWs[processes[id]], <<ProcDeleteRequest(id)>>) \/ UNCHANGED wireVars
    BY <1>15 DEF DeleteProcess
  <2> QED
    BY <1>1, <1>2, <1>3, <1>5, <2>1, <2>2 DEF ServerSend, wireVars
<1>16. Ends /\ Errors
  BY <1>6, <1>7, <1>8, <1>9, <1>10, <1>11, <1>12, <1>13, <1>14, <1>15 DEF ServerStep, ServeStep
<1> QED
  BY <1>16 DEF Ends


\* A step that leaves the agent's serve task where it is.
Beside ==
  /\ up'[ws] = up[ws] /\ register'[ws] = register[ws]
  /\ Logging' <=> Logging
  /\ spc'[ws] = "login" <=> spc[ws] = "login"
  /\ ~Logging => conn' = conn

\* The agent's serve task goes on, or the step is beside it.  Only the
\* application and late messages on another websocket then change the
\* Connection or the processes it knows.
AttachedStep ==
  \/ Login(ws)
  \/ AddAndReconcile(ws)
  \/ /\ ~Logging /\ ~Logging' /\ conn' = conn
     /\ ServerReceive(ws)
     /\ up' = [up EXCEPT ![ws] = Tail(@)]
     /\ Receives(ws, Head(up[ws]))
  \/ Beside /\ (~Logging => UNCHANGED <<processes, connShut>>)
  \/ Beside /\ conn' = conn /\ \E w \in Ws \ {ws} : ServerReceive(w)
  \/ Beside /\ conn' = conn /\ UNCHANGED connShut
       /\ \E id \in ProcId : SendStart(id) \/ CreateProcess(id)

LEMMA AttachedSteps ==
  ASSUME ~ReconnectTimeout, BaseInv, EndInv, OneConnection,
         ServerStep, UNCHANGED agentSide, Attached'
  PROVE  Attached /\ ws' = ws /\ ws \in Ws /\ AttachedStep
<1>1. /\ ws' = ws /\ ws # None /\ serverEnd'[ws] = "open"
      /\ spc'[ws] \in {"login", "add", "request", "recv"}
      /\ ~Logging' => connWs'[conn'] = ws
  BY AgentSideKept DEF Attached, Logging
<1>2. ws \in Ws /\ serverEnd[ws] = "open" /\ \A w \in Ws : ~done[w]
  BY <1>1, ServedConnection, ServerKeeps
<1> USE <1>1, <1>2
<1>3. ASSUME spc'[ws] = spc[ws], register'[ws] = register[ws], up'[ws] = up[ws], conn' = conn,
             connWs' = connWs
      PROVE  Attached /\ Beside
  BY <1>3 DEF Attached, Beside, Logging
<1>4. ASSUME NEW w \in Ws, Login(w) PROVE Attached /\ AttachedStep
  <2>1. CASE w = ws
    BY <1>4, <2>1 DEF Attached, AttachedStep, Login, Logging
  <2>2. CASE w # ws
    <3>1. /\ spc'[ws] = spc[ws] /\ register'[ws] = register[ws] /\ up'[ws] = up[ws]
          /\ UNCHANGED <<conn, connWs, connShut, processes>>
      BY <1>4, <2>2 DEF Login, connState, procState, BaseInv, Types
    <3> QED
      BY <1>3, <3>1 DEF AttachedStep
  <2> QED
    BY <2>1, <2>2
<1>5. ASSUME NEW w \in Ws, AddAndReconcile(w) PROVE Attached /\ AttachedStep
  <2>1. CASE w = ws
    BY <1>5, <2>1 DEF Attached, AttachedStep, AddAndReconcile, Logging
  <2>2. CASE w # ws
    <3>1. /\ spc'[ws] = spc[ws] /\ register'[ws] = register[ws] /\ up' = up
      BY <1>5, <2>2, Adds DEF BaseInv, Types, wireVars
    <3>2. connWs'[conn'] = w
      BY <1>5, Adds DEF BaseInv, TypeOK
    <3>3. Logging /\ Logging'
      BY <2>2, <3>1, <3>2 DEF Logging
    <3> QED
      BY <3>1, <3>3 DEF Attached, Beside, AttachedStep
  <2> QED
    BY <2>1, <2>2
<1>6. ASSUME NEW w \in Ws, RequestResult(w) PROVE Attached /\ AttachedStep
  <2>1. /\ spc[w] = "request"
        /\ UNCHANGED <<register, conn, connWs, connShut, processes>>
        /\ spc' \in {spc, [spc EXCEPT ![w] = "recv"], [spc EXCEPT ![w] = "close"]}
    BY <1>6, Requests DEF connState, procState
  <2>2. /\ \A v \in Ws : v # w => spc'[v] = spc[v]
        /\ spc'[w] \in {"request", "recv", "close"}
    BY <2>1 DEF BaseInv, Types
  <2>3. up'[ws] = up[ws]
    <3>1. CASE LeaveServerEnd(w)
      BY <3>1 DEF LeaveServerEnd, BaseInv, TypeOK, Types
    <3> QED
      BY <1>6, <3>1, Requests DEF ServerSend, wireVars
  <2> QED
    BY <2>1, <2>3, <2>2 DEF Attached, Logging, Beside, AttachedStep
<1>7. ASSUME NEW w \in Ws, ServerReceive(w) PROVE Attached /\ AttachedStep
  <2>1. /\ spc[w] = "recv" /\ UNCHANGED <<register, conn, connWs>>
        /\ spc' \in {spc, [spc EXCEPT ![w] = "close"]}
    BY <1>7, MessageReceived
  <2>2. /\ spc[w] = "recv" /\ UNCHANGED <<register, conn, connWs>>
        /\ \A v \in Ws : v # w => spc'[v] = spc[v]
    BY <2>1 DEF BaseInv, Types
  <2>3. CASE LeaveServerEnd(w)
    <3>1. w # ws /\ up'[ws] = up[ws]
      BY <2>3 DEF LeaveServerEnd, BaseInv, TypeOK, Types
    <3> QED
      BY <1>3, <1>7, <2>2, <3>1 DEF AttachedStep
  <2>4. CASE up' = [up EXCEPT ![w] = Tail(@)] /\ UNCHANGED spc /\ Receives(w, Head(up[w]))
    <3>1. CASE w = ws
      BY <1>7, <2>2, <2>4, <3>1 DEF Attached, AttachedStep, Logging
    <3>2. CASE w # ws
      <4>1. up'[ws] = up[ws]
        BY <2>4, <3>2 DEF BaseInv, Types
      <4> QED
        BY <1>3, <1>7, <2>2, <2>4, <3>2, <4>1 DEF AttachedStep
    <3> QED
      BY <3>1, <3>2
  <2> QED
    BY <1>7, <2>3, <2>4, MessageReceived
<1>8. ASSUME NEW w \in Ws, LoginFails(w) \/ ServerSeesEnd(w) \/ CloseOld(w) \/ ServerEndFails(w)
      PROVE  Attached /\ AttachedStep
  <2>1. ServerLeaves(w)
    BY <1>8, ServerCloses DEF LoginFails, ServerSeesEnd, CloseOld, ServerEndFails
  <2>2. w # ws /\ up'[ws] = up[ws]
    BY <2>1 DEF ServerLeaves, BaseInv, TypeOK
  <2>3. /\ spc'[ws] = spc[ws] /\ UNCHANGED <<register, conn, connWs, connShut, processes>>
    BY <1>8, <2>2 DEF LoginFails, ServerSeesEnd, CloseOld, ServerEndFails, BaseInv, Types,
       taskState, connState, procState, serverVars
  <2> QED
    BY <1>3, <2>2, <2>3 DEF AttachedStep
<1>9. ASSUME NEW w \in Ws, FinishConnection(w) PROVE Attached /\ AttachedStep
  <2>1. UNCHANGED <<register, up, conn, connWs, connShut, processes>>
    BY <1>9 DEF FinishConnection, wireVars, procState
  <2>2. spc'[ws] = spc[ws]
    BY <1>9 DEF FinishConnection, BaseInv, Types
  <2> QED
    BY <1>3, <2>1, <2>2 DEF AttachedStep
<1>10. \A w \in Ws : ~ReconnectTimesOut(w)
  BY DEF ReconnectTimesOut, OneConnection
<1>11. ASSUME NEW id \in ProcId, ChooseConnection(id) \/ DeleteProcess(id)
       PROVE  Attached /\ AttachedStep
  BY <1>3, <1>11 DEF ChooseConnection, DeleteProcess, ServerSend, wireVars, connState, taskState,
     procState, AttachedStep
<1>12. ASSUME NEW id \in ProcId, CreateProcess(id) \/ SendStart(id)
       PROVE  Attached /\ AttachedStep
  <2>1. UNCHANGED <<spc, register, up, conn, connWs, connShut>>
    BY <1>12, StartSent DEF CreateProcess, wireVars, connState, taskState
  <2> QED
    BY <1>3, <1>12, <2>1 DEF AttachedStep
<1> QED
  BY <1>4, <1>5, <1>6, <1>7, <1>8, <1>9, <1>10, <1>11, <1>12 DEF ServerStep, ServeStep


\* While the server logs the agent in, the Register message stays.
LEMMA RegisterStays ==
  ASSUME Beside, ws' = ws
  PROVE  Logging => Registering' = Registering
BY DEF Beside, Logging, Registering

\* Login() takes the Register message, the one on the websocket.
LEMMA LoginTakes ==
  ASSUME BaseInv, ws \in Ws, Login(ws), ws' = ws
  PROVE  /\ Logging /\ Logging' /\ Registering' = Registering
         /\ up'[ws] = <<>>
         /\ \A A, B : (\A m \in A : m.type # "Register") => ~Has(up[ws], A) /\ ~Last(up[ws], A, B)
<1>1. /\ spc[ws] = "login" /\ spc'[ws] = "add"
      /\ Len(up[ws]) = 1 /\ up[ws][1] \in RegisterMsg /\ up[ws] \in Seq(UpMsg)
      /\ register'[ws] = Head(up[ws]) /\ up'[ws] = Tail(up[ws])
  BY DEF Login, BaseInv, Types, TaskInv
<1>2. Head(up[ws]) = up[ws][1] /\ Tail(up[ws]) = <<>> /\ DOMAIN up[ws] = {1}
  BY <1>1, SingleSeq
<1>3. up[ws][1].type = "Register"
  BY <1>1 DEF RegisterMsg
<1> QED
  BY <1>1, <1>2, <1>3 DEF Logging, Registering, Has, Last

\* AddAndReconcile() adds it.
LEMMA AddTakes ==
  ASSUME BaseInv, ws \in Ws, AddAndReconcile(ws), ws' = ws
  PROVE  /\ Logging /\ ~Logging' /\ UNCHANGED up
         /\ connShut'[conn'] = Registering.st
         /\ \A id \in ProcId : processes'[id] # None <=> id \in Registering.ids
<1>1. /\ spc[ws] = "add" /\ spc' = [spc EXCEPT ![ws] = "request"] /\ UNCHANGED wireVars
      /\ \A id \in ProcId : processes'[id] # None <=> id \in register[ws].ids
  BY Adds
<1>2. conn' \in Ws /\ connShut' = [connShut EXCEPT ![conn'] = register[ws].st]
  BY Adds
<1>3. spc'[ws] = "request"
  BY <1>1 DEF BaseInv, Types
<1>4. connShut'[conn'] = register[ws].st
  BY <1>2 DEF BaseInv, Types
<1> QED
  BY <1>1, <1>3, <1>4 DEF Logging, Registering, wireVars

-----------------------------------------------------------------------------
(* An agent that idles tells its server *)

LEMMA ServerStepIdling ==
  ASSUME ~ReconnectTimeout, BaseInv, EndInv, OneConnection, AheadInv, IdlingInv,
         ServerStep, UNCHANGED agentSide
  PROVE  IdlingInv'
<1> DEFINE M == {ShutDownMsg("idling")}
<1>1. SUFFICES ASSUME shutdown = "idling", Attached', "shutdown" \notin missed,
                      ~Has(subq["agent"], {ShutDown("idling")})
               PROVE  Has(up'[ws'], M) \/ KnownShutdown' = "idling"
  BY AgentSideKept DEF IdlingInv
<1>2. Attached /\ ws' = ws /\ ws \in Ws /\ AttachedStep
  BY <1>1, AttachedSteps
<1>3. Has(up[ws], M) \/ KnownShutdown = "idling"
  BY <1>1, <1>2 DEF IdlingInv
<1>4. CASE Login(ws)
  <2>1. \A m \in M : m.type # "Register"
    BY DEF ShutDownMsg
  <2>2. ~Has(up[ws], M) /\ Logging /\ Logging' /\ Registering' = Registering
    BY <1>2, <1>4, <2>1, LoginTakes
  <2> QED
    BY <1>3, <2>2 DEF KnownShutdown
<1>5. CASE AddAndReconcile(ws)
  BY <1>2, <1>3, <1>5, AddTakes DEF KnownShutdown
<1>6. ASSUME NEW w \in Ws, ServerReceive(w)
      PROVE  /\ connShut' \in {connShut, [connShut EXCEPT ![taskConn[w]] = "idling"]}
             /\ Receives(w, Head(up[w])) =>
                  \/ connShut' = connShut /\ Head(up[w]) \notin M
                  \/ connShut' = [connShut EXCEPT ![taskConn[w]] = "idling"]
  <2>1. up[w] \in Seq(UpMsg) /\ up[w] # <<>> /\ TaskBehind(w)
    BY <1>6, MessageReceived DEF AheadInv
  <2>2. Head(up[w]) \notin NotYetSent
    BY <2>1, HasTail DEF TaskBehind
  <2>3. \A st \in ShutdownState : Head(up[w]) = ShutDownMsg(st) => st = "idling"
    BY <1>1, <2>2 DEF NotYetSent, Ahead, ShutdownState
  <2>4. \A id \in ProcId : ShutDownMsg("idling")
          \notin Results(id) \cup {RequestError(id)} \cup Removals(id)
    BY DEF ShutDownMsg, Results, Removals, ProcResult, RequestError, ProcDelete, ProcUnknown
  <2>5. ASSUME Receives(w, Head(up[w]))
        PROVE  \/ connShut' = connShut /\ Head(up[w]) \notin M
               \/ connShut' = [connShut EXCEPT ![taskConn[w]] = "idling"]
    BY <2>3, <2>4, <2>5 DEF Receives
  <2>6. UNCHANGED connShut \/ Receives(w, Head(up[w]))
    BY <1>6, MessageReceived
  <2> QED
    BY <2>5, <2>6
<1>7. CASE /\ ~Logging /\ ~Logging' /\ conn' = conn /\ ServerReceive(ws)
           /\ up' = [up EXCEPT ![ws] = Tail(@)] /\ Receives(ws, Head(up[ws]))
  <2>1. spc[ws] = "recv" /\ up[ws] \in Seq(UpMsg) /\ up[ws] # <<>>
    BY <1>2, <1>7, MessageReceived
  <2>2. Has(up[ws], M) => Head(up[ws]) \in M \/ Has(Tail(up[ws]), M)
    BY <2>1, HasTail
  <2>3. up'[ws] = Tail(up[ws])
    BY <1>2, <1>7 DEF BaseInv, Types
  <2>4. taskConn[ws] = conn /\ conn \in Ws
    BY <1>2, <2>1, ServedConnection DEF Attached, Tasks, BaseInv, TypeOK
  <2>5. CASE connShut' = [connShut EXCEPT ![taskConn[ws]] = "idling"]
    <3>1. connShut'[conn] = "idling"
      BY <2>4, <2>5 DEF BaseInv, Types
    <3> QED
      BY <1>7, <3>1 DEF KnownShutdown
  <2>6. CASE connShut' = connShut /\ Head(up[ws]) \notin M
    BY <1>2, <1>3, <1>7, <2>2, <2>3, <2>6 DEF KnownShutdown
  <2> QED
    BY <1>2, <1>6, <1>7, <2>5, <2>6
<1>8. ASSUME Beside, Logging \/ connShut'[conn'] \in {connShut[conn], "idling"}
      PROVE  Has(up'[ws'], M) \/ KnownShutdown' = "idling"
  BY <1>2, <1>3, <1>8, RegisterStays DEF Beside, KnownShutdown
<1>9. CASE Beside /\ conn' = conn /\ \E w \in Ws \ {ws} : ServerReceive(w)
  <2>1. PICK w \in Ws \ {ws} : ServerReceive(w)
    BY <1>9
  <2>2. connShut' \in {connShut, [connShut EXCEPT ![taskConn[w]] = "idling"]}
    BY <1>6, <2>1
  <2>3. ~Logging => conn \in Ws
    BY <1>2, ServedConnection DEF Attached, Tasks, BaseInv, TypeOK
  <2>4. ~Logging => connShut'[conn] \in {connShut[conn], "idling"}
    BY <2>2, <2>3 DEF BaseInv, Types
  <2> QED
    BY <1>8, <1>9, <2>4
<1>10. CASE Beside /\ (~Logging => UNCHANGED <<processes, connShut>>)
  BY <1>8, <1>10 DEF Beside
<1>11. CASE Beside /\ conn' = conn /\ UNCHANGED connShut
  BY <1>8, <1>11
<1> QED
  BY <1>2, <1>4, <1>5, <1>7, <1>9, <1>10, <1>11 DEF AttachedStep


\* Steps of the agent: the server knows what it knew.
SameKnown ==
  /\ Attached /\ ws' = ws /\ ws \in Ws
  /\ KnownShutdown' = KnownShutdown
  /\ \A id \in ProcId : Known(id)' <=> Known(id)

LEMMA QuietStep ==
  ASSUME BaseInv, UNCHANGED <<ws, serverEnd, serverVars, up>>, Attached'
  PROVE  SameKnown
<1>1. UNCHANGED <<spc, register, conn, connWs, connShut, processes>>
  BY DEF serverVars
<1>2. Logging' <=> Logging
  BY <1>1 DEF Logging
<1>3. Attached /\ ws \in Ws
  BY <1>1, <1>2 DEF Attached, BaseInv, TypeOK
<1>4. Registering' = Registering
  BY <1>1 DEF Registering
<1> QED
  BY <1>1, <1>2, <1>3, <1>4 DEF SameKnown, KnownShutdown, Known

LEMMA ServingStep ==
  ASSUME BaseInv, NEW ms, AgentServes(ms), Attached'
  PROVE  /\ SameKnown
         /\ up[ws] \in Seq(UpMsg) /\ ms \in Seq(UpMsg) /\ up'[ws] = up[ws] \o ms
<1>1. /\ UNCHANGED <<ws, serverEnd, spc, register, conn, connWs, connShut, processes>>
      /\ ms \in Seq(UpMsg) /\ up' = [up EXCEPT ![ws] = Sent(@, serverEnd[ws], ms)]
      /\ ws \in Ws /\ spc[ws] # "login"
  BY DEF AgentServes, AgentSend, serverVars, BaseInv, TypeOK, AgentInv
<1>2. Logging' <=> Logging
  BY <1>1 DEF Logging
<1>3. Attached /\ serverEnd[ws] = "open"
  BY <1>1, <1>2 DEF Attached
<1>4. Registering' = Registering
  BY <1>1 DEF Registering
<1>5. SameKnown
  BY <1>1, <1>2, <1>3, <1>4 DEF SameKnown, KnownShutdown, Known
<1>6. up[ws] \in Seq(UpMsg) /\ up'[ws] = up[ws] \o ms
  BY <1>1, <1>3 DEF Sent, BaseInv, Types
<1> QED
  BY <1>1, <1>5, <1>6

\* A new websocket has a Register message with all that the server is to know.
LEMMA ConnectStep ==
  ASSUME BaseInv, QueueInv, NEW w \in Ws, Connect(w), UNCHANGED serverVars
  PROVE  /\ UNCHANGED <<shutdown, procs>> /\ subq'["agent"] = <<>>
         /\ KnownShutdown' = shutdown
         /\ \A id \in ProcId : Known(id)' <=> procs[id] # None
         /\ ws' = w /\ up'[w] = <<Register(Live, shutdown)>>
<1> DEFINE r == Register(Live, shutdown)
<1>1. /\ UNCHANGED <<shutdown, procs, subq>> /\ apc # "serving" /\ ws' = w
      /\ up' = [up EXCEPT ![w] = <<r>>]
      /\ spc[w] = "login" /\ UNCHANGED spc
  BY DEF Connect, Unused, vars, registryVars, notifyVars, serverVars, BaseInv, TaskInv
<1>2. r.st = shutdown /\ \A id \in ProcId : id \in r.ids <=> procs[id] # None
  BY DEF Register, Live
<1>3. up'[w] = <<r>> /\ up'[w][1] = r
  BY <1>1 DEF BaseInv, Types
<1> HIDE DEF r
<1>4. Logging' /\ Registering' = r
  BY <1>1, <1>3 DEF Logging, Registering
<1> QED
  BY <1>1, <1>2, <1>3, <1>4 DEF QueueInv, KnownShutdown, Known, r

LEMMA StepIdling ==
  ASSUME ~ReconnectTimeout, BaseInv, EndInv, OneConnection, QueueInv, AheadInv, IdlingInv,
         [SystemNext]_systemVars
  PROVE  IdlingInv'
<1> DEFINE q == subq["agent"]
           N == {ShutDown("idling")}
           M == {ShutDownMsg("idling")}
<1>1. q \in Seq(Notification) /\ Sub = {"agent"}
  BY AgentAssumption DEF BaseInv, Types
<1>2. CASE ws' = None
  BY <1>2 DEF IdlingInv, Attached
<1>3. ASSUME Attached' => SameKnown, shutdown' = shutdown, missed' = missed,
             Has(q, N) => Has(subq'["agent"], N) \/ Has(up'[ws], M) \/ serverEnd'[ws] # "open",
             Attached' => (Has(up[ws], M) => Has(up'[ws], M))
      PROVE  IdlingInv'
  BY <1>3 DEF IdlingInv, SameKnown, Attached
<1>4. ASSUME NEW ns, SystemOp(ns), Attached' => SameKnown, apc' = apc, missed \subseteq missed',
             apc = "registering" /\ shutdown' # shutdown => "shutdown" \in missed',
             Attached' => (Has(up[ws], M) => Has(up'[ws], M))
      PROVE  IdlingInv'
  <2>1. /\ ns \in Seq(Notification)
        /\ apc = "serving" => subq'["agent"] = q \o ns
    BY <1>4, RegistryBase
  <2>2. Has(q \o ns, N) <=> Has(q, N) \/ Has(ns, N)
    BY <1>1, <2>1, HasConcat
  <2>3. shutdown' # shutdown => Has(ns, {ShutDown(shutdown')})
    BY <1>4, ShutdownTold
  <2>4. ws # None => apc \in {"registering", "serving"}
    BY DEF BaseInv, TypeOK
  <2>5. apc # "serving" => ~Has(q, N)
    BY HasOne DEF QueueInv
  <2>6. Attached => ws # None
    BY DEF Attached
  <2>7. CASE shutdown' = shutdown
    BY <1>4, <2>1, <2>2, <2>4, <2>5, <2>6, <2>7 DEF IdlingInv, SameKnown
  <2>8. CASE shutdown' # shutdown
    BY <1>4, <2>1, <2>2, <2>3, <2>4, <2>6, <2>8 DEF IdlingInv, SameKnown
  <2> QED
    BY <2>7, <2>8
<1>5. CASE RegistryStep /\ UNCHANGED serverVars
  <2>1. PICK ns : SystemOp(ns)
    BY <1>5, RegistryStepOp
  <2>2. UNCHANGED <<ws, serverEnd, serverVars, up, apc>>
    BY <1>5 DEF RegistryStep, wireVars
  <2> QED
    BY <1>4, <1>5, <2>1, <2>2, QuietStep, RegistryMisses
<1>6. CASE AgentTop \/ CannotConnect \/ SleepEnds \/ RegisterFails \/ Disconnect
  BY <1>2, <1>6 DEF AgentTop, CannotConnect, SleepEnds, RegisterFails, Disconnect,
     ConnectFailed, BaseInv, TypeOK
<1>7. ASSUME NEW w \in Ws, Connect(w), UNCHANGED serverVars PROVE IdlingInv'
  BY <1>7, ConnectStep DEF IdlingInv
<1>8. CASE AgentRegistered /\ UNCHANGED serverVars
  <2>1. ~Has(q, N)
    BY <1>8, HasOne DEF AgentRegistered, QueueInv
  <2>2. UNCHANGED <<ws, serverEnd, up, shutdown, missed>>
    BY <1>8 DEF AgentRegistered, registryVars
  <2> QED
    BY <1>3, <1>8, <2>1, <2>2, QuietStep
<1>9. CASE ForwardNotification /\ UNCHANGED serverVars
  <2> DEFINE ms == notification_to_message(Head(q))
  <2>1. /\ q # <<>> /\ Head(q) \in Notification /\ UNCHANGED <<shutdown, missed>>
        /\ ms \in Seq(UpMsg)
    BY <1>9, Forwards, MessageForNotification DEF registryVars
  <2>2. \/ AgentServes(ms) /\ subq'["agent"] = Tail(q)
        \/ ws' = None
    BY <1>9, Forwards DEF AgentLeaves
  <2>3. Has(q, N) => Head(q) = ShutDown("idling") \/ Has(Tail(q), N)
    BY <1>1, <2>1, HasTail
  <2>4. Head(q) = ShutDown("idling") => ms = <<ShutDownMsg("idling")>>
    BY <2>1, MessageForNotification DEF ShutdownState
  <2>5. Head(q) = ShutDown("idling") => Has(ms, M)
    BY <2>4, HasOne
  <2> HIDE DEF ms
  <2>6. CASE AgentServes(ms) /\ subq'["agent"] = Tail(q) /\ Attached'
    <3>1. SameKnown /\ up[ws] \in Seq(UpMsg) /\ up'[ws] = up[ws] \o ms
      BY <2>6, ServingStep
    <3>2. Has(up[ws] \o ms, M) <=> Has(up[ws], M) \/ Has(ms, M)
      BY <2>1, <3>1, HasConcat
    <3> QED
      BY <1>3, <2>1, <2>3, <2>5, <2>6, <3>1, <3>2
  <2> QED
    BY <1>2, <2>2, <2>6 DEF IdlingInv
<1>10. CASE HandleMessage /\ UNCHANGED serverVars
  <2>1. PICK id \in ProcId, ms \in Seq(UpMsg) : AgentServes(ms) /\ Handles(id, ms)
    BY <1>10, RequestHandled
  <2>2. UNCHANGED <<ws, apc, missed>> /\ apc = "serving"
    BY <1>10 DEF HandleMessage, agentVars
  <2>3. ASSUME Attached' PROVE SameKnown /\ (Has(up[ws], M) => Has(up'[ws], M))
    <3>1. SameKnown /\ up[ws] \in Seq(UpMsg) /\ up'[ws] = up[ws] \o ms
      BY <2>1, <2>3, ServingStep
    <3>2. Has(up[ws] \o ms, M) <=> Has(up[ws], M) \/ Has(ms, M)
      BY <2>1, <3>1, HasConcat
    <3> QED
      BY <3>1, <3>2
  <2>4. UNCHANGED vars \/ \E ns : SystemOp(ns)
    BY <2>1, HandlesOp
  <2>5. CASE UNCHANGED vars
    BY <1>3, <2>2, <2>3, <2>5 DEF vars, registryVars, notifyVars
  <2> QED
    BY <1>4, <2>2, <2>3, <2>4, <2>5
<1>11. CASE UNCHANGED systemVars
  <2>1. UNCHANGED <<ws, serverEnd, serverVars, up, shutdown, missed, subq>>
    BY <1>11 DEF systemVars, wireVars, agentSide, agentVars, vars, registryVars, notifyVars
  <2> QED
    BY <1>3, <2>1, QuietStep
<1> QED
  BY <1>5, <1>6, <1>7, <1>8, <1>9, <1>10, <1>11, ServerStepIdling DEF SystemNext, AgentStep


\* What an agent's Connection is and knows, without a reconnect timeout.
CurrencyInv ==
  /\ ConnectionInv
  /\ CurrentInv
  /\ QueueInv
  /\ AheadInv
  /\ DoneInv
  /\ IdlingInv

LEMMA InitCurrency == SystemInit => CurrencyInv
<1> SUFFICES ASSUME SystemInit PROVE CurrencyInv
  OBVIOUS
<1>1. /\ ws = None /\ shutdown = "active" /\ subq["agent"] = <<>>
      /\ \A w \in Ws : up[w] = <<>> /\ spc[w] = "login" /\ connShut[w] = "active"
  BY AgentAssumption DEF SystemInit, AgentInit, Init, RegistryInit, NotifyInit, WireInit,
     ServerInit
<1>2. CurrentInv /\ QueueInv /\ DoneInv /\ IdlingInv
  BY <1>1 DEF CurrentInv, Served, QueueInv, DoneInv, IdlingInv
<1>3. \A A : ~Has(<<>>, A)
  BY DEF Has
<1>4. AheadInv
  BY <1>1, <1>3 DEF AheadInv, TaskBehind, Ahead
<1> QED
  BY <1>2, <1>4, InitConnection DEF CurrencyInv

\* The strengthening of ConnectionIsCurrent: the server is never ahead of the
\* agent's shutdown state, and one that is behind has the change on its way.
THEOREM CurrencyInvariance ==
  ASSUME ~ReconnectTimeout
  PROVE  SystemSpec => []CurrencyInv
<1>1. ConnectionInv /\ [SystemNext]_systemVars => ConnectionInv'
  BY StepBase, StepOneConnection DEF ConnectionInv
<1>2. CurrencyInv /\ [SystemNext]_systemVars => CurrencyInv'
  BY <1>1, StepCurrent, StepQueue, StepAhead, StepDone, StepIdling DEF CurrencyInv,
     ConnectionInv
<1> QED
  BY <1>2, InitCurrency, PTL DEF SystemSpec

\* The Connection of an agent that serves uses its websocket and knows its
\* shutdown state, whatever websockets and late messages there were before.
THEOREM ConnectionStaysCurrent ==
  ASSUME ~ReconnectTimeout
  PROVE  SystemSpec => []ConnectionIsCurrent
<1>1. CurrencyInv => ConnectionIsCurrent
  <2> SUFFICES ASSUME CurrencyInv, Quiet
               PROVE  /\ conn # None
                      /\ connWs[conn] = ws
                      /\ connShut[conn] # shutdown => "shutdown" \in missed
    BY DEF ConnectionIsCurrent
  <2>1. /\ apc = "serving" /\ subq["agent"] = <<>> /\ up[ws] = <<>>
        /\ spc[ws] = "recv" /\ serverEnd[ws] = "open" /\ closing = {}
    BY DEF Quiet
  <2>2. ws # None /\ ws \in Ws /\ conn \in Ws /\ shutdown \in ShutdownState
        /\ connShut[conn] \in ShutdownState
    <3>1. ws # None
      BY <2>1 DEF CurrencyInv, ConnectionInv, BaseInv, TypeOK
    <3>2. ws \in Ws /\ conn # None
      BY <2>1, <3>1, ServedConnection DEF CurrencyInv, ConnectionInv, Tasks
    <3> QED
      BY <3>1, <3>2 DEF CurrencyInv, ConnectionInv, BaseInv, TypeOK, Types, RegistryTypes
  <2>3. conn # None /\ connWs[conn] = ws
    BY <2>1, <2>2, AgentAssumption DEF CurrencyInv, CurrentInv, Served
  <2>4. ~Logging /\ Attached /\ KnownShutdown = connShut[conn]
    BY <2>1, <2>2, <2>3 DEF Logging, Attached, KnownShutdown
  <2>5. \A A : ~Has(<<>>, A)
    BY DEF Has
  <2>6. CASE shutdown = "active"
    BY <2>2, <2>3, <2>6 DEF CurrencyInv, AheadInv, TaskBehind, Ahead, ShutdownState
  <2>7. CASE shutdown = "idling"
    BY <2>1, <2>3, <2>4, <2>5, <2>7 DEF CurrencyInv, IdlingInv
  <2>8. CASE shutdown = "done"
    BY <2>1, <2>2, <2>3, <2>5, <2>8 DEF CurrencyInv, DoneInv
  <2> QED
    BY <2>2, <2>3, <2>6, <2>7, <2>8 DEF ShutdownState
<1> QED
  BY <1>1, CurrencyInvariance, PTL

-----------------------------------------------------------------------------
(* If nothing arrives late, all is on the agent's websocket *)

LEMMA StepStale ==
  ASSUME ~Late, BaseInv, StaleInv, [SystemNext]_systemVars
  PROVE  StaleInv'
<1>1. CASE UNCHANGED <<apc, ws, up>>
  BY <1>1 DEF StaleInv
<1>2. CASE ServerStep /\ UNCHANGED agentSide
  <2>1. UNCHANGED <<apc, ws>> /\ \A w \in Ws : up[w] = <<>> => up'[w] = <<>>
    BY <1>2, AgentSideKept, ServerReads DEF Reads
  <2> QED
    BY <2>1 DEF StaleInv
<1>3. CASE RegistryStep \/ UNCHANGED systemVars
  BY <1>1, <1>3 DEF RegistryStep, systemVars, wireVars, agentSide, agentVars
<1>4. CASE AgentStep /\ UNCHANGED serverVars
  <2>1. CASE AgentTop \/ CannotConnect \/ SleepEnds
    <3>1. UNCHANGED <<ws, up>> \/ (ws = None /\ ws' = None /\ UNCHANGED up)
      BY <2>1 DEF AgentTop, CannotConnect, SleepEnds, ConnectFailed, BaseInv, TypeOK, wireVars
    <3>2. apc # "exited"
      BY <2>1 DEF AgentTop, CannotConnect, SleepEnds
    <3> QED
      BY <3>1, <3>2 DEF StaleInv
  <2>2. ASSUME NEW w \in Ws, Connect(w) PROVE StaleInv'
    <3>1. /\ apc = "connecting" /\ ws = None /\ ws' = w
          /\ up' = [up EXCEPT ![w] = <<Register(Live, shutdown)>>]
      BY <2>2 DEF Connect, BaseInv, TypeOK
    <3> QED
      BY <3>1, AgentAssumption DEF StaleInv, BaseInv, Types
  <2>3. CASE RegisterFails \/ Disconnect
    <3>1. apc # "exited" /\ ws \in Ws /\ ws' = None /\ CloseAgentEnd(ws)
      BY <2>3 DEF RegisterFails, Disconnect, ConnectFailed, BaseInv, TypeOK
    <3>2. PICK q \in Arrives(up[ws]) : up' = [up EXCEPT ![ws] = q]
      BY <3>1 DEF CloseAgentEnd
    <3>3. q = <<>>
      BY <3>2 DEF Arrives
    <3> QED
      BY <3>1, <3>2, <3>3 DEF StaleInv, BaseInv, Types
  <2>4. CASE AgentRegistered
    BY <2>4 DEF AgentRegistered, StaleInv
  <2>5. ASSUME NEW ms, AgentServes(ms) PROVE StaleInv'
    <3>1. UNCHANGED <<apc, ws>> /\ \A w \in Ws : w # ws => up'[w] = up[w]
      BY <2>5 DEF AgentServes, AgentSend, BaseInv, Types
    <3> QED
      BY <3>1 DEF StaleInv
  <2>6. CASE ForwardNotification
    <3>1. (\E ms : AgentServes(ms)) \/ apc' = "exited"
      BY <1>4, <2>6, Forwards
    <3> QED
      BY <2>5, <3>1 DEF StaleInv
  <2>7. CASE HandleMessage
    BY <1>4, <2>5, <2>7, RequestHandled
  <2> QED
    BY <1>4, <2>1, <2>2, <2>3, <2>4, <2>6, <2>7 DEF AgentStep
<1> QED
  BY <1>2, <1>3, <1>4 DEF SystemNext

-----------------------------------------------------------------------------
(* The server tracks every process of the agent *)

LEMMA TracksMore ==
  ASSUME SameKnown, NEW id \in ProcId, WillTrack(id),
         NEW ns \in Seq(Notification), NEW ms \in Seq(UpMsg),
         subq["agent"] \in Seq(Notification), up[ws] \in Seq(UpMsg),
         subq'["agent"] = subq["agent"] \o ns, up'[ws] = up[ws] \o ms,
         ~Has(ns, {Delete(id)}), ~Has(ms, Removals(id))
  PROVE  WillTrack(id)'
<1> DEFINE q == subq["agent"]
           u == up[ws]
           D == {Delete(id)}
           X == Removals(id)
<1>1. /\ Has(q \o ns, D) <=> Has(q, D)
      /\ Last(q, {Start(id)}, D) => Last(q \o ns, {Start(id)}, D)
  BY HasConcat
<1>2. /\ Has(u \o ms, X) <=> Has(u, X)
      /\ Last(u, Results(id), X) => Last(u \o ms, Results(id), X)
  BY HasConcat
<1>3. UNCHANGED <<Results(id), Removals(id), ws>> /\ (Known(id)' <=> Known(id))
  BY DEF Results, Removals, SameKnown
<1> QED
  BY <1>1, <1>2, <1>3 DEF WillTrack


\* An operation on the registry, with what the agent sends in the same step.
LEMMA OperationTracks ==
  ASSUME BaseInv, QueueInv, ForgottenInv, NEW ns, SystemOp(ns), SameKnown,
         NEW ms \in Seq(UpMsg), up'[ws] = up[ws] \o ms,
         NEW id \in ProcId, procs'[id] # None, id \notin missed', missed \subseteq missed',
         apc = "registering" /\ procs[id] = None => id \in missed',
         ~Has(ms, Removals(id))
  PROVE  WillTrack(id)'
<1> DEFINE q == subq["agent"]
           D == {Delete(id)}
<1>1. /\ ns \in Seq(Notification) /\ q \in Seq(Notification) /\ up[ws] \in Seq(UpMsg)
      /\ apc = "serving" => subq'["agent"] = q \o ns
      /\ apc # "serving" => q = <<>> /\ subq'["agent"] = <<>>
      /\ apc \in {"registering", "serving"}
  BY RegistryBase, AgentAssumption DEF BaseInv, Types, TypeOK, QueueInv, SameKnown, Attached
<1>2. ~Has(ns, D) /\ (procs[id] = None => Last(ns, {Start(id)}, D))
  BY ProcsTold
<1>3. CASE procs[id] = None
  <2>1. apc = "serving"
    BY <1>1, <1>3
  <2>2. Last(q \o ns, {Start(id)}, D)
    BY <1>1, <1>2, <1>3, HasConcat
  <2> QED
    BY <1>1, <2>1, <2>2 DEF WillTrack
<1>4. CASE procs[id] # None
  <2>1. WillTrack(id)
    BY <1>4 DEF ForgottenInv, SameKnown
  <2>2. CASE apc = "serving"
    BY <1>1, <1>2, <2>1, <2>2, TracksMore
  <2>3. CASE apc # "serving"
    <3>1. <<>> \in Seq(Notification) /\ ~Has(<<>>, D)
      BY DEF Has
    <3>2. q = <<>> /\ subq'["agent"] = <<>>
      BY <1>1, <2>3
    <3>3. subq'["agent"] = q \o <<>>
      BY <3>2
    <3> QED
      BY <1>1, <2>1, <3>1, <3>3, TracksMore
  <2> QED
    BY <2>2, <2>3
<1> QED
  BY <1>3, <1>4

\* A notification is forwarded.
LEMMA ForwardTracks ==
  ASSUME BaseInv, ForwardNotification, UNCHANGED serverVars, SameKnown,
         AgentServes(notification_to_message(Head(subq["agent"]))),
         subq'["agent"] = Tail(subq["agent"]),
         up'[ws] = up[ws] \o notification_to_message(Head(subq["agent"])),
         NEW id \in ProcId, procs[id] # None, WillTrack(id)
  PROVE  WillTrack(id)'
<1> DEFINE q == subq["agent"]
           n == Head(q)
           ms == notification_to_message(n)
           u == up[ws]
           D == {Delete(id)}
           X == Removals(id)
           R == Results(id)
<1>1. /\ q \in Seq(Notification) /\ q # <<>> /\ n \in Notification
      /\ ms \in Seq(UpMsg) /\ u \in Seq(UpMsg)
  BY Forwards, MessageForNotification DEF BaseInv, Types, SameKnown
<1>2. /\ Has(q, D) <=> n \in D \/ Has(Tail(q), D)
      /\ Last(q, {Start(id)}, D) =>
           Last(Tail(q), {Start(id)}, D) \/ (n = Start(id) /\ ~Has(Tail(q), D))
  BY <1>1, HasTail
<1>3. n # Delete(id) => ~Has(ms, X)
  <2>1. /\ \A i, st : ProcResult(i, st) \notin X
        /\ \A i : i # id => ProcDelete(i) \notin X
        /\ \A st : ShutDownMsg(st) \notin X
    BY DEF Removals, ProcResult, ProcDelete, ProcUnknown, ShutDownMsg
  <2>2. ASSUME NEW i \in ProcId, n \in {Start(i), NotRunning(i)} PROVE ~Has(ms, X)
    <3>1. ms = <<>> \/ ms = <<ProcResult(i, state[procs[i]])>>
      BY <1>1, <2>2, MessageForNotification
    <3> QED
      BY <2>1, <3>1, HasOne
  <2>3. ASSUME NEW i \in ProcId, n = Delete(i), n # Delete(id) PROVE ~Has(ms, X)
    <3>1. ms = <<ProcDelete(i)>> /\ i # id
      BY <1>1, <2>3, MessageForNotification
    <3> QED
      BY <2>1, <3>1, HasOne
  <2>4. ASSUME NEW st \in ShutdownState, n = ShutDown(st) PROVE ~Has(ms, X)
    <3>1. ms = <<ShutDownMsg(st)>>
      BY <1>1, <2>4, MessageForNotification
    <3> QED
      BY <2>1, <3>1, HasOne
  <2> QED
    BY <1>1, <2>2, <2>3, <2>4, NotificationKinds
<1>4. n = Start(id) => Last(ms, R, X)
  <2>1. n = Start(id) => ms = <<ProcResult(id, state[procs[id]])>>
    BY <1>1, MessageForNotification
  <2>2. ProcResult(id, state[procs[id]]) \in R
    BY DEF Results, BaseInv, Types, RegistryTypes
  <2> QED
    BY <2>1, <2>2, HasOne
<1> HIDE DEF ms
<1>5. /\ Has(u \o ms, X) <=> Has(u, X) \/ Has(ms, X)
      /\ Last(ms, R, X) => Last(u \o ms, R, X)
      /\ Last(u, R, X) /\ ~Has(ms, X) => Last(u \o ms, R, X)
  BY <1>1, HasConcat
<1>6. UNCHANGED <<Results(id), Removals(id), ws>> /\ (Known(id)' <=> Known(id))
  BY DEF Results, Removals, SameKnown
<1>7. subq'["agent"] = Tail(q) /\ up'[ws] = u \o ms
  BY DEF ms
<1>8. CASE Last(q, {Start(id)}, D)
  BY <1>2, <1>4, <1>5, <1>6, <1>7, <1>8 DEF WillTrack
<1>9. CASE ~Has(q, D) /\ (Last(u, R, X) \/ (~Has(u, X) /\ Known(id)))
  <2>1. ~Has(Tail(q), D) /\ ~Has(ms, X)
    BY <1>2, <1>3, <1>9
  <2> QED
    BY <1>5, <1>6, <1>7, <1>9, <2>1 DEF WillTrack
<1> QED
  BY <1>8, <1>9 DEF WillTrack

\* The messages about a process are distinct.
LEMMA MessageKinds ==
  ASSUME NEW id, NEW i
  PROVE  /\ Results(id) \cap Removals(i) = {}
         /\ RequestError(i) \notin Results(id) \cup Removals(id)
         /\ \A st : ShutDownMsg(st) \notin Results(id) \cup Removals(id)
         /\ i # id => /\ Results(id) \cap Results(i) = {}
                      /\ Removals(id) \cap Removals(i) = {}
                      /\ RequestError(i) # RequestError(id)
         /\ \A m \in Results(id) \cup Removals(id) \cup {RequestError(id)} : m.type # "Register"
<1>1. \A m \in Results(id) : m.type = "ProcResult" /\ m.id = id
  BY DEF Results, ProcResult
<1>2. \A m \in Removals(id) : m.type \in {"ProcDelete", "ProcUnknown"} /\ m.id = id
  BY DEF Removals, ProcDelete, ProcUnknown
<1>3. \A m \in Results(i) : m.type = "ProcResult" /\ m.id = i
  BY DEF Results, ProcResult
<1>4. \A m \in Removals(i) : m.type \in {"ProcDelete", "ProcUnknown"} /\ m.id = i
  BY DEF Removals, ProcDelete, ProcUnknown
<1>5. /\ RequestError(i).type = "RequestError" /\ RequestError(i).id = i
      /\ RequestError(id).type = "RequestError" /\ RequestError(id).id = id
      /\ \A st : ShutDownMsg(st).type = "ShutDown"
  BY DEF RequestError, ShutDownMsg
<1>6. Results(id) \cap Removals(i) = {}
  BY <1>1, <1>4
<1>7. i # id => Results(id) \cap Results(i) = {} /\ Removals(id) \cap Removals(i) = {}
  BY <1>1, <1>2, <1>3, <1>4
<1>8. /\ RequestError(i) \notin Results(id) \cup Removals(id)
      /\ \A st : ShutDownMsg(st) \notin Results(id) \cup Removals(id)
      /\ i # id => RequestError(i) # RequestError(id)
  BY <1>1, <1>2, <1>5
<1> QED
  BY <1>1, <1>2, <1>5, <1>6, <1>7, <1>8

LEMMA ServerStepForgotten ==
  ASSUME ~ReconnectTimeout, ~Late, BaseInv, EndInv, OneConnection, StaleInv, ForgottenInv,
         ServerStep, UNCHANGED agentSide
  PROVE  ForgottenInv'
<1> SUFFICES ASSUME Attached', NEW id \in ProcId, procs'[id] # None, id \notin missed'
             PROVE  WillTrack(id)'
  BY DEF ForgottenInv
<1> DEFINE q == subq["agent"]
           X == Removals(id)
           R == Results(id)
<1>1. Attached /\ ws' = ws /\ ws \in Ws /\ AttachedStep /\ apc # "exited"
  <2>1. Attached /\ ws' = ws /\ ws \in Ws /\ AttachedStep
    BY AttachedSteps
  <2> QED
    BY <2>1 DEF Attached, BaseInv, TypeOK
<1>2. WillTrack(id) /\ UNCHANGED <<subq, Results(id), Removals(id)>>
  BY <1>1, AgentSideKept DEF ForgottenInv, Results, Removals
<1>3. ASSUME up'[ws] = up[ws], Known(id) => Known(id)' PROVE WillTrack(id)'
  BY <1>1, <1>2, <1>3 DEF WillTrack
<1>4. CASE Login(ws)
  <2>1. \A m \in R \cup X : m.type # "Register"
    BY MessageKinds
  <2>2. ~Has(up[ws], X) /\ ~Last(up[ws], R, X) /\ ~Has(<<>>, X)
    BY <1>1, <1>4, <2>1, LoginTakes, HasOne
  <2>3. up'[ws] = <<>> /\ (Known(id) <=> Known(id)')
    BY <1>1, <1>4, LoginTakes DEF Known
  <2> QED
    BY <1>1, <1>2, <2>2, <2>3 DEF WillTrack
<1>5. CASE AddAndReconcile(ws)
  <2>1. up' = up /\ (Known(id) <=> Known(id)')
    BY <1>1, <1>5, AddTakes DEF Known
  <2> QED
    BY <1>3, <2>1
<1>6. CASE /\ ~Logging /\ ~Logging' /\ conn' = conn /\ ServerReceive(ws)
           /\ up' = [up EXCEPT ![ws] = Tail(@)] /\ Receives(ws, Head(up[ws]))
  <2> DEFINE u == up[ws]
             m == Head(u)
  <2>1. u \in Seq(UpMsg) /\ u # <<>> /\ taskConn[ws] \in Ws
    BY <1>1, <1>6, MessageReceived
  <2>2. up'[ws] = Tail(u)
    BY <1>1, <1>6 DEF BaseInv, Types
  <2>3. /\ Has(u, X) <=> m \in X \/ Has(Tail(u), X)
        /\ Last(u, R, X) => Last(Tail(u), R, X) \/ (m \in R /\ ~Has(Tail(u), X))
    BY <2>1, HasTail
  <2>4. (Known(id) <=> processes[id] # None) /\ (Known(id)' <=> processes'[id] # None)
    BY <1>6 DEF Known
  <2>5. /\ m \in R => processes'[id] # None
        /\ m \notin X /\ processes[id] # None => processes'[id] # None
    <3>1. ASSUME NEW i \in ProcId, m \in Results(i) \cup {RequestError(i)},
                 processes' = [processes EXCEPT ![i] = IF @ = None THEN taskConn[ws] ELSE @]
          PROVE  (m \in R => i = id) /\ (processes[id] # None => processes'[id] # None)
                 /\ (i = id => processes'[id] # None)
      <4>1. m \in R => i = id
        BY <3>1, MessageKinds
      <4> QED
        BY <2>1, <3>1, <4>1, AgentAssumption DEF BaseInv, TypeOK
    <3>2. ASSUME NEW i \in ProcId, m \in Removals(i),
                 processes' = [processes EXCEPT ![i] = None]
          PROVE  m \notin R /\ (m \notin X /\ processes[id] # None => processes'[id] # None)
      BY <3>2, MessageKinds DEF BaseInv, TypeOK
    <3>3. ASSUME NEW st \in ShutdownState, m = ShutDownMsg(st), processes' = processes
          PROVE  m \notin R
      BY <3>3, MessageKinds
    <3> QED
      BY <1>6, <3>1, <3>2, <3>3 DEF Receives
  <2>6. m \in R => m \notin X
    BY MessageKinds
  <2> QED
    BY <1>1, <1>2, <2>2, <2>3, <2>4, <2>5, <2>6 DEF WillTrack
<1>7. CASE Beside /\ (~Logging => UNCHANGED <<processes, connShut>>)
  <2>1. up'[ws] = up[ws] /\ (Known(id) => Known(id)')
    BY <1>1, <1>7, RegisterStays DEF Known, Beside
  <2> QED
    BY <1>3, <2>1
<1>8. ~\E w \in Ws \ {ws} : ServerReceive(w)
  BY <1>1 DEF ServerReceive, StaleInv
<1>9. ASSUME Beside, NEW i \in ProcId, SendStart(i) \/ CreateProcess(i)
      PROVE  WillTrack(id)'
  <2>1. processes[id] # None => processes'[id] # None
    <3>1. Create(i, chosen[i], "created") \/ Create(i, chosen[i], "created late")
          \/ UNCHANGED processes
      BY <1>9 DEF SendStart, CreateProcess
    <3> QED
      BY <3>1 DEF Create, BaseInv, TypeOK
  <2>2. up'[ws] = up[ws] /\ (Known(id) => Known(id)')
    BY <1>1, <1>9, <2>1, RegisterStays DEF Known, Beside
  <2> QED
    BY <1>3, <2>2
<1> QED
  BY <1>1, <1>4, <1>5, <1>6, <1>7, <1>8, <1>9 DEF AttachedStep


LEMMA StepForgotten ==
  ASSUME ~ReconnectTimeout, ~Late, BaseInv, EndInv, OneConnection, QueueInv, StaleInv,
         ForgottenInv, [SystemNext]_systemVars
  PROVE  ForgottenInv'
<1> DEFINE q == subq["agent"]
<1>1. /\ q \in Seq(Notification) /\ Sub = {"agent"} /\ <<>> \in Seq(UpMsg)
      /\ \A A : ~Has(<<>>, A)
  BY AgentAssumption DEF BaseInv, Types, Has
<1>2. CASE ws' = None
  BY <1>2 DEF ForgottenInv, Attached
<1>3. CASE UNCHANGED <<ws, serverEnd, serverVars, up, subq, procs, missed>>
  <2> SUFFICES ASSUME Attached', NEW id \in ProcId, procs'[id] # None, id \notin missed'
               PROVE  WillTrack(id)'
    BY DEF ForgottenInv
  <2>1. SameKnown
    BY <1>3, QuietStep
  <2>2. WillTrack(id) /\ UNCHANGED <<Results(id), Removals(id)>>
    BY <1>3, <2>1 DEF ForgottenInv, SameKnown, Results, Removals
  <2> QED
    BY <1>3, <2>1, <2>2 DEF WillTrack, SameKnown
<1>4. CASE RegistryStep /\ UNCHANGED serverVars
  <2> SUFFICES ASSUME Attached', NEW id \in ProcId, procs'[id] # None, id \notin missed'
               PROVE  WillTrack(id)'
    BY DEF ForgottenInv
  <2>1. PICK ns : SystemOp(ns)
    BY <1>4, RegistryStepOp
  <2>2. SameKnown /\ UNCHANGED up
    BY <1>4, QuietStep DEF RegistryStep, wireVars
  <2>3. up[ws] \in Seq(UpMsg)
    BY <2>2 DEF SameKnown, BaseInv, Types
  <2>4. up'[ws] = up[ws] \o <<>> /\ ~Has(<<>>, Removals(id))
    BY <1>1, <2>2, <2>3
  <2>5. missed \subseteq missed' /\ (apc = "registering" /\ procs[id] = None => id \in missed')
    BY <1>4, RegistryMisses
  <2> QED
    BY <1>1, <2>1, <2>2, <2>4, <2>5, OperationTracks
<1>5. CASE AgentTop \/ CannotConnect \/ SleepEnds \/ RegisterFails \/ Disconnect
  BY <1>2, <1>5 DEF AgentTop, CannotConnect, SleepEnds, RegisterFails, Disconnect,
     ConnectFailed, BaseInv, TypeOK
<1>6. ASSUME NEW w \in Ws, Connect(w), UNCHANGED serverVars PROVE ForgottenInv'
  <2> SUFFICES ASSUME NEW id \in ProcId, procs'[id] # None PROVE WillTrack(id)'
    BY DEF ForgottenInv
  <2> DEFINE r == Register(Live, shutdown)
  <2>1. /\ procs' = procs /\ subq'["agent"] = <<>> /\ ws' = w /\ up'[w] = <<r>>
        /\ Known(id)' <=> procs[id] # None
    BY <1>6, ConnectStep
  <2>2. r \notin Removals(id)'
    BY DEF Register, Removals, ProcDelete, ProcUnknown
  <2>3. ~Has(<<r>>, Removals(id)')
    BY <2>2, HasOne
  <2> QED
    BY <1>1, <2>1, <2>3 DEF WillTrack
<1>7. CASE AgentRegistered /\ UNCHANGED serverVars
  <2>1. UNCHANGED <<ws, serverEnd, up, procs, missed>> /\ q = <<>> /\ subq'["agent"] = <<>>
    BY <1>1, <1>7 DEF AgentRegistered, Subscribe, registryVars, QueueInv, BaseInv, Types
  <2> SUFFICES ASSUME Attached', NEW id \in ProcId, procs'[id] # None, id \notin missed'
               PROVE  WillTrack(id)'
    BY DEF ForgottenInv
  <2>2. SameKnown
    BY <1>7, <2>1, QuietStep
  <2>3. WillTrack(id) /\ UNCHANGED <<Results(id), Removals(id)>>
    BY <2>1, <2>2 DEF ForgottenInv, SameKnown, Results, Removals
  <2> QED
    BY <2>1, <2>2, <2>3 DEF WillTrack, SameKnown
<1>8. CASE ForwardNotification /\ UNCHANGED serverVars
  <2> DEFINE ms == notification_to_message(Head(q))
  <2>1. UNCHANGED <<procs, missed>>
    BY <1>8, Forwards DEF registryVars
  <2>2. \/ AgentServes(ms) /\ subq'["agent"] = Tail(q)
        \/ ws' = None
    BY <1>8, Forwards DEF AgentLeaves
  <2>3. ASSUME AgentServes(ms), subq'["agent"] = Tail(q), Attached', NEW id \in ProcId,
               procs'[id] # None, id \notin missed'
        PROVE  WillTrack(id)'
    <3>1. SameKnown /\ up'[ws] = up[ws] \o ms
      BY <2>3, ServingStep
    <3>2. WillTrack(id)
      BY <2>1, <2>3, <3>1 DEF ForgottenInv, SameKnown
    <3> QED
      BY <1>8, <2>1, <2>3, <3>1, <3>2, ForwardTracks
  <2> QED
    BY <1>2, <2>2, <2>3 DEF ForgottenInv
<1>9. CASE HandleMessage /\ UNCHANGED serverVars
  <2> SUFFICES ASSUME Attached', NEW id \in ProcId, procs'[id] # None, id \notin missed'
               PROVE  WillTrack(id)'
    BY DEF ForgottenInv
  <2>1. PICK i \in ProcId, ms \in Seq(UpMsg) : AgentServes(ms) /\ Handles(i, ms)
    BY <1>9, RequestHandled
  <2>2. missed' = missed /\ apc = "serving"
    BY <1>9, RequestHandled
  <2>3. SameKnown /\ up'[ws] = up[ws] \o ms /\ up[ws] \in Seq(UpMsg)
    BY <2>1, ServingStep
  <2>4. ASSUME procs[id] # None PROVE ~Has(ms, Removals(id))
    <3>1. ProcUnknown(i) \in Removals(id) => i = id
      BY DEF ProcUnknown, ProcDelete, Removals
    <3>2. RequestError(i) \notin Removals(id) /\ \A st : ProcResult(i, st) \notin Removals(id)
      BY DEF RequestError, ProcResult, ProcUnknown, ProcDelete, Removals
    <3> QED
      BY <1>1, <2>1, <2>4, <3>1, <3>2, HasOne DEF Handles
  <2>5. CASE UNCHANGED vars
    <3>1. UNCHANGED <<procs, subq>>
      BY <2>5 DEF vars, registryVars, notifyVars
    <3>2. WillTrack(id) /\ ~Has(ms, Removals(id))
      BY <2>2, <2>3, <2>4, <3>1 DEF ForgottenInv, SameKnown
    <3>3. <<>> \in Seq(Notification) /\ subq'["agent"] = q \o <<>>
      BY <1>1, <3>1
    <3> QED
      BY <1>1, <2>1, <2>3, <3>2, <3>3, TracksMore
  <2>6. ASSUME NEW ns, SystemOp(ns), ms = <<>> PROVE WillTrack(id)'
    BY <1>1, <2>1, <2>2, <2>3, <2>6, OperationTracks
  <2>7. UNCHANGED vars \/ (ms = <<>> /\ \E ns : SystemOp(ns))
    BY <2>1, HandlesOp DEF Handles
  <2> QED
    BY <2>5, <2>6, <2>7
<1>10. CASE UNCHANGED systemVars
  BY <1>3, <1>10 DEF systemVars, wireVars, agentSide, agentVars, vars, registryVars, notifyVars
<1> QED
  BY <1>4, <1>5, <1>6, <1>7, <1>8, <1>9, <1>10, ServerStepForgotten DEF SystemNext, AgentStep

-----------------------------------------------------------------------------
(* The server tracks no other process *)

LEMMA OperationForgets ==
  ASSUME BaseInv, QueueInv, GhostInv, NEW ns, SystemOp(ns), SameKnown,
         UNCHANGED <<apc, heard>>, up'[ws] = up[ws],
         NEW id \in ProcId, Promised(id)', id \notin missed', "error" \notin heard[id],
         missed \subseteq missed',
         apc = "registering" /\ procs[id] # None => id \in missed',
         Has(down[ws], Starts(id)) => Has(down'[ws], Starts(id)),
         procs'[id] = None
  PROVE  WillForget(id)'
<1> DEFINE q == subq["agent"]
           D == {Delete(id)}
<1>1. /\ ns \in Seq(Notification) /\ q \in Seq(Notification)
      /\ apc = "serving" => subq'["agent"] = q \o ns
      /\ apc # "serving" => q = <<>> /\ subq'["agent"] = <<>>
      /\ apc \in {"registering", "serving"}
  BY RegistryBase, AgentAssumption DEF BaseInv, Types, TypeOK, QueueInv, SameKnown, Attached
<1>2. Has(q \o ns, D) <=> Has(q, D) \/ Has(ns, D)
  BY <1>1, HasConcat
<1>3. UNCHANGED <<Results(id), Removals(id), Starts(id), ws>> /\ (Known(id)' <=> Known(id))
  BY DEF Results, Removals, Starts, SameKnown
<1>4. CASE procs[id] # None
  <2>1. Has(ns, D) /\ apc = "serving"
    BY <1>1, <1>4, ProcsTold
  <2> QED
    BY <1>1, <1>2, <2>1 DEF WillForget
<1>5. CASE procs[id] = None
  <2>1. Promised(id) /\ id \notin missed
    BY <1>3 DEF Promised
  <2>2. WillForget(id)
    BY <1>5, <2>1 DEF GhostInv, SameKnown
  <2>3. Has(q, D) => Has(subq'["agent"], D)
    BY <1>1, <1>2
  <2> QED
    BY <1>3, <2>2, <2>3 DEF WillForget
<1> QED
  BY <1>4, <1>5

\* A notification is forwarded, or a request answered with a message.
LEMMA MessageForgets ==
  ASSUME SameKnown, NEW id \in ProcId, NEW ms \in Seq(UpMsg), up[ws] \in Seq(UpMsg),
         up'[ws] = up[ws] \o ms, GhostInv, UNCHANGED <<procs, missed, heard>>,
         Promised(id)', id \notin missed, "error" \notin heard[id], procs[id] = None,
         ~Has(ms, Results(id)),
         Has(subq["agent"], {Delete(id)}) =>
           Has(subq'["agent"], {Delete(id)}) \/ Last(ms, Removals(id), Results(id)),
         Has(down[ws], Starts(id)) =>
           Has(down'[ws], Starts(id)) \/ Has(ms, {RequestError(id)})
  PROVE  WillForget(id)'
<1> DEFINE u == up[ws]
           R == Results(id)
           X == Removals(id)
           E == {RequestError(id)}
<1>1. /\ Has(u \o ms, R) <=> Has(u, R) \/ Has(ms, R)
      /\ Has(u \o ms, E) <=> Has(u, E) \/ Has(ms, E)
      /\ Last(ms, X, R) => Last(u \o ms, X, R)
      /\ Last(u, X, R) /\ ~Has(ms, R) => Last(u \o ms, X, R)
  BY HasConcat
<1>2. UNCHANGED <<Results(id), Removals(id), Starts(id), ws>> /\ (Known(id)' <=> Known(id))
  BY DEF Results, Removals, Starts, SameKnown
<1>3. Promised(id)
  BY <1>1, <1>2 DEF Promised
<1>4. WillForget(id)
  BY <1>3 DEF GhostInv, SameKnown
<1> QED
  BY <1>1, <1>2, <1>4 DEF WillForget

LEMMA ServerStepGhost ==
  ASSUME ~ReconnectTimeout, ~Late, ~Backpressure, BaseInv, EndInv, OneConnection, StaleInv,
         GhostInv, ServerStep, UNCHANGED agentSide
  PROVE  Attached' => \A id \in ProcId :
           Promised(id)' /\ id \notin missed' /\ "error" \notin heard'[id]
             => procs'[id] # None \/ WillForget(id)'
<1> SUFFICES ASSUME Attached', NEW id \in ProcId, Promised(id)', id \notin missed',
                    "error" \notin heard'[id], procs'[id] = None
             PROVE  WillForget(id)'
  OBVIOUS
<1> DEFINE X == Removals(id)
           R == Results(id)
           E == {RequestError(id)}
<1>1. /\ Attached /\ ws' = ws /\ ws \in Ws /\ AttachedStep /\ apc # "exited"
      /\ serverEnd'[ws] = "open"
  <2>1. Attached /\ ws' = ws /\ ws \in Ws /\ AttachedStep
    BY AttachedSteps
  <2> QED
    BY <2>1 DEF Attached, BaseInv, TypeOK
<1>2. UNCHANGED <<subq, procs, missed, Results(id), Removals(id), Starts(id)>>
  BY AgentSideKept DEF Results, Removals, Starts
<1>3. /\ "error" \notin heard[id]
      /\ Has(down[ws], Starts(id)) => Has(down'[ws], Starts(id))
  BY <1>1, ServerKeeps
<1>4. Promised(id) => WillForget(id)
  BY <1>1, <1>2, <1>3 DEF GhostInv
<1>5. ASSUME up'[ws] = up[ws], Known(id)' => Known(id) PROVE WillForget(id)'
  BY <1>1, <1>2, <1>3, <1>4, <1>5 DEF WillForget, Promised
<1>6. CASE Login(ws)
  <2>1. /\ \A m \in X : m.type # "Register"
        /\ \A m \in E : m.type # "Register"
    BY MessageKinds
  <2>2. ~Has(up[ws], E) /\ ~Last(up[ws], X, R)
    BY <1>1, <1>6, <2>1, LoginTakes
  <2>3. up'[ws] = <<>> /\ (Known(id) <=> Known(id)')
    BY <1>1, <1>6, LoginTakes DEF Known
  <2>4. ~Has(<<>>, R)
    BY DEF Has
  <2> QED
    BY <1>1, <1>2, <1>3, <1>4, <2>2, <2>3, <2>4 DEF WillForget, Promised
<1>7. CASE AddAndReconcile(ws)
  <2>1. up' = up /\ (Known(id) <=> Known(id)')
    BY <1>1, <1>7, AddTakes DEF Known
  <2> QED
    BY <1>5, <2>1
<1>8. CASE /\ ~Logging /\ ~Logging' /\ conn' = conn /\ ServerReceive(ws)
           /\ up' = [up EXCEPT ![ws] = Tail(@)] /\ Receives(ws, Head(up[ws]))
  <2> DEFINE u == up[ws]
             m == Head(u)
  <2>1. u \in Seq(UpMsg) /\ u # <<>>
    BY <1>1, <1>8, MessageReceived
  <2>2. up'[ws] = Tail(u)
    BY <1>1, <1>8 DEF BaseInv, Types
  <2>3. /\ Has(u, R) <=> m \in R \/ Has(Tail(u), R)
        /\ Has(u, E) <=> m \in E \/ Has(Tail(u), E)
        /\ Last(u, X, R) => Last(Tail(u), X, R) \/ (m \in X /\ ~Has(Tail(u), R))
    BY <2>1, HasTail
  <2>4. (Known(id) <=> processes[id] # None) /\ (Known(id)' <=> processes'[id] # None)
    BY <1>8 DEF Known
  <2>5. /\ m \notin E
        /\ m \in X => processes'[id] = None
        /\ processes'[id] # None => processes[id] # None \/ m \in R
    <3>1. ASSUME NEW i \in ProcId, m \in Results(i) \cup {RequestError(i)},
                 processes' = [processes EXCEPT ![i] = IF @ = None THEN taskConn[ws] ELSE @],
                 m = RequestError(i) => "error" \in heard'[i]
          PROVE  /\ m \notin E /\ m \notin X
                 /\ processes'[id] # None => processes[id] # None \/ m \in R
      <4>1. i # id => RequestError(i) # RequestError(id) /\ RequestError(id) \notin Results(i)
        BY MessageKinds
      <4>2. RequestError(id) \notin Results(id) /\ m \notin X
        BY <3>1, MessageKinds
      <4>3. m \notin E
        BY <3>1, <4>1, <4>2
      <4>4. i # id => processes'[id] = processes[id]
        BY <3>1 DEF BaseInv, TypeOK
      <4>5. i = id => m \in R
        BY <3>1, <4>3
      <4> QED
        BY <4>2, <4>3, <4>4, <4>5
    <3>2. ASSUME NEW i \in ProcId, m \in Removals(i),
                 processes' = [processes EXCEPT ![i] = None]
          PROVE  /\ m \notin E /\ (m \in X => processes'[id] = None)
                 /\ processes'[id] # None => processes[id] # None
      <4>1. m \notin E /\ (m \in X => i = id)
        BY <3>2, MessageKinds
      <4> QED
        BY <3>2, <4>1 DEF BaseInv, TypeOK
    <3>3. ASSUME NEW st \in ShutdownState, m = ShutDownMsg(st), processes' = processes
          PROVE  m \notin E /\ m \notin X
      <4>1. m \notin E
        BY <3>3 DEF ShutDownMsg, RequestError
      <4> QED
        BY <3>3, <4>1, MessageKinds
    <3> QED
      BY <1>8, <3>1, <3>2, <3>3 DEF Receives
  <2>6. Promised(id)
    BY <1>1, <1>2, <2>2, <2>3, <2>4, <2>5 DEF Promised
  <2>7. m \in X => Has(Tail(u), R)
    BY <1>1, <1>2, <2>2, <2>4, <2>5 DEF Promised
  <2> QED
    BY <1>1, <1>2, <1>3, <1>4, <2>2, <2>3, <2>5, <2>6, <2>7 DEF WillForget
<1>9. CASE Beside /\ (~Logging => UNCHANGED <<processes, connShut>>)
  <2>1. up'[ws] = up[ws] /\ (Known(id)' => Known(id))
    BY <1>1, <1>9, RegisterStays DEF Known, Beside
  <2> QED
    BY <1>5, <2>1
<1>10. ~\E w \in Ws \ {ws} : ServerReceive(w)
  BY <1>1 DEF ServerReceive, StaleInv
<1>11. ~\E i \in ProcId : CreateProcess(i)
  BY DEF CreateProcess, GhostInv
<1>12. ASSUME Beside, NEW i \in ProcId, SendStart(i) PROVE WillForget(id)'
  <2>1. CASE Logging \/ processes'[id] = processes[id]
    <3>1. up'[ws] = up[ws] /\ (Known(id)' => Known(id))
      BY <1>1, <1>12, <2>1, RegisterStays DEF Known, Beside
    <3> QED
      BY <1>5, <3>1
  <2>2. CASE ~Logging /\ processes'[id] # processes[id]
    <3>1. i = id /\ \E valid \in BOOLEAN :
                      ServerSend(connWs[chosen[id]], <<ProcStartRequest(id, valid)>>)
      BY <1>12, <2>2, StartSent
    <3>2. connWs[chosen[id]] = ws /\ agentEnd[ws] = "open"
      <4>1. chosen[id] \in {None, conn} /\ agentEnd[ws] = "open"
        BY <1>1, ServedConnection DEF Attached
      <4>2. chosen[id] # None
        BY <1>12, <3>1, StartSent, AgentAssumption
      <4> QED
        BY <1>1, <2>2, <4>1, <4>2 DEF Attached, Logging
    <3>3. PICK valid \in BOOLEAN : ServerSend(ws, <<ProcStartRequest(id, valid)>>)
      BY <3>1, <3>2
    <3> DEFINE m == ProcStartRequest(id, valid)
    <3>4. m \in Starts(id) /\ m \in DownMsg /\ down[ws] \in Seq(DownMsg)
      BY <1>1 DEF Starts, DownMsg, ProcStartRequest, BaseInv, Types
    <3>5. down'[ws] = down[ws] \o <<m>>
      BY <1>1, <3>2, <3>3 DEF ServerSend, Sent, BaseInv, Types
    <3> HIDE DEF m
    <3>6. Has(<<m>>, Starts(id)) /\ <<m>> \in Seq(DownMsg)
      BY <3>4, HasOne
    <3>7. Has(down[ws] \o <<m>>, Starts(id))
      BY <3>4, <3>6, HasConcat
    <3> QED
      BY <1>1, <1>2, <3>5, <3>7 DEF WillForget
  <2> QED
    BY <2>1, <2>2
<1> QED
  BY <1>1, <1>6, <1>7, <1>8, <1>9, <1>10, <1>11, <1>12 DEF AttachedStep


\* A send that never suspends is over with the request.
LEMMA NeverSent ==
  ASSUME ~Backpressure, BaseInv, \A id \in ProcId : started[id] # "sent",
         [SystemNext]_systemVars
  PROVE  \A id \in ProcId : started'[id] # "sent"
<1>1. CASE UNCHANGED started
  BY <1>1
<1>2. ASSUME NEW id \in ProcId, ChooseConnection(id) \/ SendStart(id)
      PROVE  \A i \in ProcId : started'[i] # "sent"
  <2>1. ASSUME NEW pc, started' = [started EXCEPT ![id] = pc], pc # "sent"
        PROVE  \A i \in ProcId : started'[i] # "sent"
    BY <2>1 DEF BaseInv, Types
  <2>2. CASE ChooseConnection(id)
    <3>1. started' = [started EXCEPT ![id] = "chosen"]
            \/ started' = [started EXCEPT ![id] = "chosen again"]
      BY <2>2 DEF ChooseConnection
    <3> QED
      BY <2>1, <3>1
  <2>3. CASE SendStart(id)
    <3>1. \/ started' = [started EXCEPT ![id] = "created"]
          \/ started' = [started EXCEPT ![id] = "assert"]
          \/ started' = [started EXCEPT ![id] = "retry"]
          \/ started' = [started EXCEPT ![id] = "failed"]
      BY <2>3 DEF SendStart, Create, AfterNotOpen
    <3> QED
      BY <2>1, <3>1
  <2> QED
    BY <1>2, <2>2, <2>3
<1>3. \A id \in ProcId : ~CreateProcess(id)
  BY DEF CreateProcess
<1>4. ASSUME NEW w \in Ws, RequestResult(w) \/ ServerReceive(w) PROVE UNCHANGED started
  BY <1>4 DEF RequestResult, ServerReceive, appState
<1>5. CASE UNCHANGED serverVars
  BY <1>5 DEF serverVars
<1>6. CASE ServerStep
  BY <1>1, <1>2, <1>3, <1>4, <1>6 DEF ServerStep, ServeStep, Login, LoginFails, AddAndReconcile,
     ServerSeesEnd, FinishConnection, CloseOld, ServerEndFails, ReconnectTimesOut,
     DeleteProcess, appState, serverVars
<1> QED
  BY <1>5, <1>6 DEF SystemNext, systemVars

LEMMA ForwardForgets ==
  ASSUME BaseInv, NEW n \in Notification, NEW id \in ProcId, procs[id] = None
  PROVE  /\ ~Has(notification_to_message(n), Results(id))
         /\ n = Delete(id) => Last(notification_to_message(n), Removals(id), Results(id))
<1> DEFINE ms == notification_to_message(n)
           R == Results(id)
<1>1. /\ \A i, st : ProcResult(i, st) \in R => i = id
      /\ \A i : ProcDelete(i) \notin R
      /\ \A st : ShutDownMsg(st) \notin R
  BY DEF Results, ProcResult, ProcDelete, ShutDownMsg
<1>2. ASSUME NEW i \in ProcId, n \in {Start(i), NotRunning(i)} PROVE ~Has(ms, R)
  <2>1. CASE procs[i] = None
    <3>1. ms = <<>>
      BY <1>2, <2>1, MessageForNotification
    <3> QED
      BY <3>1, HasOne
  <2>2. CASE procs[i] # None
    <3>1. ms = <<ProcResult(i, state[procs[i]])>> /\ i # id
      BY <1>2, <2>2, MessageForNotification
    <3> QED
      BY <1>1, <3>1, HasOne
  <2> QED
    BY <2>1, <2>2
<1>3. ASSUME NEW i \in ProcId, n = Delete(i) PROVE ~Has(ms, R) /\ ms = <<ProcDelete(i)>>
  <2>1. ms = <<ProcDelete(i)>>
    BY <1>3, MessageForNotification
  <2> QED
    BY <1>1, <2>1, HasOne
<1>4. ASSUME NEW st \in ShutdownState, n = ShutDown(st) PROVE ~Has(ms, R)
  <2>1. ms = <<ShutDownMsg(st)>>
    BY <1>4, MessageForNotification
  <2> QED
    BY <1>1, <2>1, HasOne
<1>5. n = Delete(id) => Last(ms, Removals(id), R)
  <2>1. ProcDelete(id) \in Removals(id)
    BY DEF Removals
  <2> QED
    BY <1>3, <2>1, HasOne
<1> HIDE DEF ms
<1>6. ~Has(ms, R)
  BY <1>2, <1>3, <1>4, NotificationKinds
<1> QED
  BY <1>5, <1>6 DEF ms

LEMMA AgentStepGhost ==
  ASSUME BaseInv, QueueInv, GhostInv, UNCHANGED serverVars,
         AgentStep \/ RegistryStep \/ UNCHANGED systemVars
  PROVE  Attached' => \A id \in ProcId :
           Promised(id)' /\ id \notin missed' /\ "error" \notin heard'[id]
             => procs'[id] # None \/ WillForget(id)'
<1> SUFFICES ASSUME Attached', NEW id \in ProcId, Promised(id)', id \notin missed',
                    "error" \notin heard'[id], procs'[id] = None
             PROVE  WillForget(id)'
  OBVIOUS
<1> DEFINE q == subq["agent"]
           D == {Delete(id)}
<1>1. /\ q \in Seq(Notification) /\ Sub = {"agent"} /\ <<>> \in Seq(UpMsg)
      /\ \A A : ~Has(<<>>, A)
  BY AgentAssumption DEF BaseInv, Types, Has
<1>2. ws' # None /\ heard' = heard
  BY DEF Attached, serverVars
<1>3. ASSUME SameKnown, UNCHANGED <<procs, missed, up>>, Has(q, D) => Has(subq'["agent"], D),
             Has(down[ws], Starts(id)) => Has(down'[ws], Starts(id))
      PROVE  WillForget(id)'
  <2>1. up[ws] \in Seq(UpMsg)
    BY <1>3 DEF SameKnown, BaseInv, Types
  <2>2. up'[ws] = up[ws] \o <<>>
    BY <1>3, <2>1
  <2> QED
    BY <1>1, <1>2, <1>3, <2>1, <2>2, MessageForgets
<1>4. CASE RegistryStep
  <2>1. PICK ns : SystemOp(ns)
    BY <1>4, RegistryStepOp
  <2>2. SameKnown /\ UNCHANGED <<up, down, apc>>
    BY <1>4, QuietStep DEF RegistryStep, wireVars
  <2>3. missed \subseteq missed' /\ (apc = "registering" /\ procs[id] # None => id \in missed')
    BY <1>4, RegistryMisses
  <2> QED
    BY <1>2, <2>1, <2>2, <2>3, OperationForgets
<1>5. ~(AgentTop \/ CannotConnect \/ SleepEnds \/ RegisterFails \/ Disconnect)
  BY <1>2 DEF AgentTop, CannotConnect, SleepEnds, RegisterFails, Disconnect, ConnectFailed,
     BaseInv, TypeOK
<1>6. ASSUME NEW w \in Ws, Connect(w) PROVE FALSE
  <2> DEFINE r == Register(Live, shutdown)
  <2>1. /\ procs' = procs /\ ws' = w /\ up'[w] = <<r>>
        /\ Known(id)' <=> procs[id] # None
    BY <1>6, ConnectStep
  <2>2. r \notin Results(id)'
    BY DEF Register, Results, ProcResult
  <2>3. ~Has(<<r>>, Results(id)')
    BY <2>2, HasOne
  <2> QED
    BY <2>1, <2>3 DEF Promised
<1>7. CASE AgentRegistered
  <2>1. /\ UNCHANGED <<ws, serverEnd, up, procs, missed>> /\ q = <<>>
        /\ ws \in Ws /\ down[ws] \in Seq(DownMsg) /\ down[ws] # <<>>
        /\ Head(down[ws]) = Registered /\ down'[ws] = Tail(down[ws])
    BY <1>7 DEF AgentRegistered, registryVars, QueueInv, BaseInv, Types, TypeOK
  <2>2. Registered \notin Starts(id)
    BY DEF Registered, Starts, ProcStartRequest
  <2>3. Has(down[ws], Starts(id)) => Has(down'[ws], Starts(id))
    BY <2>1, <2>2, HasTail
  <2> QED
    BY <1>1, <1>3, <2>1, <2>3, QuietStep
<1>8. CASE ForwardNotification
  <2> DEFINE ms == notification_to_message(Head(q))
  <2>1. /\ UNCHANGED <<procs, missed>> /\ q # <<>> /\ Head(q) \in Notification
        /\ ms \in Seq(UpMsg)
    BY <1>8, Forwards, MessageForNotification DEF registryVars
  <2>2. AgentServes(ms) /\ down' = down /\ subq'["agent"] = Tail(q)
    BY <1>2, <1>8, Forwards DEF AgentLeaves
  <2>3. SameKnown /\ up'[ws] = up[ws] \o ms /\ up[ws] \in Seq(UpMsg)
    BY <2>2, ServingStep
  <2>4. /\ ~Has(ms, Results(id))
        /\ Head(q) = Delete(id) => Last(ms, Removals(id), Results(id))
    BY <2>1, ForwardForgets
  <2>5. Has(q, D) => Head(q) = Delete(id) \/ Has(Tail(q), D)
    BY <1>1, <2>1, HasTail
  <2> HIDE DEF ms
  <2> QED
    BY <1>2, <2>1, <2>2, <2>3, <2>4, <2>5, MessageForgets
<1>9. CASE HandleMessage
  <2>1. /\ apc = "serving" /\ ws \in Ws /\ missed' = missed
        /\ down[ws] \in Seq(DownMsg) /\ down[ws] # <<>>
        /\ down' = [down EXCEPT ![ws] = Tail(@)]
    BY <1>9, RequestHandled
  <2>2. PICK i \in ProcId, ms \in Seq(UpMsg) :
          /\ AgentServes(ms)
          /\ Handles(i, ms)
          /\ \A j \in ProcId : Head(down[ws]) \in Starts(j) =>
               /\ j = i
               /\ ms = <<RequestError(i)>> \/ \E c \in Proc, st \in States : StartProc(i, c, st)
    BY <1>9, RequestHandled
  <2>3. SameKnown /\ up'[ws] = up[ws] \o ms /\ up[ws] \in Seq(UpMsg)
    BY <2>2, ServingStep
  <2>4. ~\E c \in Proc, st \in States : StartProc(id, c, st)
    BY RegistryAssumption DEF StartProc, BaseInv, Types, RegistryTypes
  <2>5. down'[ws] = Tail(down[ws])
    BY <2>1 DEF BaseInv, Types
  <2>6. Has(down[ws], Starts(id)) =>
          Has(down'[ws], Starts(id)) \/ ms = <<RequestError(id)>>
    <3>1. Has(down[ws], Starts(id)) =>
            Head(down[ws]) \in Starts(id) \/ Has(Tail(down[ws]), Starts(id))
      BY <2>1, HasTail
    <3> QED
      BY <2>2, <2>4, <2>5, <3>1
  <2>7. CASE UNCHANGED vars
    <3>1. UNCHANGED <<procs, subq>>
      BY <2>7 DEF vars, registryVars, notifyVars
    <3>2. ~Has(ms, Results(id))
      <4>1. /\ \A st : ProcResult(i, st) \in Results(id) => i = id
            /\ RequestError(i) \notin Results(id) /\ ProcUnknown(i) \notin Results(id)
        BY DEF Results, ProcResult, RequestError, ProcUnknown
      <4>2. ms = <<>> \/ \E m : ms = <<m>> /\ m \notin Results(id)
        BY <2>2, <3>1, <4>1 DEF Handles
      <4> QED
        BY <1>1, <4>2, HasOne
    <3>3. ms = <<RequestError(id)>> => Has(ms, {RequestError(id)})
      BY HasOne
    <3> QED
      BY <1>2, <2>1, <2>3, <2>6, <3>1, <3>2, <3>3, MessageForgets
  <2>8. ASSUME NEW ns, SystemOp(ns), ms = <<>> PROVE WillForget(id)'
    <3>1. up'[ws] = up[ws] /\ ms # <<RequestError(id)>> /\ UNCHANGED <<apc, heard>>
      BY <2>2, <2>3, <2>8 DEF AgentServes, serverVars
    <3> QED
      BY <1>2, <2>1, <2>3, <2>6, <2>8, <3>1, OperationForgets
  <2>9. UNCHANGED vars \/ (ms = <<>> /\ \E ns : SystemOp(ns))
    BY <2>2, HandlesOp DEF Handles
  <2> QED
    BY <2>7, <2>8, <2>9
<1>10. CASE UNCHANGED systemVars
  <2>1. UNCHANGED <<ws, serverEnd, serverVars, up, down, procs, missed, subq>>
    BY <1>10 DEF systemVars, wireVars, agentSide, agentVars, vars, registryVars, notifyVars
  <2>2. SameKnown
    BY <2>1, QuietStep
  <2> QED
    BY <1>3, <2>1, <2>2
<1> QED
  BY <1>4, <1>5, <1>6, <1>7, <1>8, <1>9, <1>10 DEF AgentStep

LEMMA StepGhost ==
  ASSUME ~ReconnectTimeout, ~Late, ~Backpressure, BaseInv, EndInv, OneConnection, QueueInv,
         StaleInv, GhostInv, [SystemNext]_systemVars
  PROVE  GhostInv'
<1>1. \A id \in ProcId : started'[id] # "sent"
  BY NeverSent DEF GhostInv
<1>2. Attached' => \A id \in ProcId :
        Promised(id)' /\ id \notin missed' /\ "error" \notin heard'[id]
          => procs'[id] # None \/ WillForget(id)'
  BY AgentStepGhost, ServerStepGhost DEF SystemNext, systemVars
<1> QED
  BY <1>1, <1>2 DEF GhostInv

-----------------------------------------------------------------------------
(* What the server tracks *)

\* With no reconnect timeout and nothing late, what the server tracks and what
\* is on its way to it make up what the agent has.
TrackingInv ==
  /\ ConnectionInv
  /\ CurrentInv
  /\ QueueInv
  /\ StaleInv
  /\ ForgottenInv

LEMMA InitTracking == SystemInit => TrackingInv
<1> SUFFICES ASSUME SystemInit PROVE TrackingInv
  OBVIOUS
<1>1. ws = None /\ \A w \in Ws : up[w] = <<>>
  BY DEF SystemInit, AgentInit, WireInit
<1>2. StaleInv /\ ForgottenInv
  BY <1>1 DEF StaleInv, ForgottenInv, Attached
<1> QED
  BY <1>2, InitCurrency DEF CurrencyInv, TrackingInv

\* When nothing is under way, the agent is attached and the server knows what
\* it tracks.
LEMMA QuietAttached ==
  ASSUME ConnectionInv, CurrentInv, Quiet
  PROVE  /\ Attached /\ ~Logging
         /\ subq["agent"] = <<>> /\ up[ws] = <<>> /\ down[ws] = <<>>
         /\ \A A : ~Has(<<>>, A)
         /\ \A A, B : ~Last(<<>>, A, B)
<1>1. /\ apc = "serving" /\ subq["agent"] = <<>> /\ up[ws] = <<>> /\ down[ws] = <<>>
      /\ spc[ws] = "recv" /\ serverEnd[ws] = "open" /\ closing = {}
  BY DEF Quiet
<1>2. ws # None
  BY <1>1 DEF ConnectionInv, BaseInv, TypeOK
<1>3. ws \in Ws /\ conn # None
  BY <1>1, <1>2, ServedConnection DEF ConnectionInv, Tasks
<1>4. connWs[conn] = ws
  BY <1>1, <1>2, <1>3, AgentAssumption DEF CurrentInv, Served
<1>5. Attached /\ ~Logging
  BY <1>1, <1>2, <1>4 DEF Attached, Logging
<1>6. (\A A : ~Has(<<>>, A)) /\ \A A, B : ~Last(<<>>, A, B)
  BY DEF Has, Last
<1> QED
  BY <1>1, <1>5, <1>6

\* The strengthening of NoneForgotten: this is inductive when the message that
\* removes a process and the one that adds it come on the same websocket.
THEOREM TrackingInvariance ==
  ASSUME ~ReconnectTimeout, ~Late
  PROVE  SystemSpec => []TrackingInv
<1>1. ConnectionInv /\ [SystemNext]_systemVars => ConnectionInv'
  BY StepBase, StepOneConnection DEF ConnectionInv
<1>2. TrackingInv /\ [SystemNext]_systemVars => TrackingInv'
  BY <1>1, StepCurrent, StepQueue, StepStale, StepForgotten DEF TrackingInv, ConnectionInv
<1> QED
  BY <1>2, InitTracking, PTL DEF SystemSpec

\* When nothing is under way, the server tracks every process the agent has:
\* reconciling the Register message and forwarding notifications lose none,
\* over any number of websockets.
THEOREM ServerForgetsNone ==
  ASSUME ~ReconnectTimeout, ~Late
  PROVE  SystemSpec => []NoneForgotten
<1>1. TrackingInv => NoneForgotten
  <2> SUFFICES ASSUME TrackingInv, Quiet, NEW id \in ProcId, procs[id] # None, id \notin missed
               PROVE  processes[id] # None
    BY DEF NoneForgotten
  <2>1. /\ Attached /\ ~Logging
        /\ subq["agent"] = <<>> /\ up[ws] = <<>>
        /\ \A A : ~Has(<<>>, A)
        /\ \A A, B : ~Last(<<>>, A, B)
    BY QuietAttached DEF TrackingInv
  <2>2. WillTrack(id)
    BY <2>1 DEF TrackingInv, ForgottenInv
  <2>3. Known(id)
    BY <2>1, <2>2 DEF WillTrack
  <2> QED
    BY <2>1, <2>3 DEF Known
<1> QED
  BY <1>1, TrackingInvariance, PTL

\* The strengthening of NoGhost: a process that the server tracks, or is to
\* track, and that the agent does not have is about to be forgotten.
THEOREM GhostInvariance ==
  ASSUME ~ReconnectTimeout, ~Late, ~Backpressure
  PROVE  SystemSpec => [](TrackingInv /\ GhostInv)
<1>1. SystemInit => GhostInv
  <2> SUFFICES ASSUME SystemInit PROVE GhostInv
    OBVIOUS
  <2>1. ws = None /\ \A id \in ProcId : started[id] = "idle"
    BY DEF SystemInit, AgentInit, ServerInit
  <2> QED
    BY <2>1 DEF GhostInv, Attached
<1>2. TrackingInv /\ GhostInv /\ [SystemNext]_systemVars => GhostInv'
  BY StepGhost DEF TrackingInv, ConnectionInv
<1> QED
  BY <1>1, <1>2, TrackingInvariance, PTL DEF SystemSpec

\* When nothing is under way, the agent has every process the server tracks,
\* but one whose start it refused: neither a lost connection nor a deletion
\* leaves the server with a process that has gone.
THEOREM ServerKeepsNoGhost ==
  ASSUME ~ReconnectTimeout, ~Late, ~Backpressure
  PROVE  SystemSpec => []NoGhost
<1>1. TrackingInv /\ GhostInv => NoGhost
  <2> SUFFICES ASSUME TrackingInv, GhostInv, Quiet, NEW id \in ProcId,
                      processes[id] # None, id \notin missed, "error" \notin heard[id]
               PROVE  procs[id] # None
    BY DEF NoGhost
  <2>1. /\ Attached /\ ~Logging
        /\ subq["agent"] = <<>> /\ up[ws] = <<>> /\ down[ws] = <<>>
        /\ \A A : ~Has(<<>>, A)
        /\ \A A, B : ~Last(<<>>, A, B)
    BY QuietAttached DEF TrackingInv
  <2>2. Promised(id)
    BY <2>1 DEF Promised, Known
  <2>3. ~WillForget(id)
    BY <2>1 DEF WillForget
  <2> QED
    BY <2>1, <2>2, <2>3 DEF GhostInv
<1> QED
  BY <1>1, GhostInvariance, PTL
=============================================================================
