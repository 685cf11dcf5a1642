-------------------------- MODULE Requests_proofs ---------------------------
(***************************************************************************)
(* Proofs of the safety properties of Requests, for any number of          *)
(* processes, any amount of output, any positions that clients ask for and *)
(* any width of a position.  The invariant says where the program, the     *)
(* captured data, the shared offset and the request being served stand     *)
(* with respect to each other, and, until a read fails, that the number of *)
(* every capture in use refers to that capture.                            *)
(***************************************************************************)
EXTENDS Requests, Registry_proofs

FileType == [data : Seq(0..MaxBytes), offset : Nat]
MemType ==
  [pipe : Seq(1..MaxBytes), buf : Seq(1..MaxBytes),
   task : {"none", "reading", "done", "failed"}]
AskType ==
  [what : {"none", "result", "data"}, start : Position, stop : Position \cup {None}]
BytesType ==
  [c : Proc, type : {"bytes"}, from : Proc, start : Nat, data : Seq(0..MaxBytes)]
LengthType == [c : Proc, type : {"detached"}, length : Nat]
OtherType == [c : Proc, type : {"error", "foreign"}]
ItemType == BytesType \cup LengthType \cup OtherType
JobType ==
  [phase : {"idle", "look", "reading", "answered", "panicked"}, ask : AskType,
   todo : Seq(Proc), got : Seq(0..MaxBytes),
   items : SUBSET ItemType, outcome : Outcome]

Types ==
  /\ RegistryInv
  /\ spec \in Loads
  /\ prog \in [Proc -> [alive : BOOLEAN, n : 0..MaxBytes]]
  /\ file \in [Proc -> FileType]
  /\ mem \in [Proc -> MemType]
  /\ job \in JobType
  /\ known \in [Proc -> 0..2 * Limit]
  /\ careful \in [Proc -> BOOLEAN]
  /\ clash \in [Proc -> BOOLEAN]
  /\ num \in [Proc -> Number \cup {None}]
  /\ open \in [Number -> Proc \cup {None}]
  /\ lost \in BOOLEAN

\* A program lives while its process shows as running.
ProgInv ==
  \A c \in Proc :
    /\ prog[c].n <= spec[c].bytes
    /\ prog[c].alive => state[c] = "running"
    /\ state[c] = "none" => prog[c].n = 0

\* The buffer and then the pipe hold all that the program wrote, in order.
MemOK(c) ==
  /\ spec[c].mode # "memory" => /\ Len(mem[c].buf) = 0 /\ Len(mem[c].pipe) = 0
                                /\ mem[c].task = "none"
  /\ spec[c].mode = "memory" => Len(mem[c].buf) + Len(mem[c].pipe) = prog[c].n
  /\ \A i \in 1..Len(mem[c].buf) : mem[c].buf[i] = i
  /\ \A i \in 1..Len(mem[c].pipe) : mem[c].pipe[i] = Len(mem[c].buf) + i
  /\ mem[c].task = "done" => Len(mem[c].pipe) = 0 /\ ~prog[c].alive
MemInv == \A c \in Proc : MemOK(c)

\* A file that was not disturbed holds all that its program wrote, which goes on
\* at its end.
FileOK(c) ==
  /\ spec[c].mode # "tempfile" => file[c].offset = 0
  /\ Len(file[c].data) <= Limit + prog[c].n
  /\ file[c].offset <= Limit + prog[c].n
  /\ spec[c].mode = "tempfile" /\ ~clash[c] =>
       /\ Len(file[c].data) = prog[c].n
       /\ \A i \in 1..prog[c].n : file[c].data[i] = i
       /\ (prog[c].alive \/ state[c] = "none") /\ ~Reads(c)
            => file[c].offset = prog[c].n
FileInv == \A c \in Proc : FileOK(c)

\* The parts of the request being served fit each other.
JobInv ==
  /\ job.phase = "idle" => job.items = {}
  /\ job.phase = "look" => job.got = <<>>
  /\ job.phase \in {"look", "reading", "panicked"} =>
       /\ Len(job.todo) > 0
       /\ job.ask.what \in {"result", "data"}
       /\ careful[job.todo[1]] => Told(job.todo[1], job.ask.start, job.ask.stop)
  /\ job.ask.what = "result" => job.ask.start = 0 /\ job.ask.stop = None
  /\ job.ask.what = "data" => Len(job.todo) <= 1
  /\ job.phase \in {"idle", "answered"} => job.todo = <<>>
  /\ \A i \in 1..Len(job.todo) : \E id \in ProcId : procs[id] = job.todo[i]

\* A read of a file is where the offset is, unless the program writes as well.
ReadOK(c) ==
  /\ spec[c].mode = "tempfile"
  /\ AskStart + Len(job.got) <= file[c].offset
  /\ Len(job.got) > 0 => file[c].offset <= Len(file[c].data)
  /\ ~clash[c] => /\ file[c].offset = AskStart + Len(job.got)
                  /\ \A i \in 1..Len(job.got) : job.got[i] = AskStart + i
                  /\ prog[c].alive => ToEnd /\ file[c].offset <= prog[c].n
ReadInv ==
  /\ \A c \in Proc : Reads(c) => ReadOK(c)
  /\ job.phase = "reading" => /\ Opened(job.todo[1]) \in Proc
                              /\ spec[job.todo[1]].mode = "tempfile"

\* The items that are ready are right.
ItemOK(item) ==
  item.type = "bytes" =>
    /\ item.from = item.c \/ lost
    /\ ~clash[item.from] =>
         /\ \A i \in 1..Len(item.data) : item.data[i] = item.start + i
         /\ job.ask.what = "result" /\ Settled(item.from)
              => Len(item.data) = prog[item.from].n /\ item.start = 0
ItemsInv == \A item \in job.items : ItemOK(item)

\* Until a read fails, no client was told of more than its process captured.
OwnLength(c) ==
  IF spec[c].mode = "tempfile" THEN Len(file[c].data) ELSE Len(mem[c].buf)
KnownInv == ~lost => \A c \in Proc : known[c] <= OwnLength(c)

\* A capture that has a number has been started; until a read fails, one that is
\* in use has its own.
StartedInv == \A n \in Number : open[n] # None => state[open[n]] # "none"
HeldInv == ~lost => \A c \in Proc : InUse(c) => Opened(c) = c

\* A client asked beyond what it was told, or a program wrote into a read, before
\* a read fails; the first before a panic.
BlameInv == lost => \E c \in Proc : ~careful[c] \/ clash[c]
PanicInv == ~lost => (job.phase = "panicked" => ~careful[job.todo[1]])

IInv ==
  /\ Types
  /\ ProgInv
  /\ MemInv
  /\ FileInv
  /\ JobInv
  /\ ReadInv
  /\ ItemsInv
  /\ KnownInv
  /\ StartedInv
  /\ HeldInv
  /\ BlameInv
  /\ PanicInv

-----------------------------------------------------------------------------
(* Facts *)

\* A position that a client gives is a usize, the same one unless negative.
LEMMA PositionValue ==
  ASSUME NEW i \in Position
  PROVE  /\ Unsigned(i) \in Nat /\ Unsigned(i) < 2 * Limit
         /\ i >= 0 => Unsigned(i) = i /\ i < Limit
  BY CaptureAssumption DEF Position, Unsigned

\* What a process captures.
LEMMA SpecType ==
  ASSUME spec \in Loads, NEW c \in Proc
  PROVE  /\ spec[c].mode \in {"tempfile", "memory", "none"}
         /\ spec[c].attached \in BOOLEAN
         /\ spec[c].bytes \in 0..MaxBytes
  BY CaptureAssumption DEF CaptureSpec

\* The registry stays as it is when its variables do.
LEMMA RegistryUnchanged ==
  ASSUME RegistryInv, UNCHANGED registryVars
  PROVE  RegistryInv'
  BY DEF RegistryInv, RegistryTypes, MapAgrees, MapFinite, ToldStopped, Tracked,
     registryVars

\* A sequence over a set is one over a larger set.
LEMMA SeqSubset ==
  ASSUME NEW S, NEW T, S \subseteq T, NEW s \in Seq(S)
  PROVE  s \in Seq(T)
<1>1. Len(s) \in Nat /\ s = [i \in 1..Len(s) |-> s[i]]
  OBVIOUS
<1>2. \A i \in 1..Len(s) : s[i] \in T
  OBVIOUS
<1> QED
  BY <1>1, <1>2

\* A slice holds the elements from start on.
LEMMA SliceResult ==
  ASSUME NEW S, NEW s \in Seq(S), NEW start \in 0..Len(s), NEW stop \in start..Len(s)
  PROVE  /\ Slice(s, start, stop) \in Seq(S)
         /\ Len(Slice(s, start, stop)) = stop - start
         /\ \A i \in 1..stop - start : Slice(s, start, stop)[i] = s[start + i]
<1>1. /\ Len(s) \in Nat /\ start \in Nat /\ stop \in Nat
      /\ start <= stop /\ stop <= Len(s)
  OBVIOUS
<1>2. Slice(s, start, stop) = [i \in 1..(stop - start) |-> s[start + i]]
  BY <1>1 DEF Slice
<1>3. \A i \in 1..stop - start : s[start + i] \in S
  BY <1>1
<1> QED
  BY <1>1, <1>2, <1>3

\* What follows a sequence.
LEMMA ConcatResult ==
  ASSUME NEW S, NEW s \in Seq(S), NEW t \in Seq(S)
  PROVE  /\ s \o t \in Seq(S)
         /\ Len(s \o t) = Len(s) + Len(t)
         /\ \A i \in 1..Len(s) + Len(t) :
              (s \o t)[i] = IF i <= Len(s) THEN s[i] ELSE t[i - Len(s)]
  OBVIOUS

\* What a step leaves of the memory of a process that it does not read into.
LEMMA MemFrame ==
  ASSUME NEW c, MemOK(c), spec'[c] = spec[c], mem'[c] = mem[c],
         spec[c].mode = "memory" => prog'[c].n = prog[c].n,
         prog'[c].alive => prog[c].alive
  PROVE  MemOK(c)'
  BY DEF MemOK

\* What a step leaves of a file that it does not touch.
LEMMA FileFrame ==
  ASSUME NEW c, FileOK(c), spec'[c] = spec[c], file'[c] = file[c],
         clash'[c] = clash[c], prog'[c].n = prog[c].n,
         (prog'[c].alive \/ state'[c] = "none") /\ ~Reads(c)' =>
           (prog[c].alive \/ state[c] = "none") /\ ~Reads(c)
  PROVE  FileOK(c)'
  BY DEF FileOK

\* What a step leaves of the table of numbers that it does not touch.
LEMMA TableFrame ==
  ASSUME StartedInv, HeldInv, UNCHANGED <<procs, state, spec, num, open, lost>>,
         \A c \in Proc : mem'[c].task = mem[c].task
  PROVE  StartedInv' /\ HeldInv'
  BY DEF StartedInv, HeldInv, InUse, Opened

\* The number of a capture that is no longer in use is closed, and no other's.
LEMMA CloseFrame ==
  ASSUME Types, HeldInv, NEW c \in Proc, Close(c), UNCHANGED <<num, lost>>,
         ~lost => Opened(c) = c,
         \A d \in Proc : InUse(d)' => InUse(d) /\ d # c
  PROVE  HeldInv'
<1> SUFFICES ASSUME ~lost, NEW d \in Proc, InUse(d), d # c PROVE Opened(d)' = d
  BY DEF HeldInv
<1>1. Opened(d) = d /\ Opened(c) = c /\ None \notin Proc
  BY RegistryAssumption DEF HeldInv
<1>2. num[d] \in Number /\ open[num[d]] = d /\ num[c] # None /\ open[num[c]] = c
  BY <1>1 DEF Opened, Types
<1>3. num[d] # num[c]
  BY <1>2
<1>4. open'[num[d]] = open[num[d]]
  BY <1>2, <1>3 DEF Close
<1> QED
  BY <1>1, <1>2, <1>4 DEF Opened

\* What is left of the table when a number is closed.
LEMMA CloseTypes ==
  ASSUME Types, StartedInv, NEW c \in Proc, Close(c), state' = state
  PROVE  /\ open' \in [Number -> Proc \cup {None}]
         /\ StartedInv'
<1>1. open' = [n \in Number |-> IF n = num[c] THEN None ELSE open[n]]
  BY DEF Close
<1>2. open \in [Number -> Proc \cup {None}]
  BY DEF Types
<1>3. \A n \in Number : open'[n] # None => open'[n] = open[n]
  BY <1>1
<1> QED
  BY <1>1, <1>2, <1>3 DEF StartedInv

\* A process in the registry was started, and so was every capture that has a
\* number.
LEMMA Started ==
  ASSUME IInv
  PROVE  /\ \A id \in ProcId : procs[id] # None =>
              procs[id] \in Proc /\ state[procs[id]] # "none"
         /\ \A c \in Proc : Opened(c) \in Proc => state[Opened(c)] # "none"
<1>1. \A id \in ProcId : procs[id] # None =>
        procs[id] \in Proc /\ state[procs[id]] # "none"
  BY DEF IInv, Types, RegistryInv, RegistryTypes, MapAgrees
<1>2. ASSUME NEW c \in Proc, Opened(c) \in Proc PROVE state[Opened(c)] # "none"
  <2>1. num[c] # None /\ num[c] \in Number /\ open[num[c]] = Opened(c)
    BY <1>2, RegistryAssumption DEF Opened, IInv, Types
  <2>2. open[num[c]] # None
    BY <1>2, <2>1, RegistryAssumption
  <2> QED
    BY <2>1, <2>2 DEF IInv, StartedInv
<1> QED
  BY <1>1, <1>2

\* A request that starts or is over leaves the rest of the invariant alone.
LEMMA NewJob ==
  ASSUME IInv, job.phase \in {"idle", "answered"},
         job' \in JobType, job'.phase \in {"idle", "look", "answered"},
         job'.items = {}, JobInv', careful' \in [Proc -> BOOLEAN],
         \A c \in Proc : careful'[c] => careful[c],
         UNCHANGED <<vars, spec, prog, file, mem, known, clash, tableVars>>
  PROVE  IInv'
<1> USE DEF IInv
<1>1. Types'
  BY RegistryUnchanged DEF Types, vars, tableVars
<1>2. ProgInv' /\ MemInv'
  BY DEF ProgInv, MemInv, MemOK, vars, registryVars
<1>3. \A c : ~Reads(c) /\ ~Reads(c)'
  BY DEF Reads
<1>4. FileInv' /\ ReadInv'
  BY <1>3 DEF FileInv, FileOK, ReadInv, ReadOK, vars, registryVars
<1>5. ItemsInv' /\ KnownInv'
  BY DEF ItemsInv, ItemOK, KnownInv, OwnLength, tableVars
<1>6. StartedInv' /\ HeldInv'
  BY TableFrame DEF vars, registryVars, tableVars
<1>7. BlameInv' /\ PanicInv'
  BY DEF BlameInv, PanicInv, tableVars
<1> QED
  BY <1>1, <1>2, <1>4, <1>5, <1>6, <1>7

-----------------------------------------------------------------------------
(* Requests that read no output *)

\* The job of a handler that is done at once, and the one of no request.
LEMMA OutcomeTypes ==
  /\ Idle \in JobType
  /\ \A outcome \in Outcome : /\ Outcomes(outcome) \in JobType
                              /\ Outcomes(outcome).phase = "answered"
                              /\ Outcomes(outcome).items = {}
                              /\ Outcomes(outcome).todo = <<>>
                              /\ Outcomes(outcome).ask = NoAsk
<1>1. Idle \in JobType
  BY CaptureAssumption DEF Idle, NoAsk, JobType, AskType, Position, Outcome
<1> QED
  BY <1>1 DEF Outcomes, JobType, Idle

\* A request that is answered at once, and the end of any request.
LEMMA AnswerKeeps ==
  ASSUME IInv, Respond \/ \E outcome \in Outcome : Answer(outcome)
  PROVE  IInv'
<1>1. job.phase \in {"idle", "answered"} /\ careful' = careful
  BY DEF Respond, Answer, Free
<1>2. job' = Idle \/ \E outcome \in Outcome : job' = Outcomes(outcome)
  BY DEF Respond, Answer
<1>3. /\ job' \in JobType /\ job'.phase \in {"idle", "answered"} /\ job'.items = {}
      /\ job'.todo = <<>> /\ job'.ask = NoAsk
  BY <1>2, OutcomeTypes DEF Idle
<1>4. JobInv'
  BY <1>3 DEF JobInv, NoAsk
<1>5. UNCHANGED <<vars, spec, prog, file, mem, known, clash, tableVars>>
  BY DEF Respond, Answer
<1> QED
  BY <1>1, <1>3, <1>4, <1>5, NewJob DEF IInv, Types

\* A request that is to read is a job.
LEMMA AskIsJob ==
  ASSUME NEW what \in {"result", "data"}, NEW todo \in Seq(Proc),
         NEW start \in Position, NEW stop \in Position \cup {None}
  PROVE  Ask(what, todo, start, stop) \in JobType
<1> DEFINE a == [what |-> what, start |-> start, stop |-> stop]
           p == IF todo = <<>> THEN "answered" ELSE "look"
<1>1. a \in AskType /\ p \in {"answered", "look"} /\ "ok" \in Outcome
  BY DEF AskType, Outcome
<1>2. Ask(what, todo, start, stop) =
        [Idle EXCEPT !.phase = p, !.ask = a, !.todo = todo, !.outcome = "ok"]
  BY DEF Ask
<1> HIDE DEF a, p
<1>3. Idle \in JobType
  BY OutcomeTypes
<1> QED
  BY <1>1, <1>2, <1>3 DEF JobType

\* A request that reads: the processes to look at are in the registry.
LEMMA BeginKeeps ==
  ASSUME IInv, NEW what \in {"result", "data"}, NEW todo \in Seq(Proc),
         NEW start \in Position, NEW stop \in Position \cup {None},
         Begin(Ask(what, todo, start, stop)),
         careful' \in [Proc -> BOOLEAN],
         \A c \in Proc : careful'[c] => careful[c],
         \A i \in 1..Len(todo) : \E id \in ProcId : procs[id] = todo[i],
         what = "result" => start = 0 /\ stop = None,
         what = "data" => /\ Len(todo) = 1
                          /\ careful'[todo[1]] => Told(todo[1], start, stop)
  PROVE  IInv'
<1>1. job' \in JobType
  <2>1. Ask(what, todo, start, stop) \in JobType
    BY AskIsJob
  <2> QED
    BY <2>1 DEF Begin
<1>2. /\ job'.phase = (IF todo = <<>> THEN "answered" ELSE "look")
      /\ job'.ask = [what |-> what, start |-> start, stop |-> stop]
      /\ job'.todo = todo /\ job'.got = <<>> /\ job'.items = {}
  BY DEF Begin, Ask, Idle
<1>3. /\ job.phase = "idle"
      /\ UNCHANGED <<vars, spec, prog, file, mem, known, clash, tableVars>>
  BY DEF Begin, Free
<1>4. todo # <<>> => (careful'[todo[1]] => Told(todo[1], start, stop)')
  <2>1. todo # <<>> => todo[1] \in Proc
    OBVIOUS
  <2> QED
    BY <1>3, <2>1 DEF Told, IInv, Types
<1>5. JobInv'
  BY <1>2, <1>3, <1>4 DEF JobInv, vars, registryVars
<1> QED
  BY <1>1, <1>2, <1>3, <1>5, NewJob

\* GET /procs
LEMMA GetProcsKeeps ==
  ASSUME IInv, GetProcs
  PROVE  IInv'
<1> DEFINE S == {id \in ProcId : Found(id)}
<1>1. PICK order \in Orders(S) :
        Begin(Ask("result", [i \in DOMAIN order |-> procs[order[i]]], 0, None))
  BY DEF GetProcs
<1> DEFINE todo == [i \in DOMAIN order |-> procs[order[i]]]
<1>2. Cardinality(S) \in Nat
  BY FS_CardinalityType DEF IInv, Types, RegistryInv, MapFinite, Tracked, Found
<1>3. order \in [1..Cardinality(S) -> S]
  BY <1>1 DEF Orders
<1>4. \A id \in S : id \in ProcId /\ procs[id] \in Proc
  BY DEF IInv, Types, RegistryInv, RegistryTypes, Found
<1> HIDE DEF S
<1>5. /\ todo \in Seq(Proc)
      /\ \A i \in 1..Len(todo) : \E id \in ProcId : procs[id] = todo[i]
  <2> PICK n \in Nat : n = Cardinality(S)
    BY <1>2
  <2>1. DOMAIN order = 1..n /\ \A i \in 1..n : order[i] \in S
    BY <1>3
  <2>2. todo = [i \in 1..n |-> procs[order[i]]]
    BY <2>1
  <2> QED
    BY <1>4, <2>1, <2>2
<1>6. 0 \in Position
  BY CaptureAssumption DEF Position
<1>7. careful' = careful /\ careful \in [Proc -> BOOLEAN]
  BY DEF GetProcs, IInv, Types
<1> HIDE DEF todo
<1>8. Begin(Ask("result", todo, 0, None))
  BY <1>1 DEF todo
<1> QED
  BY <1>5, <1>6, <1>7, <1>8, BeginKeeps

\* GET /procs/{id}
LEMMA GetProcKeeps ==
  ASSUME IInv, NEW id \in ProcId, GetProc(id)
  PROVE  IInv'
<1>1. CASE Answer("unknown")
  BY <1>1, AnswerKeeps DEF Outcome
<1>2. CASE Found(id) /\ Begin(Ask("result", <<procs[id]>>, 0, None)) /\ careful' = careful
  <2>1. procs[id] \in Proc
    BY <1>2 DEF IInv, Types, RegistryInv, RegistryTypes, Found
  <2>2. <<procs[id]>> \in Seq(Proc) /\ Len(<<procs[id]>>) = 1
    BY <2>1
  <2>3. \A i \in 1..1 : <<procs[id]>>[i] = procs[id]
    OBVIOUS
  <2>4. 0 \in Position
    BY CaptureAssumption DEF Position
  <2>5. careful \in [Proc -> BOOLEAN]
    BY DEF IInv, Types
  <2> QED
    BY <1>2, <2>1, <2>2, <2>3, <2>4, <2>5, BeginKeeps
<1> QED
  BY <1>1, <1>2 DEF GetProc

\* GET /procs/{id}/output/{fd}/data, and ProcFdDataRequest
LEMMA GetDataKeeps ==
  ASSUME IInv, NEW via, NEW id \in ProcId, NEW fd, NEW start \in Position,
         NEW stop \in Position \cup {None}, GetData(via, id, fd, start, stop)
  PROVE  IInv'
<1>1. CASE \E outcome \in Outcome : Answer(outcome)
  BY <1>1, AnswerKeeps
<1>2. CASE /\ Found(id)
           /\ Begin(Ask("data", <<procs[id]>>, start, stop))
           /\ careful' = [careful EXCEPT ![procs[id]] = @ /\ Told(procs[id], start, stop)]
  <2>1. procs[id] \in Proc
    BY <1>2 DEF IInv, Types, RegistryInv, RegistryTypes, Found
  <2>2. <<procs[id]>> \in Seq(Proc) /\ Len(<<procs[id]>>) = 1
    BY <2>1
  <2>3. \A i \in 1..1 : <<procs[id]>>[i] = procs[id]
    OBVIOUS
  <2>4. Told(procs[id], start, stop) \in BOOLEAN
    BY DEF Told
  <2>5. /\ careful' \in [Proc -> BOOLEAN]
        /\ \A c \in Proc : careful'[c] => careful[c]
        /\ careful'[procs[id]] => Told(procs[id], start, stop)
    BY <1>2, <2>1, <2>4, Zenon DEF IInv, Types
  <2> QED
    BY <1>2, <2>1, <2>2, <2>3, <2>5, BeginKeeps
<1> QED
  BY <1>1, <1>2 DEF GetData, Outcome

-----------------------------------------------------------------------------
(* Requests that change the registry, and its tasks *)

\* A process and its program start, with the capture task.
LEMMA StartKeeps ==
  ASSUME IInv, NEW id \in ProcId, NEW c \in Proc, NEW valid \in BOOLEAN,
         PostProcs(id, c, valid)
  PROVE  IInv'
<1>1. CASE Answer("error")
  BY <1>1, AnswerKeeps DEF Outcome
<1>2. CASE /\ Free
           /\ spec[c].mode # "none"
           /\ StartProc(id, c, "running")
           /\ prog' = [prog EXCEPT ![c].alive = TRUE]
           /\ mem' = [mem EXCEPT ![c].task =
                        IF spec[c].mode = "memory" THEN "reading" ELSE @]
           /\ \E n \in Number : /\ open[n] = None
                                /\ num' = [num EXCEPT ![c] = n]
                                /\ open' = [open EXCEPT ![n] = c]
           /\ job' = Outcomes("ok")
           /\ UNCHANGED <<spec, file, known, careful, clash, lost>>
  <2>1. PICK n \in Number : /\ open[n] = None
                            /\ num' = [num EXCEPT ![c] = n]
                            /\ open' = [open EXCEPT ![n] = c]
    BY <1>2
  <2>2. /\ Free
        /\ spec[c].mode # "none"
        /\ StartProc(id, c, "running")
        /\ prog' = [prog EXCEPT ![c].alive = TRUE]
        /\ mem' = [mem EXCEPT ![c].task =
                     IF spec[c].mode = "memory" THEN "reading" ELSE @]
        /\ job' = Outcomes("ok")
        /\ UNCHANGED <<spec, file, known, careful, clash, lost>>
    BY <1>2
  <2> USE <2>2 DEF IInv
  <2>3. RegistryInv'
    <3>1. RegistryOp(subs)
      BY DEF RegistryOp, States
    <3> QED
      BY <3>1, RegistryKept, RegistryStaysFinite DEF Types, RegistryInv
  <2>4. /\ job' \in JobType /\ job'.phase = "answered" /\ job'.items = {}
        /\ job'.todo = <<>> /\ job'.ask = NoAsk
    BY OutcomeTypes DEF Outcome
  <2>5. Types'
    <3>1. prog' \in [Proc -> [alive : BOOLEAN, n : 0..MaxBytes]]
      BY DEF Types
    <3>2. mem' \in [Proc -> MemType]
      <4>1. mem \in [Proc -> MemType] /\ mem[c] \in MemType
        BY DEF Types
      <4>2. [mem[c] EXCEPT !.task = IF spec[c].mode = "memory" THEN "reading" ELSE @]
              \in MemType
        BY <4>1 DEF MemType
      <4> QED
        BY <4>1, <4>2
    <3>3. /\ num' \in [Proc -> Number \cup {None}]
          /\ open' \in [Number -> Proc \cup {None}]
      BY <2>1 DEF Types
    <3> QED
      BY <2>3, <2>4, <3>1, <3>2, <3>3 DEF Types
  <2>6. /\ state[c] = "none" /\ state' = [state EXCEPT ![c] = "running"]
        /\ state \in [Proc -> States]
    BY DEF StartProc, Types, RegistryInv, RegistryTypes
  <2>7. ProgInv'
    BY <2>6 DEF Types, ProgInv
  <2>8. MemInv'
    <3>1. \A d \in Proc :
            /\ mem'[d].buf = mem[d].buf /\ mem'[d].pipe = mem[d].pipe
            /\ prog'[d].n = prog[d].n
            /\ d # c => mem'[d].task = mem[d].task /\ prog'[d].alive = prog[d].alive
      <4>1. \A d \in Proc : /\ mem'[d].buf = mem[d].buf /\ mem'[d].pipe = mem[d].pipe
                            /\ d # c => mem'[d].task = mem[d].task
        BY DEF Types, MemType
      <4>2. \A d \in Proc : /\ prog'[d].n = prog[d].n
                            /\ d # c => prog'[d].alive = prog[d].alive
        BY DEF Types
      <4> QED
        BY <4>1, <4>2
    <3>2. mem'[c].task = IF spec[c].mode = "memory" THEN "reading" ELSE mem[c].task
      BY DEF Types, MemType
    <3>3. MemInv /\ spec' = spec
      OBVIOUS
    <3> HIDE <2>2 DEF IInv
    <3> SUFFICES ASSUME NEW d \in Proc PROVE MemOK(d)'
      BY DEF MemInv, MemOK
    <3>4. spec'[d].mode # "memory" => /\ Len(mem'[d].buf) = 0 /\ Len(mem'[d].pipe) = 0
                                     /\ mem'[d].task = "none"
      BY <3>1, <3>2, <3>3 DEF MemInv, MemOK
    <3>5. spec'[d].mode = "memory" => Len(mem'[d].buf) + Len(mem'[d].pipe) = prog'[d].n
      BY <3>1, <3>2, <3>3 DEF MemInv, MemOK
    <3>6. /\ \A i \in 1..Len(mem'[d].buf) : mem'[d].buf[i] = i
          /\ \A i \in 1..Len(mem'[d].pipe) : mem'[d].pipe[i] = Len(mem'[d].buf) + i
      <4>1. /\ \A i \in 1..Len(mem[d].buf) : mem[d].buf[i] = i
            /\ \A i \in 1..Len(mem[d].pipe) : mem[d].pipe[i] = Len(mem[d].buf) + i
        BY <3>3 DEF MemInv, MemOK
      <4>2. mem'[d].buf = mem[d].buf /\ mem'[d].pipe = mem[d].pipe
        BY <3>1
      <4> QED
        BY <4>1, <4>2
    <3>7. mem'[d].task = "done" => Len(mem'[d].pipe) = 0 /\ ~prog'[d].alive
      <4>1. CASE d = c
        <5>1. spec[d].mode # "memory" => mem[d].task = "none"
          BY <3>3 DEF MemInv, MemOK
        <5> QED
          BY <3>2, <4>1, <5>1
      <4>2. CASE d # c
        <5>1. mem[d].task = "done" => Len(mem[d].pipe) = 0 /\ ~prog[d].alive
          BY <3>3 DEF MemInv, MemOK
        <5> QED
          BY <3>1, <4>2, <5>1
      <4> QED
        BY <4>1, <4>2
    <3> QED
      BY <3>4, <3>5, <3>6, <3>7 DEF MemOK
  <2>9. \A d : ~Reads(d) /\ ~Reads(d)'
    BY <2>4 DEF Free, Reads
  <2>10. FileInv' /\ ReadInv'
    BY <2>4, <2>6, <2>9 DEF Types, FileInv, FileOK, ReadInv, ReadOK
  <2>11. JobInv' /\ ItemsInv' /\ BlameInv' /\ PanicInv'
    BY <2>4 DEF JobInv, NoAsk, ItemsInv, BlameInv, PanicInv
  <2>12. KnownInv'
    BY DEF Types, MemType, KnownInv, OwnLength
  <2>13. StartedInv'
    BY <2>1, <2>6 DEF Types, StartedInv
  <2>14. HeldInv'
    <3> SUFFICES ASSUME ~lost, NEW d \in Proc, InUse(d)' PROVE Opened(d)' = d
      BY DEF HeldInv
    <3>1. num'[c] = n /\ open'[n] = c /\ n # None /\ None \notin Proc
      BY <2>1, CaptureAssumption, RegistryAssumption DEF Types
    <3>2. CASE d = c
      BY <3>1, <3>2 DEF Opened
    <3>3. CASE d # c
      <4>1. mem'[d].task = mem[d].task
        BY <3>3 DEF Types, MemType
      <4>2. InUse(d)
        BY <3>3, <4>1 DEF InUse, StartProc, Types, RegistryInv, RegistryTypes
      <4>3. Opened(d) = d
        BY <4>2 DEF HeldInv
      <4>4. num[d] \in Number /\ open[num[d]] = d
        BY <3>1, <4>3 DEF Opened, Types
      <4>5. num'[d] = num[d] /\ num[d] # n
        BY <2>1, <3>1, <3>3, <4>4 DEF Types
      <4>6. open'[num[d]] = d
        BY <2>1, <4>4, <4>5 DEF Types
      <4> QED
        BY <4>4, <4>5, <4>6, CaptureAssumption DEF Opened
    <3> QED
      BY <3>2, <3>3
  <2> QED
    BY <2>5, <2>7, <2>8, <2>10, <2>11, <2>12, <2>13, <2>14
<1> QED
  BY <1>1, <1>2 DEF PostProcs

\* An operation of the registry that touches no more than the request, of a
\* process whose program is over or is not concerned.
LEMMA RegistryStepKeeps ==
  ASSUME IInv, job.phase = "idle", RegistryOp(subs),
         \A c \in Proc : /\ state[c] # "none" <=> state'[c] # "none"
                         /\ prog[c].alive => state'[c] = "running",
         \/ job' = job
         \/ job' = Outcomes("ok"),
         open' \in [Number -> Proc \cup {None}],
         \A n \in Number : open'[n] \in {None, open[n]},
         HeldInv',
         UNCHANGED <<spec, prog, file, mem, known, careful, clash, num, lost>>
  PROVE  IInv'
<1> USE DEF IInv
<1>1. RegistryInv'
  BY RegistryKept, RegistryStaysFinite DEF Types, RegistryInv
<1>2. /\ job' \in JobType /\ job'.phase \in {"idle", "answered"} /\ job'.items = {}
  BY OutcomeTypes DEF Outcome, JobInv, Types
<1>3. Types'
  BY <1>1, <1>2 DEF Types
<1>4. ProgInv' /\ MemInv'
  BY DEF ProgInv, MemInv, MemOK
<1>5. \A d : ~Reads(d) /\ ~Reads(d)'
  BY <1>2 DEF Free, Reads
<1>6. FileInv' /\ ReadInv'
  BY <1>2, <1>5 DEF FileInv, FileOK, ReadInv, ReadOK
<1>7. ItemsInv' /\ KnownInv' /\ BlameInv' /\ PanicInv'
  BY <1>2 DEF ItemsInv, ItemOK, BlameInv, PanicInv, KnownInv, OwnLength
<1>8. JobInv'
  <2>1. CASE job' = job
    <3>1. job.todo = <<>>
      BY DEF JobInv
    <3> QED
      BY <2>1, <3>1 DEF JobInv
  <2>2. CASE job' = Outcomes("ok")
    <3>1. job'.phase = "answered" /\ job'.todo = <<>> /\ job'.ask = NoAsk
      BY <2>2, OutcomeTypes DEF Outcome
    <3> QED
      BY <3>1 DEF JobInv, NoAsk
  <2> QED
    BY <2>1, <2>2
<1>9. StartedInv'
  BY DEF StartedInv, Types
<1> QED
  BY <1>3, <1>4, <1>6, <1>7, <1>8, <1>9

\* DELETE /procs/{id}
LEMMA DeleteKeeps ==
  ASSUME IInv, NEW id \in ProcId, DeleteProcs(id)
  PROVE  IInv'
<1>1. CASE \E outcome \in Outcome : Answer(outcome)
  BY <1>1, AnswerKeeps
<1>2. CASE /\ Free
           /\ DeleteProc(id)
           /\ IF spec[procs[id]].mode = "tempfile"
                THEN Close(procs[id]) ELSE UNCHANGED open
           /\ job' = Outcomes("ok")
           /\ UNCHANGED <<spec, prog, file, mem, known, careful, clash, num, lost>>
  <2>1. procs[id] \in Proc
    BY <1>2 DEF DeleteProc, Removable, IInv, Types, RegistryInv, RegistryTypes
  <2> PICK c \in Proc : c = procs[id]
    BY <2>1
  <2>2. /\ RegistryOp(subs) /\ state' = state /\ c # None
        /\ procs' = [procs EXCEPT ![id] = None]
    BY <1>2 DEF RegistryOp, DeleteProc, Removable, IInv, Types, RegistryInv, RegistryTypes
  <2>3. \A i \in ProcId : procs'[i] # None => procs'[i] = procs[i] /\ procs[i] # c
    <3>1. \A i \in ProcId : procs[i] # None => idOf[procs[i]] = i
      BY DEF IInv, Types, RegistryInv, MapAgrees
    <3> QED
      BY <2>2, <3>1 DEF IInv, Types, RegistryInv, RegistryTypes
  <2>4. \A d \in Proc : InUse(d)' => InUse(d)
    BY <1>2, <2>3, RegistryAssumption DEF InUse
  <2>5. CASE spec[c].mode = "tempfile"
    <3>1. Close(c)
      BY <1>2, <2>5
    <3>2. InUse(c) /\ ~InUse(c)'
      BY <1>2, <2>2, <2>3, <2>5 DEF InUse
    <3>3. ~lost => Opened(c) = c
      BY <2>2, <3>2 DEF IInv, HeldInv
    <3>4. HeldInv'
      BY <1>2, <2>2, <2>4, <3>1, <3>2, <3>3, CloseFrame DEF IInv
    <3>5. open' \in [Number -> Proc \cup {None}]
      BY <2>2, <3>1, CloseTypes DEF IInv
    <3>6. \A n \in Number : open'[n] \in {None, open[n]}
      BY <3>1 DEF Close
    <3> QED
      BY <1>2, <2>2, <3>4, <3>5, <3>6, RegistryStepKeeps DEF Free, IInv, ProgInv
  <2>6. CASE spec[c].mode # "tempfile"
    <3>1. open' = open
      BY <1>2, <2>6
    <3>2. HeldInv'
      BY <1>2, <2>4, <3>1 DEF IInv, HeldInv, Opened
    <3>3. open' \in [Number -> Proc \cup {None}]
      BY <3>1 DEF IInv, Types
    <3> QED
      BY <1>2, <2>2, <3>1, <3>2, <3>3, RegistryStepKeeps DEF Free, IInv, ProgInv
  <2> QED
    BY <2>5, <2>6
<1> QED
  BY <1>1, <1>2 DEF DeleteProcs, Outcome

\* The task of a process sees its end, or notifies of it.
LEMMA ProcOverKeeps ==
  ASSUME IInv, NEW c \in Proc, ProcOver(c)
  PROVE  IInv'
<1>1. RegistryOp(subs)
  BY DEF ProcOver, RegistryOp, States
<1>2. \A d \in Proc : /\ state[d] # "none" <=> state'[d] # "none"
                      /\ prog[d].alive => state'[d] = "running"
  BY DEF ProcOver, StopProc, TellNotRunning, IInv, Types, RegistryInv, RegistryTypes,
     ProgInv
<1>3. /\ job.phase = "idle" /\ procs' = procs
      /\ UNCHANGED <<spec, prog, file, mem, job, known, careful, clash, num, open, lost>>
  BY DEF ProcOver, Free, captureVars, tableVars, StopProc, TellNotRunning
<1>4. HeldInv'
  BY <1>3 DEF IInv, HeldInv, InUse, Opened
<1>5. open' \in [Number -> Proc \cup {None}]
  BY <1>3 DEF IInv, Types
<1> QED
  BY <1>1, <1>2, <1>3, <1>4, <1>5, RegistryStepKeeps

-----------------------------------------------------------------------------
(* The program, and the capture task *)

\* A write to a file puts the byte at the offset, and fills a gap before it.
LEMMA WriteFileResult ==
  ASSUME NEW f \in FileType, NEW b \in 0..MaxBytes
  PROVE  /\ WriteFile(f, b) \in FileType
         /\ WriteFile(f, b).offset = f.offset + 1
         /\ Len(WriteFile(f, b).data) = IF f.offset < Len(f.data) THEN Len(f.data)
                                        ELSE f.offset + 1
         /\ \A i \in 1..Len(WriteFile(f, b).data) :
              WriteFile(f, b).data[i] =
                IF i = f.offset + 1 THEN b ELSE IF i <= Len(f.data) THEN f.data[i] ELSE 0
<1> DEFINE n == IF f.offset < Len(f.data) THEN Len(f.data) ELSE f.offset + 1
           data == [i \in 1..n |-> IF i = f.offset + 1 THEN b
                                   ELSE IF i <= Len(f.data) THEN f.data[i] ELSE 0]
<1>1. f.offset \in Nat /\ f.data \in Seq(0..MaxBytes)
  BY DEF FileType
<1>2. n \in Nat /\ MaxBytes \in Nat
  BY <1>1, CaptureAssumption
<1>3. \A i \in 1..n : data[i] \in 0..MaxBytes
  BY <1>1, <1>2
<1> HIDE DEF n
<1>4. data \in Seq(0..MaxBytes) /\ Len(data) = n
  BY <1>2, <1>3
<1>5. WriteFile(f, b) = [f EXCEPT !.data = data, !.offset = f.offset + 1]
  BY DEF WriteFile, Overwrite, n
<1> HIDE DEF data
<1>6. WriteFile(f, b) = [data |-> data, offset |-> f.offset + 1]
  BY <1>5 DEF FileType
<1>7. /\ WriteFile(f, b) \in FileType
      /\ WriteFile(f, b).offset = f.offset + 1
      /\ WriteFile(f, b).data = data
  BY <1>1, <1>4, <1>6 DEF FileType
<1> QED
  BY <1>2, <1>4, <1>7 DEF n, data

\* What a write does to the record of the program.
LEMMA ProgWrites ==
  ASSUME Types, NEW c \in Proc, prog[c].alive, prog[c].n < spec[c].bytes,
         prog' = [prog EXCEPT ![c].n = @ + 1]
  PROVE  /\ prog[c].n \in Nat /\ prog[c].n + 1 \in 1..MaxBytes
         /\ prog'[c].n = prog[c].n + 1 /\ prog'[c].alive
         /\ prog' \in [Proc -> [alive : BOOLEAN, n : 0..MaxBytes]]
         /\ \A d \in Proc \ {c} : prog'[d] = prog[d]
<1>1. prog[c].n \in Nat /\ prog[c].n + 1 \in 1..MaxBytes /\ MaxBytes \in Nat
  BY SpecType, CaptureAssumption DEF Types
<1> QED
  BY <1>1 DEF Types

\* The program writes to its temporary file.
LEMMA WriteTempfile ==
  ASSUME IInv, NEW c \in Proc,
         prog[c].alive, prog[c].n < spec[c].bytes,
         prog' = [prog EXCEPT ![c].n = @ + 1],
         spec[c].mode = "tempfile",
         file' = [file EXCEPT ![c] = WriteFile(@, prog[c].n + 1)],
         clash' = [clash EXCEPT ![c] = @ \/ Reads(c)],
         UNCHANGED <<mem, vars, spec, job, known, careful, tableVars>>
  PROVE  IInv'
<1> DEFINE f == file[c]
           g == file'[c]
           n == prog[c].n
<1>1. /\ n \in Nat /\ n + 1 \in 0..MaxBytes /\ Limit \in Nat
      /\ prog'[c].n = n + 1 /\ prog'[c].alive
      /\ prog' \in [Proc -> [alive : BOOLEAN, n : 0..MaxBytes]]
      /\ \A d \in Proc \ {c} : prog'[d] = prog[d]
  BY ProgWrites, CaptureAssumption DEF IInv
<1>2. /\ f \in FileType /\ g = WriteFile(f, n + 1)
      /\ \A d \in Proc \ {c} : file'[d] = file[d]
  BY DEF IInv, Types
<1>3. /\ g \in FileType
      /\ g.offset = f.offset + 1
      /\ Len(g.data) = IF f.offset < Len(f.data) THEN Len(f.data) ELSE f.offset + 1
      /\ \A i \in 1..Len(g.data) :
           g.data[i] = IF i = f.offset + 1 THEN n + 1
                       ELSE IF i <= Len(f.data) THEN f.data[i] ELSE 0
  BY <1>1, <1>2, WriteFileResult
<1>4. f.offset \in Nat /\ Len(f.data) \in Nat
  BY <1>2 DEF FileType
<1>5. /\ clash'[c] <=> (clash[c] \/ Reads(c))
      /\ \A d \in Proc \ {c} : clash'[d] = clash[d]
      /\ clash' \in [Proc -> BOOLEAN]
  <2>1. Reads(c) \in BOOLEAN
    BY DEF Reads
  <2> QED
    BY <2>1, Zenon DEF IInv, Types
<1>6. \A d : Reads(d)' <=> Reads(d)
  BY DEF Reads, Opened, tableVars
<1>7. state[c] = "running"
  BY DEF IInv, ProgInv
<1>8. UNCHANGED <<procs, idOf, state, told, shutdown>>
  BY DEF vars, registryVars
<1>9. Types'
  <2>1. file' \in [Proc -> FileType]
    BY <1>2, <1>3 DEF IInv, Types
  <2> QED
    BY <1>1, <1>5, <2>1, RegistryUnchanged DEF IInv, Types, vars, tableVars
<1>10. ProgInv'
  BY <1>1, <1>7, <1>8, SpecType DEF IInv, Types, ProgInv
<1>11. MemInv'
  <2>1. \A d \in Proc : spec[d].mode = "memory" => prog'[d] = prog[d]
    BY <1>1
  <2>2. \A d \in Proc : mem[d].task = "done" => ~prog'[d].alive
    BY <2>1 DEF IInv, MemInv, MemOK
  <2> SUFFICES ASSUME NEW d \in Proc PROVE MemOK(d)'
    BY DEF MemInv
  <2>3. MemOK(d) /\ spec' = spec /\ mem' = mem
    BY DEF IInv, MemInv
  <2> QED
    BY <2>1, <2>2, <2>3 DEF MemOK
<1> HIDE DEF f, g, n
<1>12. FileInv'
  <2>1. FileOK(c)
    BY DEF IInv, FileInv, FileOK
  <2>2. CASE ~clash'[c]
    <3>1. ~clash[c] /\ ~Reads(c) /\ f.offset = n /\ Len(f.data) = n
      BY <1>5, <2>1, <2>2 DEF f, n, FileOK
    <3>2. Len(g.data) = n + 1 /\ g.offset = n + 1
      BY <1>1, <1>3, <3>1
    <3>3. \A i \in 1..n + 1 : g.data[i] = i
      <4>1. \A i \in 1..n : f.data[i] = i
        BY <2>1, <3>1 DEF f, n, FileOK
      <4> SUFFICES ASSUME NEW i \in 1..n + 1 PROVE g.data[i] = i
        OBVIOUS
      <4>2. g.data[i] = IF i = n + 1 THEN n + 1
                        ELSE IF i <= n THEN f.data[i] ELSE 0
        BY <1>3, <3>1, <3>2
      <4>3. i = n + 1 \/ (i \in 1..n /\ i <= n /\ i # n + 1)
        BY <1>1
      <4> QED
        BY <4>1, <4>2, <4>3, Zenon
    <3>4. FileOK(c)'
      <4>1. n + 1 <= Limit + (n + 1)
        BY <1>1
      <4> QED
        BY <1>1, <1>8, <3>2, <3>3, <4>1 DEF FileOK, g, n
    <3>5. \A d \in Proc \ {c} : FileOK(d)'
      BY <1>1, <1>2, <1>5, <1>6, <1>8, FileFrame DEF IInv, FileInv
    <3> QED
      BY <3>4, <3>5 DEF FileInv
  <2>3. CASE clash'[c]
    <3>1. Len(g.data) <= Limit + n + 1 /\ g.offset <= Limit + n + 1
      BY <1>1, <1>3, <1>4, <2>1 DEF f, n, FileOK
    <3> QED
      BY <1>1, <1>2, <1>5, <1>6, <1>8, <2>3, <3>1 DEF IInv, FileInv, FileOK, g, n
  <2> QED
    BY <2>2, <2>3
<1>13. JobInv'
  BY <1>8 DEF IInv, JobInv, Told
<1>14. ReadInv'
  <2>1. /\ AskStart' = AskStart /\ (ToEnd' <=> ToEnd)
        /\ Len(job.got) \in Nat /\ AskStart \in Nat
    <3>1. job.ask.start \in Position /\ job.got \in Seq(0..MaxBytes)
      BY DEF IInv, Types, JobType, AskType
    <3> QED
      BY <3>1, PositionValue DEF AskStart, ToEnd
  <2>2. Reads(c) => ReadOK(c)'
    BY <1>3, <1>4, <1>5, <2>1 DEF IInv, ReadInv, ReadOK, f, g
  <2>3. \A d \in Proc : Reads(d)' => ReadOK(d)'
    BY <1>1, <1>2, <1>5, <1>6, <2>1, <2>2 DEF IInv, ReadInv, ReadOK
  <2> QED
    BY <2>3 DEF IInv, ReadInv, Opened, tableVars
<1>15. ItemsInv'
  <2>1. told[c] = FALSE
    BY <1>7 DEF IInv, Types, RegistryInv, RegistryTypes, ToldStopped
  <2>2. \A item \in job.items : item.type = "bytes" => item.from \in Proc
    BY DEF IInv, Types, JobType, ItemType, BytesType, LengthType, OtherType
  <2> QED
    BY <1>1, <1>5, <1>8, <2>1, <2>2 DEF IInv, ItemsInv, ItemOK, Settled, tableVars
<1>16. KnownInv'
  <2>1. Len(f.data) <= Len(g.data)
    BY <1>3, <1>4
  <2>2. known[c] \in Nat /\ Len(g.data) \in Nat
    BY <1>3, <1>4, CaptureAssumption DEF IInv, Types, FileType
  <2> QED
    BY <1>2, <1>4, <2>1, <2>2 DEF IInv, KnownInv, OwnLength, f, g, tableVars
<1>17. StartedInv' /\ HeldInv'
  BY <1>8, TableFrame DEF IInv, tableVars
<1>18. BlameInv' /\ PanicInv'
  BY <1>5 DEF IInv, BlameInv, PanicInv, tableVars
<1> QED
  BY <1>9, <1>10, <1>11, <1>12, <1>13, <1>14, <1>15, <1>16, <1>17, <1>18 DEF IInv

\* A step of the program or of the capture task that leaves the requests, the
\* files and the registry alone.
LEMMA PipeStep ==
  ASSUME IInv, Types', ProgInv', MemInv',
         \A c \in Proc :
           /\ prog'[c].alive => prog[c].alive
           /\ spec[c].mode = "tempfile" => prog'[c].n = prog[c].n
           /\ prog'[c].n >= prog[c].n
           /\ Len(mem'[c].buf) >= Len(mem[c].buf)
           /\ prog'[c].n = prog[c].n \/ ~told[c],
         \/ UNCHANGED <<mem>>
         \/ \A c \in Proc : mem'[c].task = mem[c].task
         \/ job.items = {},
         UNCHANGED open \/ job.phase = "idle", StartedInv', HeldInv',
         UNCHANGED <<vars, spec, file, job, known, careful, clash, num, lost>>
  PROVE  IInv'
<1>1. UNCHANGED <<procs, idOf, state, told, shutdown>>
  BY DEF vars, registryVars
<1>2. /\ \A d : Reads(d)' <=> Reads(d)
      /\ AskStart' = AskStart /\ (ToEnd' <=> ToEnd)
  BY DEF Reads, Opened, AskStart, ToEnd
<1>3. FileInv'
  <2> SUFFICES ASSUME NEW c \in Proc PROVE FileOK(c)'
    BY DEF FileInv, FileOK
  <2>1. FileOK(c)
    BY DEF IInv, FileInv, FileOK
  <2>2. /\ prog'[c].n \in Nat /\ prog[c].n \in Nat /\ Len(file[c].data) \in Nat
        /\ file[c].offset \in Nat /\ Limit \in Nat
    BY CaptureAssumption DEF IInv, Types, FileType
  <2>3. CASE spec[c].mode = "tempfile"
    BY <1>1, <1>2, <2>1, <2>3, FileFrame
  <2>4. CASE spec[c].mode # "tempfile"
    <3>1. Limit + prog[c].n <= Limit + prog'[c].n
      BY <2>2
    <3>2. /\ Len(file[c].data) <= Limit + prog'[c].n
          /\ file[c].offset <= Limit + prog'[c].n
      <4>1. /\ Len(file[c].data) <= Limit + prog[c].n
            /\ file[c].offset <= Limit + prog[c].n
        BY <2>1 DEF FileOK
      <4>2. Limit + prog[c].n \in Nat /\ Limit + prog'[c].n \in Nat
        BY <2>2
      <4>3. \A x, y, z \in Nat : x <= y /\ y <= z => x <= z
        OBVIOUS
      <4> QED
        BY <2>2, <3>1, <4>1, <4>2, <4>3, Zenon
    <3> QED
      BY <2>1, <2>4, <3>2 DEF FileOK
  <2> QED
    BY <2>3, <2>4
<1>4. JobInv'
  BY <1>1 DEF IInv, JobInv, Told
<1>5. ReadInv'
  BY <1>2 DEF IInv, ReadInv, ReadOK, Opened
<1>6. ItemsInv'
  <2>1. \A item \in job.items : item.type = "bytes" => item.from \in Proc
    BY DEF IInv, Types, JobType, ItemType, BytesType, LengthType, OtherType
  <2>2. \A item \in job.items : item.type = "bytes" =>
          (Settled(item.from)' =>
             Settled(item.from) /\ prog'[item.from].n = prog[item.from].n)
    BY <1>1, <2>1 DEF Settled
  <2> QED
    BY <2>1, <2>2 DEF IInv, ItemsInv, ItemOK
<1>7. KnownInv'
  <2> SUFFICES ASSUME ~lost, NEW c \in Proc PROVE known[c] <= OwnLength(c)'
    BY DEF KnownInv
  <2>1. known[c] \in Nat /\ Len(mem[c].buf) \in Nat /\ Len(mem'[c].buf) \in Nat
    BY CaptureAssumption DEF IInv, Types, MemType
  <2> QED
    BY <2>1 DEF IInv, KnownInv, OwnLength
<1>8. BlameInv' /\ PanicInv'
  BY DEF IInv, BlameInv, PanicInv
<1> QED
  BY <1>3, <1>4, <1>5, <1>6, <1>7, <1>8 DEF IInv

\* The program writes to its pipe.
LEMMA WritePipe ==
  ASSUME IInv, NEW c \in Proc,
         prog[c].alive, prog[c].n < spec[c].bytes,
         prog' = [prog EXCEPT ![c].n = @ + 1],
         spec[c].mode = "memory",
         mem' = [mem EXCEPT ![c].pipe = Append(@, prog[c].n + 1)],
         UNCHANGED <<file, clash, vars, spec, job, known, careful, tableVars>>
  PROVE  IInv'
<1> DEFINE n == prog[c].n
           pipe == mem[c].pipe
           buf == mem[c].buf
<1>1. /\ n \in Nat /\ n + 1 \in 1..MaxBytes
      /\ prog'[c].n = n + 1 /\ prog'[c].alive
      /\ prog' \in [Proc -> [alive : BOOLEAN, n : 0..MaxBytes]]
      /\ \A d \in Proc \ {c} : prog'[d] = prog[d]
  BY ProgWrites DEF IInv
<1>2. /\ pipe \in Seq(1..MaxBytes) /\ buf \in Seq(1..MaxBytes)
  BY DEF IInv, Types, MemType
<1>3. /\ Append(pipe, n + 1) \in Seq(1..MaxBytes)
      /\ Len(Append(pipe, n + 1)) = Len(pipe) + 1
      /\ \A i \in 1..Len(pipe) : Append(pipe, n + 1)[i] = pipe[i]
      /\ Append(pipe, n + 1)[Len(pipe) + 1] = n + 1
  BY <1>1, <1>2
<1>4. /\ mem'[c].pipe = Append(pipe, n + 1)
      /\ mem'[c].buf = buf /\ mem'[c].task = mem[c].task
      /\ \A d \in Proc \ {c} : mem'[d] = mem[d]
      /\ mem' \in [Proc -> MemType]
  <2>1. mem \in [Proc -> MemType] /\ mem[c] \in MemType
    BY DEF IInv, Types
  <2> DEFINE m == [mem[c] EXCEPT !.pipe = Append(pipe, n + 1)]
  <2>2. /\ m.pipe = Append(pipe, n + 1) /\ m.buf = buf /\ m.task = mem[c].task
        /\ m \in MemType
    BY <1>3, <2>1 DEF MemType
  <2>3. mem' = [mem EXCEPT ![c] = m]
    BY <2>1
  <2> HIDE DEF m
  <2> QED
    BY <2>1, <2>2, <2>3
<1>5. Types'
  BY <1>1, <1>4, RegistryUnchanged DEF IInv, Types, vars, tableVars
<1>6. state[c] = "running" /\ state' = state
  BY DEF IInv, ProgInv, vars, registryVars
<1>7. ProgInv'
  BY <1>1, <1>6, SpecType DEF IInv, Types, ProgInv
<1> HIDE DEF n, pipe, buf
<1>8. MemInv'
  <2>1. MemOK(c)
    BY DEF IInv, MemInv, MemOK
  <2>2. /\ \A i \in 1..Len(buf) : buf[i] = i
        /\ \A i \in 1..Len(pipe) : pipe[i] = Len(buf) + i
        /\ Len(buf) + Len(pipe) = n
        /\ mem[c].task # "done"
    BY <2>1 DEF n, pipe, buf, MemOK
  <2>3. Len(buf) \in Nat /\ Len(pipe) \in Nat
    BY <1>2
  <2>4. \A i \in 1..Len(pipe) + 1 : Append(pipe, n + 1)[i] = Len(buf) + i
    BY <1>3, <2>2, <2>3
  <2>5. Len(buf) + (Len(pipe) + 1) = n + 1
    BY <2>2, <2>3
  <2>6. MemOK(c)'
    <3>1. spec'[c].mode = "memory" /\ mem'[c].task # "done"
      BY <1>4, <2>2
    <3>2. Len(mem'[c].buf) + Len(mem'[c].pipe) = prog'[c].n
      BY <1>1, <1>3, <1>4, <2>5 DEF n
    <3>3. /\ \A i \in 1..Len(mem'[c].buf) : mem'[c].buf[i] = i
          /\ \A i \in 1..Len(mem'[c].pipe) : mem'[c].pipe[i] = Len(mem'[c].buf) + i
      BY <1>3, <1>4, <2>2, <2>4
    <3> QED
      BY <3>1, <3>2, <3>3 DEF MemOK
  <2>7. \A d \in Proc \ {c} : MemOK(d)'
    BY <1>1, <1>4, MemFrame DEF IInv, MemInv
  <2> QED
    BY <2>6, <2>7 DEF MemInv
<1>9. ~told[c]
  BY <1>6 DEF IInv, Types, RegistryInv, RegistryTypes, ToldStopped
<1>10. \A d \in Proc : /\ prog'[d].alive => prog[d].alive
                       /\ prog'[d].n >= prog[d].n
                       /\ Len(mem'[d].buf) >= Len(mem[d].buf)
                       /\ mem'[d].task = mem[d].task
  <2>1. \A d \in Proc : prog[d].n \in Nat /\ Len(mem[d].buf) \in Nat
    BY DEF IInv, Types, MemType
  <2> QED
    BY <1>1, <1>4, <2>1 DEF buf, n
<1>11. StartedInv' /\ HeldInv'
  BY <1>10, TableFrame DEF IInv, vars, registryVars, tableVars
<1> QED
  BY <1>1, <1>5, <1>7, <1>8, <1>9, <1>10, <1>11, PipeStep DEF tableVars

\* The program writes.
LEMMA WriteKeeps ==
  ASSUME IInv, NEW c \in Proc, Write(c)
  PROVE  IInv'
  BY WriteTempfile, WritePipe DEF Write

\* The program ends.
LEMMA ProgramEndsKeeps ==
  ASSUME IInv, NEW c \in Proc, ProgramEnds(c)
  PROVE  IInv'
<1>1. /\ prog' = [prog EXCEPT ![c].alive = FALSE]
      /\ UNCHANGED <<vars, spec, file, mem, job, known, careful, clash, num, open, lost>>
  BY DEF ProgramEnds, tableVars
<1>2. MaxBytes \in Nat /\ prog \in [Proc -> [alive : BOOLEAN, n : 0..MaxBytes]]
  BY CaptureAssumption DEF IInv, Types
<1>3. prog' \in [Proc -> [alive : BOOLEAN, n : 0..MaxBytes]]
  BY <1>1, <1>2
<1>4. \A d \in Proc : prog'[d].n = prog[d].n /\ prog[d].n \in Nat
  BY <1>1, <1>2
<1>5. \A d \in Proc : prog'[d].alive => prog[d].alive
  BY <1>1, <1>2
<1>6. \A d \in Proc : Len(mem'[d].buf) = Len(mem[d].buf) /\ Len(mem[d].buf) \in Nat
  BY <1>1 DEF IInv, Types, MemType
<1>7. Types'
  BY <1>1, <1>3, RegistryUnchanged DEF IInv, Types, vars
<1>8. ProgInv'
  BY <1>1, <1>4, <1>5 DEF IInv, ProgInv, vars, registryVars
<1>9. MemInv'
  BY <1>1, <1>4, <1>5, MemFrame DEF IInv, MemInv
<1>10. StartedInv' /\ HeldInv'
  BY <1>1, TableFrame DEF IInv, vars, registryVars
<1> QED
  BY <1>1, <1>4, <1>5, <1>6, <1>7, <1>8, <1>9, <1>10, PipeStep

\* The capture task reads from the pipe.
LEMMA CaptureReadKeeps ==
  ASSUME IInv, NEW c \in Proc, CaptureRead(c)
  PROVE  IInv'
<1> DEFINE pipe == mem[c].pipe
           buf == mem[c].buf
<1>1. PICK k \in 1..Len(pipe) :
        mem' = [mem EXCEPT ![c].buf = @ \o SubSeq(pipe, 1, k),
                           ![c].pipe = SubSeq(@, k + 1, Len(@))]
  BY DEF CaptureRead
<1> DEFINE r == Slice(pipe, 0, k)
           b == buf \o r
           q == Slice(pipe, k, Len(pipe))
<1>2. /\ mem' = [mem EXCEPT ![c].buf = b, ![c].pipe = q]
      /\ UNCHANGED <<vars, spec, prog, file, job, known, careful, clash, num, open, lost>>
  <2>1. SubSeq(pipe, 1, k) = r /\ SubSeq(pipe, k + 1, Len(pipe)) = q
    BY DEF Slice
  <2> QED
    BY <1>1, <2>1 DEF CaptureRead, tableVars
<1>3. pipe \in Seq(1..MaxBytes) /\ buf \in Seq(1..MaxBytes) /\ mem[c].task = "reading"
  BY DEF IInv, Types, MemType, CaptureRead
<1> HIDE <1>1 DEF buf, pipe
<1>4. /\ Len(pipe) \in Nat /\ Len(buf) \in Nat /\ k \in Nat
      /\ k \in 0..Len(pipe) /\ 0 \in 0..Len(pipe) /\ Len(pipe) \in k..Len(pipe)
  BY <1>3
<1>5. /\ r \in Seq(1..MaxBytes) /\ Len(r) = k
      /\ \A i \in 1..k : r[i] = pipe[i]
  <2>1. /\ r \in Seq(1..MaxBytes) /\ Len(r) = k - 0
        /\ \A i \in 1..k - 0 : r[i] = pipe[0 + i]
    BY <1>3, <1>4, SliceResult
  <2> HIDE DEF r
  <2> QED
    BY <1>4, <2>1
<1>6. /\ q \in Seq(1..MaxBytes) /\ Len(q) = Len(pipe) - k
      /\ \A i \in 1..Len(pipe) - k : q[i] = pipe[k + i]
  BY <1>3, <1>4, SliceResult
<1> HIDE DEF r
<1>7. /\ b \in Seq(1..MaxBytes) /\ Len(b) = Len(buf) + k
      /\ \A i \in 1..Len(buf) + k :
           b[i] = IF i <= Len(buf) THEN buf[i] ELSE r[i - Len(buf)]
  BY <1>3, <1>5, ConcatResult
<1> HIDE DEF b, q
<1>8. /\ mem'[c].buf = b /\ mem'[c].pipe = q /\ mem'[c].task = "reading"
      /\ \A d \in Proc \ {c} : mem'[d] = mem[d]
      /\ mem' \in [Proc -> MemType]
  <2>1. mem \in [Proc -> MemType] /\ mem[c] \in MemType
    BY DEF IInv, Types
  <2> DEFINE m == [mem[c] EXCEPT !.buf = b, !.pipe = q]
  <2>2. m.buf = b /\ m.pipe = q /\ m.task = "reading" /\ m \in MemType
    BY <1>3, <1>6, <1>7, <2>1 DEF MemType
  <2>3. mem' = [mem EXCEPT ![c] = m]
    BY <1>2, <2>1
  <2> HIDE DEF m
  <2> QED
    BY <2>1, <2>2, <2>3
<1>9. Types' /\ ProgInv'
  BY <1>2, <1>8, RegistryUnchanged DEF IInv, Types, ProgInv, vars, registryVars
<1>10. MemInv'
  <2>1. /\ spec[c].mode = "memory" /\ Len(buf) + Len(pipe) = prog[c].n
        /\ \A i \in 1..Len(buf) : buf[i] = i
        /\ \A i \in 1..Len(pipe) : pipe[i] = Len(buf) + i
    BY <1>3 DEF IInv, MemInv, MemOK, buf, pipe
  <2>2. \A i \in 1..Len(b) : b[i] = i
    <3> SUFFICES ASSUME NEW i \in 1..Len(buf) + k PROVE b[i] = i
      BY <1>7
    <3>1. CASE i <= Len(buf)
      BY <1>4, <1>7, <2>1, <3>1
    <3>2. CASE i > Len(buf)
      <4>1. i - Len(buf) \in 1..k /\ i - Len(buf) \in 1..Len(pipe)
        BY <1>4, <3>2
      <4>2. b[i] = r[i - Len(buf)] /\ r[i - Len(buf)] = Len(buf) + (i - Len(buf))
        BY <1>4, <1>5, <1>7, <2>1, <3>2, <4>1
      <4> QED
        BY <1>4, <4>2
    <3> QED
      BY <1>4, <3>1, <3>2
  <2>3. \A i \in 1..Len(q) : q[i] = Len(b) + i
    <3> SUFFICES ASSUME NEW i \in 1..Len(pipe) - k PROVE q[i] = Len(b) + i
      BY <1>6
    <3>1. k + i \in 1..Len(pipe) /\ i \in Nat
      BY <1>4
    <3>2. q[i] = Len(buf) + (k + i)
      BY <1>6, <2>1, <3>1
    <3> QED
      BY <1>4, <1>7, <3>1, <3>2
  <2>4. Len(b) + Len(q) = prog[c].n
    BY <1>4, <1>6, <1>7, <2>1
  <2>5. MemOK(c)'
    BY <1>2, <1>8, <2>1, <2>2, <2>3, <2>4 DEF MemOK
  <2>6. \A d \in Proc \ {c} : MemOK(d)'
    BY <1>2, <1>8, MemFrame DEF IInv, MemInv
  <2> QED
    BY <2>5, <2>6 DEF MemInv
<1>11. \A d \in Proc : Len(mem'[d].buf) >= Len(mem[d].buf)
  <2>1. \A d \in Proc : Len(mem[d].buf) \in Nat
    BY DEF IInv, Types, MemType
  <2> QED
    BY <1>4, <1>7, <1>8, <2>1 DEF buf
<1>12. \A d \in Proc : prog[d].n >= prog[d].n
  BY CaptureAssumption DEF IInv, Types
<1>13. job.items = {}
  BY DEF CaptureRead, Free, IInv, JobInv
<1>14. StartedInv' /\ HeldInv'
  BY <1>2, <1>3, <1>8, TableFrame DEF IInv, vars, registryVars
<1> QED
  BY <1>2, <1>9, <1>10, <1>11, <1>12, <1>13, <1>14, PipeStep

\* The capture task ends at the end of the pipe, or fails.
LEMMA CaptureEndKeeps ==
  ASSUME IInv, NEW c \in Proc, CaptureEOF(c) \/ CaptureFails(c)
  PROVE  IInv'
<1> DEFINE task == mem'[c].task
<1>1. /\ \/ mem' = [mem EXCEPT ![c].task = "done"] /\ mem[c].pipe = <<>> /\ ~prog[c].alive
         \/ mem' = [mem EXCEPT ![c].task = "failed"] /\ Opened(c) # c
      /\ mem[c].task = "reading" /\ Close(c)
      /\ UNCHANGED <<vars, spec, prog, file, job, known, careful, clash, num, lost>>
      /\ job.phase = "idle" /\ job.items = {}
  BY DEF CaptureEOF, CaptureFails, EndOfPipe, Free, IInv, JobInv
<1>2. /\ mem'[c].buf = mem[c].buf /\ mem'[c].pipe = mem[c].pipe
      /\ task \in {"done", "failed"}
      /\ task = "done" => mem[c].pipe = <<>> /\ ~prog[c].alive
      /\ \A d \in Proc \ {c} : mem'[d] = mem[d]
      /\ mem' \in [Proc -> MemType]
  <2>1. mem \in [Proc -> MemType]
    BY DEF IInv, Types
  <2>2. CASE mem' = [mem EXCEPT ![c].task = "done"] /\ mem[c].pipe = <<>> /\ ~prog[c].alive
    BY <2>1, <2>2 DEF MemType
  <2>3. CASE mem' = [mem EXCEPT ![c].task = "failed"]
    BY <2>1, <2>3 DEF MemType
  <2> QED
    BY <1>1, <2>2, <2>3
<1>3. /\ spec[c].mode = "memory" /\ MemOK(c)
      /\ UNCHANGED <<procs, idOf, state, told, shutdown>>
  BY <1>1 DEF IInv, MemInv, MemOK, vars, registryVars
<1>4. open' \in [Number -> Proc \cup {None}] /\ StartedInv'
  BY <1>1, <1>3, CloseTypes DEF IInv
<1>5. Types' /\ ProgInv'
  BY <1>1, <1>2, <1>4, RegistryUnchanged DEF IInv, Types, ProgInv, vars, registryVars
<1>6. MemInv'
  <2>1. MemOK(c)'
    <3>1. task = "done" => Len(mem'[c].pipe) = 0
      BY <1>2
    <3>2. spec' = spec /\ prog' = prog
      BY <1>1
    <3> QED
      BY <1>2, <1>3, <3>1, <3>2 DEF MemOK
  <2>2. \A d \in Proc \ {c} : MemOK(d)'
    BY <1>1, <1>2, MemFrame DEF IInv, MemInv
  <2> QED
    BY <2>1, <2>2 DEF MemInv
<1>7. HeldInv'
  <2>1. ~lost => Opened(c) = c
    BY <1>1, <1>3 DEF IInv, HeldInv, InUse
  <2>2. \A d \in Proc : InUse(d)' => InUse(d) /\ d # c
    BY <1>1, <1>2, <1>3 DEF InUse
  <2> QED
    BY <1>1, <2>1, <2>2, CloseFrame DEF IInv
<1>8. \A d \in Proc : Len(mem'[d].buf) >= Len(mem[d].buf)
  <2>1. \A d \in Proc : Len(mem[d].buf) \in Nat
    BY DEF IInv, Types, MemType
  <2> QED
    BY <1>2, <2>1
<1>9. \A d \in Proc : prog[d].n >= prog[d].n
  BY CaptureAssumption DEF IInv, Types
<1> QED
  BY <1>1, <1>4, <1>5, <1>6, <1>7, <1>8, <1>9, PipeStep

-----------------------------------------------------------------------------
(* Requests that read output *)

\* The item of process c is ready, and the read has left the shared offset
\* where the program goes on.
LEMMA ItemDoneKeeps ==
  ASSUME IInv, NEW c \in Proc, NEW item \in ItemType, item.c = c,
         job.phase \in {"look", "reading"}, job.todo[1] = c,
         ItemDone(item), UNCHANGED <<file, clash>>,
         open' \in [Number -> Proc \cup {None}], lost' \in BOOLEAN, lost => lost',
         StartedInv', HeldInv', BlameInv',
         Tells(item) \in 0..2 * Limit, ~lost' => Tells(item) <= OwnLength(c),
         ItemOK(item),
         \A d \in Proc : Reads(d) /\ ~clash[d] /\ prog[d].alive
                          => file[d].offset = prog[d].n
  PROVE  IInv'
<1>1. /\ job' = [job EXCEPT
           !.phase = IF Len(job.todo) = 1 THEN "answered" ELSE "look",
           !.todo = Tail(@),
           !.got = <<>>,
           !.items = @ \cup {item},
           !.outcome = IF item.type = "error" /\ job.ask.what = "data"
                         THEN "error" ELSE @]
      /\ known' = [known EXCEPT ![c] = IF Tells(item) > @ THEN Tells(item) ELSE @]
      /\ UNCHANGED <<vars, spec, prog, mem, careful, num>>
  BY DEF ItemDone
<1>2. job \in JobType /\ known \in [Proc -> 0..2 * Limit] /\ spec \in Loads
  BY DEF IInv, Types
<1>3. /\ job'.phase = (IF Len(job.todo) = 1 THEN "answered" ELSE "look")
      /\ job'.todo = Tail(job.todo) /\ job'.got = <<>> /\ job'.ask = job.ask
      /\ job'.items = job.items \cup {item}
      /\ job'.outcome = IF item.type = "error" /\ job.ask.what = "data"
                          THEN "error" ELSE job.outcome
  BY <1>1, <1>2 DEF JobType
<1>4. /\ job.todo \in Seq(Proc) /\ Len(job.todo) > 0
      /\ Tail(job.todo) \in Seq(Proc) /\ Len(Tail(job.todo)) = Len(job.todo) - 1
      /\ \A i \in 1..Len(job.todo) - 1 : Tail(job.todo)[i] = job.todo[i + 1]
  <2>1. job.todo \in Seq(Proc) /\ Len(job.todo) > 0
    BY <1>2 DEF JobType, IInv, JobInv
  <2> QED
    BY <2>1
<1>5. job' \in JobType
  <2>1. job' = [phase |-> job'.phase, ask |-> job'.ask, todo |-> job'.todo,
                got |-> job'.got, items |-> job'.items, outcome |-> job'.outcome]
    BY <1>1, <1>2 DEF JobType
  <2>2. /\ job'.phase \in {"answered", "look"} /\ job'.ask \in AskType
        /\ job'.todo \in Seq(Proc) /\ job'.got \in Seq(0..MaxBytes)
        /\ job'.outcome \in Outcome
    BY <1>2, <1>3, <1>4 DEF JobType, Outcome
  <2>3. job'.items \in SUBSET ItemType
    BY <1>2, <1>3 DEF JobType
  <2> QED
    BY <2>1, <2>2, <2>3 DEF JobType
<1>6. /\ known' \in [Proc -> 0..2 * Limit]
      /\ \A d \in Proc \ {c} : known'[d] = known[d]
      /\ known'[c] \in {known[c], Tells(item)}
  BY <1>1, <1>2
<1> HIDE <1>1
<1>7. /\ UNCHANGED <<procs, idOf, state, told, shutdown>>
      /\ UNCHANGED <<vars, spec, prog, mem, careful, num>>
  BY <1>1 DEF vars, registryVars
<1>8. Types'
  BY <1>5, <1>6, <1>7, RegistryUnchanged DEF IInv, Types, vars
<1>9. ProgInv' /\ MemInv'
  <2>1. UNCHANGED <<state, spec, prog, mem>>
    BY <1>7
  <2>2. ProgInv'
    BY <2>1 DEF IInv, ProgInv
  <2>3. \A d \in Proc : MemOK(d)'
    BY <2>1 DEF IInv, MemInv, MemOK
  <2> QED
    BY <2>2, <2>3 DEF MemInv
<1>10. \A d : ~Reads(d)'
  BY <1>3 DEF Reads
<1>11. \A d \in Proc : Reads(d) => state[d] # "none"
  <2>1. job.phase = "reading" => job.todo[1] \in Proc
    BY <1>4
  <2> QED
    BY <2>1, Started DEF Reads
<1>12. FileInv'
  <2>1. UNCHANGED <<state, spec, prog, file, clash>>
    BY <1>7
  <2> SUFFICES ASSUME NEW d \in Proc PROVE FileOK(d)'
    BY DEF FileInv
  <2>2. FileOK(d)
    BY DEF IInv, FileInv
  <2>3. (prog[d].alive \/ state[d] = "none") /\ ~clash[d] /\ spec[d].mode = "tempfile"
          => file[d].offset = prog[d].n
    BY <1>11, <2>2 DEF FileOK
  <2> QED
    BY <2>1, <2>2, <2>3 DEF FileOK
<1>13. ReadInv'
  BY <1>3, <1>10 DEF ReadInv
<1>14. JobInv'
  <2>1. job'.phase = "look" => Len(job.todo) > 1 /\ job.ask.what = "result"
    <3>1. /\ job.ask.what \in {"result", "data"}
          /\ job.ask.what = "data" => Len(job.todo) <= 1
      BY DEF IInv, JobInv
    <3>2. job'.phase = "look" => Len(job.todo) > 1
      <4>1. job'.phase = "look" => Len(job.todo) # 1
        BY <1>3
      <4>2. \A n \in Nat : n > 0 /\ n # 1 => n > 1
        OBVIOUS
      <4>3. Len(job.todo) \in Nat /\ Len(job.todo) > 0
        BY <1>4
      <4> QED
        BY <4>1, <4>2, <4>3, Zenon
    <3> QED
      BY <1>4, <3>1, <3>2
  <2>2. job'.phase = "look" =>
          \A d \in Proc : Told(d, job.ask.start, job.ask.stop)'
    <3>1. job'.phase = "look" => job.ask.start = 0 /\ job.ask.stop = None
      BY <2>1 DEF IInv, JobInv
    <3> QED
      BY <1>6, <1>3, <3>1, CaptureAssumption DEF Told
  <2>3. \A i \in 1..Len(job'.todo) : \E id \in ProcId : procs[id] = job'.todo[i]
    <3>1. \A i \in 1..Len(job.todo) - 1 : i + 1 \in 1..Len(job.todo)
      BY <1>4
    <3> QED
      BY <1>3, <1>4, <3>1 DEF IInv, JobInv
  <2>4. job'.phase = "look" => job'.todo[1] \in Proc
    BY <1>3, <1>4, <2>1
  <2>5. job'.ask.what = "data" => Len(job'.todo) <= 1
    BY <1>3, <1>4 DEF IInv, JobInv
  <2>6. job'.phase = "look" => Len(job'.todo) > 0
    BY <1>3, <1>4, <2>1
  <2>7. job'.phase = "answered" => job'.todo = <<>>
    <3>1. job'.phase = "answered" => Len(job'.todo) = 0
      BY <1>3, <1>4
    <3>2. \A t \in Seq(Proc) : Len(t) = 0 => t = <<>>
      OBVIOUS
    <3> QED
      BY <1>3, <1>4, <3>1, <3>2
  <2> QED
    BY <1>3, <1>7, <2>1, <2>2, <2>3, <2>4, <2>5, <2>6, <2>7 DEF IInv, JobInv
<1>15. ItemsInv'
  <2>1. \A i : ItemOK(i) => ItemOK(i)'
    BY <1>3, <1>7 DEF ItemOK, Settled
  <2> QED
    BY <1>3, <2>1 DEF IInv, ItemsInv
<1>16. KnownInv'
  <2>1. \A d : OwnLength(d)' = OwnLength(d)
    BY <1>7 DEF OwnLength
  <2> QED
    BY <1>6, <2>1 DEF IInv, KnownInv
<1>17. PanicInv'
  BY <1>3 DEF PanicInv
<1> QED
  BY <1>8, <1>9, <1>12, <1>13, <1>14, <1>15, <1>16, <1>17 DEF IInv

\* The range that the request being served asks of process c, and what a client
\* that was told of it can rely on.
LEMMA AskedRange ==
  ASSUME IInv, NEW c \in Proc, job.phase \in {"look", "reading"}, job.todo[1] = c
  PROVE  /\ AskStart \in Nat
         /\ ~ToEnd => Unsigned(job.ask.stop) \in Nat /\ Exact \in Nat
         /\ job.ask.what = "result" => AskStart = 0 /\ ToEnd
         /\ careful[c] /\ ~lost
              => /\ AskStart <= OwnLength(c) /\ AskStart < Limit
                 /\ ~ToEnd => /\ AskStart <= Unsigned(job.ask.stop)
                              /\ Unsigned(job.ask.stop) <= OwnLength(c)
                              /\ Unsigned(job.ask.stop) < Limit
                              /\ Exact = Unsigned(job.ask.stop) - AskStart
<1> DEFINE start == job.ask.start
           stop == job.ask.stop
<1>1. start \in Position /\ stop \in Position \cup {None}
  BY DEF IInv, Types, JobType, AskType
<1>2. AskStart \in Nat /\ (start >= 0 => AskStart = start /\ start < Limit)
  BY <1>1, PositionValue DEF AskStart
<1>3. ~ToEnd => /\ stop \in Position /\ Unsigned(stop) \in Nat
                /\ stop >= 0 => Unsigned(stop) = stop /\ stop < Limit
  BY <1>1, PositionValue DEF ToEnd
<1>4. ~ToEnd => Exact \in Nat
  BY <1>2, <1>3 DEF Exact
<1>5. job.ask.what = "result" => AskStart = 0 /\ ToEnd
  BY <1>2 DEF IInv, JobInv, ToEnd
<1>6. /\ known[c] \in Nat /\ OwnLength(c) \in Nat
      /\ ~lost => known[c] <= OwnLength(c)
  <2>1. Len(file[c].data) \in Nat /\ Len(mem[c].buf) \in Nat
    BY DEF IInv, Types, FileType, MemType
  <2> QED
    BY <2>1, CaptureAssumption DEF IInv, Types, KnownInv, OwnLength
<1>7. careful[c] => /\ start \in 0..known[c]
                    /\ ~ToEnd => stop \in start..known[c]
  BY DEF IInv, JobInv, Told, ToEnd
<1>8. careful[c] /\ ~lost => /\ AskStart = start /\ start < Limit
                             /\ start \in Nat /\ start <= OwnLength(c)
  BY <1>2, <1>6, <1>7
<1>9. careful[c] /\ ~lost /\ ~ToEnd => /\ Unsigned(stop) = stop /\ stop < Limit
                                       /\ stop \in Nat /\ start <= stop
                                       /\ stop <= OwnLength(c)
  BY <1>3, <1>6, <1>7, <1>8
<1>10. careful[c] /\ ~lost /\ ~ToEnd => Exact = Unsigned(stop) - AskStart
  <2> SUFFICES ASSUME careful[c], ~lost, ~ToEnd PROVE Exact = Unsigned(stop) - AskStart
    OBVIOUS
  <2>1. Unsigned(stop) \in Nat /\ AskStart <= Unsigned(stop)
    BY <1>8, <1>9
  <2> HIDE DEF stop
  <2>2. Exact = IF AskStart < Unsigned(stop) THEN Unsigned(stop) - AskStart ELSE 0
    BY DEF Exact, stop
  <2> QED
    BY <1>2, <2>1, <2>2
<1> QED
  BY <1>2, <1>3, <1>4, <1>5, <1>8, <1>9, <1>10

\* What an item tells of the length.
LEMMA TellsResult ==
  ASSUME NEW c \in Proc, NEW d \in Proc, NEW start \in Nat,
         NEW data \in Seq(0..MaxBytes), NEW n \in Nat
  PROVE  /\ Bytes(c, d, start, data) \in ItemType
         /\ Tells(Bytes(c, d, start, data)) = IF data # <<>> THEN start + Len(data) ELSE 0
         /\ Detached(c, n) \in ItemType /\ Tells(Detached(c, n)) = n
         /\ FdError(c) \in ItemType /\ Tells(FdError(c)) = 0
         /\ Foreign(c) \in ItemType /\ Tells(Foreign(c)) = 0
  BY DEF ItemType, BytesType, LengthType, OtherType, Bytes, Detached, FdError, Foreign,
     Tells

\* No file and no buffer is longer than a position may be.
LEMMA LengthBound ==
  ASSUME IInv, NEW c \in Proc
  PROVE  /\ Len(file[c].data) \in 0..2 * Limit
         /\ file[c].offset \in 0..2 * Limit
         /\ Len(mem[c].buf) \in 0..2 * Limit
<1>1. /\ prog[c].n \in Nat /\ prog[c].n <= MaxBytes
      /\ Limit \in Nat /\ MaxBytes \in Nat /\ MaxBytes < Limit
  BY CaptureAssumption DEF IInv, Types
<1>2. /\ file[c].offset \in Nat /\ Len(file[c].data) \in Nat
      /\ Len(mem[c].buf) \in Nat /\ Len(mem[c].pipe) \in Nat
  BY DEF IInv, Types, FileType, MemType
<1>3. FileOK(c) /\ MemOK(c)
  BY DEF IInv, FileInv, MemInv
<1>4. file[c].offset <= Limit + prog[c].n /\ Len(file[c].data) <= Limit + prog[c].n
  BY <1>3 DEF FileOK
<1>5. Len(mem[c].buf) <= prog[c].n
  <2>1. \/ Len(mem[c].buf) = 0
        \/ Len(mem[c].buf) + Len(mem[c].pipe) = prog[c].n
    BY <1>3 DEF MemOK
  <2>2. \A a, b, n \in Nat : a = 0 \/ a + b = n => a <= n
    OBVIOUS
  <2> QED
    BY <1>1, <1>2, <2>1, <2>2, Zenon
<1>6. file[c].offset \in 0..2 * Limit /\ Len(file[c].data) \in 0..2 * Limit
  BY <1>1, <1>2, <1>4
<1>7. Len(mem[c].buf) \in 0..2 * Limit
  BY <1>1, <1>2, <1>5
<1> QED
  BY <1>6, <1>7

\* The process that is looked at has its own file until a read fails.
LEMMA OwnFile ==
  ASSUME IInv, NEW c \in Proc, job.phase \in {"look", "reading"}, job.todo[1] = c,
         spec[c].mode = "tempfile", ~lost
  PROVE  Opened(c) = c
<1>1. 1 \in 1..Len(job.todo)
  BY DEF IInv, Types, JobType, JobInv
<1>2. InUse(c)
  BY <1>1 DEF IInv, JobInv, InUse
<1> QED
  BY <1>2 DEF IInv, HeldInv

\* A number refers to a capture or to none.
LEMMA OpenedType ==
  ASSUME IInv, NEW c \in Proc
  PROVE  Opened(c) \in Proc \cup {None}
  BY DEF IInv, Types, Opened

\* The length of captured data is the item, or an error or another file's length.
LEMMA LookLengthKeeps ==
  ASSUME IInv, NEW c \in Proc, LookLength(c) \/ LookLost(c)
  PROVE  IInv'
<1>1. /\ job.phase = "look" /\ job.todo[1] = c
      /\ UNCHANGED <<file, clash, open, lost, num, mem, spec, vars, careful>>
      /\ spec[c].mode \in {"tempfile", "memory"}
      /\ \E item \in {Detached(c, CapturedLength(c)), FdError(c), Foreign(c)} :
           ItemDone(item)
  BY DEF LookLength, LookLost, Looks, ItemDone
<1>2. PICK item \in {Detached(c, CapturedLength(c)), FdError(c), Foreign(c)} :
        ItemDone(item)
  BY <1>1
<1>3. /\ CapturedLength(c) \in 0..2 * Limit
      /\ ~lost => CapturedLength(c) = OwnLength(c)
      /\ OwnLength(c) \in Nat /\ Limit \in Nat
  <2>1. /\ Limit \in Nat /\ 0 \in 0..2 * Limit /\ None \notin Proc
        /\ Opened(c) \in Proc \cup {None}
    BY CaptureAssumption, RegistryAssumption, OpenedType
  <2>2. \A d \in Proc : /\ Len(file[d].data) \in 0..2 * Limit
                        /\ Len(mem[d].buf) \in 0..2 * Limit
    BY LengthBound
  <2>3. CASE spec[c].mode = "tempfile"
    <3>1. ~lost => Opened(c) = c
      BY <1>1, <2>3, OwnFile
    <3> QED
      BY <2>1, <2>2, <2>3, <3>1 DEF CapturedLength, FileLength, IsFile, OwnLength
  <2>4. CASE spec[c].mode # "tempfile"
    BY <2>1, <2>2, <2>4 DEF CapturedLength, OwnLength
  <2> QED
    BY <2>3, <2>4
<1>4. /\ item \in ItemType /\ Tells(item) \in 0..2 * Limit
      /\ ~lost' => Tells(item) <= OwnLength(c)
  <2>1. <<>> \in Seq(0..MaxBytes) /\ CapturedLength(c) \in Nat /\ 0 \in Nat
    BY <1>3
  <2>2. /\ Detached(c, CapturedLength(c)) \in ItemType
        /\ Tells(Detached(c, CapturedLength(c))) = CapturedLength(c)
        /\ FdError(c) \in ItemType /\ Tells(FdError(c)) = 0
        /\ Foreign(c) \in ItemType /\ Tells(Foreign(c)) = 0
    BY <2>1, TellsResult, Zenon
  <2>3. item \in ItemType /\ Tells(item) \in {0, CapturedLength(c)}
    BY <1>2, <2>2
  <2> QED
    BY <1>1, <1>3, <2>3
<1>5. item.c = c /\ item.type # "bytes"
  BY <1>2 DEF Detached, FdError, Foreign
<1>6. ItemOK(item) /\ \A d : ~Reads(d)
  BY <1>1, <1>5 DEF ItemOK, Reads
<1>7. /\ open' \in [Number -> Proc \cup {None}] /\ lost' \in BOOLEAN /\ (lost => lost')
      /\ StartedInv' /\ HeldInv' /\ BlameInv'
  BY <1>1, TableFrame DEF IInv, Types, vars, registryVars, BlameInv
<1> QED
  BY <1>1, <1>2, <1>4, <1>5, <1>6, <1>7, ItemDoneKeeps

\* A panic is for no request of a range that was told.
LEMMA PanicKeeps ==
  ASSUME IInv, NEW c \in Proc, job.phase = "look", job.todo[1] = c, Panic,
         lost \/ ~careful[c]
  PROVE  IInv'
<1>1. /\ job' = [job EXCEPT !.phase = "panicked"]
      /\ UNCHANGED <<vars, spec, prog, file, mem, known, careful, clash, num, open, lost>>
  BY DEF Panic, tableVars
<1>2. job \in JobType
  BY DEF IInv, Types
<1>3. /\ job' \in JobType /\ job'.phase = "panicked" /\ job'.ask = job.ask
      /\ job'.todo = job.todo /\ job'.items = job.items
  BY <1>1, <1>2 DEF JobType
<1>4. UNCHANGED <<procs, idOf, state, told, shutdown>>
  BY <1>1 DEF vars, registryVars
<1>5. Types'
  BY <1>1, <1>3, RegistryUnchanged DEF IInv, Types, vars
<1>6. ProgInv' /\ MemInv'
  BY <1>1, <1>4 DEF IInv, ProgInv, MemInv, MemOK
<1>7. \A d : ~Reads(d) /\ ~Reads(d)'
  BY <1>3 DEF Reads
<1>8. FileInv' /\ ReadInv'
  BY <1>1, <1>3, <1>4, <1>7 DEF IInv, FileInv, FileOK, ReadInv
<1>9. JobInv'
  BY <1>1, <1>3, <1>4 DEF IInv, JobInv, Told
<1>10. ItemsInv' /\ KnownInv'
  BY <1>1, <1>3, <1>4 DEF IInv, ItemsInv, ItemOK, Settled, KnownInv, OwnLength
<1>11. StartedInv' /\ HeldInv'
  BY <1>1, <1>4, TableFrame DEF IInv
<1>12. BlameInv' /\ PanicInv'
  BY <1>1, <1>3 DEF IInv, BlameInv, PanicInv
<1> QED
  BY <1>5, <1>6, <1>8, <1>9, <1>10, <1>11, <1>12 DEF IInv

\* A slice of the buffer is the item, or the range is out of it.
LEMMA LookMemoryKeeps ==
  ASSUME IInv, NEW c \in Proc, LookMemory(c)
  PROVE  IInv'
<1> DEFINE buf == mem[c].buf
           stop == AskStop(Len(buf))
           data == Slice(buf, AskStart, stop)
<1>1. job.phase = "look" /\ job.todo[1] = c /\ spec[c].mode = "memory"
  BY DEF LookMemory, Looks
<1>2. /\ MemOK(c) /\ buf \in Seq(1..MaxBytes) /\ Len(buf) \in Nat
      /\ OwnLength(c) = Len(buf) /\ Len(buf) \in 0..2 * Limit
  BY <1>1, LengthBound DEF IInv, Types, MemInv, MemType, OwnLength
<1>3. AskStart \in Nat /\ stop \in Nat
  BY <1>1, <1>2, AskedRange DEF AskStop, ToEnd
<1>4. CASE AskStart <= stop /\ stop <= Len(buf)
  <2>1. /\ ItemDone(Bytes(c, c, AskStart, data))
        /\ UNCHANGED <<file, clash, open, lost, num, mem, spec, vars, careful>>
    BY <1>3, <1>4 DEF LookMemory, ItemDone
  <2>2. AskStart \in 0..Len(buf) /\ stop \in AskStart..Len(buf)
    BY <1>2, <1>3, <1>4
  <2> HIDE DEF buf, stop
  <2>3. /\ data \in Seq(1..MaxBytes) /\ Len(data) = stop - AskStart
        /\ \A i \in 1..stop - AskStart : data[i] = buf[AskStart + i]
    BY <1>2, <2>2, SliceResult
  <2> HIDE DEF data
  <2>4. data \in Seq(0..MaxBytes)
    <3>1. 1..MaxBytes \subseteq 0..MaxBytes
      BY CaptureAssumption
    <3> QED
      BY <2>3, <3>1, SeqSubset
  <2>5. /\ Bytes(c, c, AskStart, data) \in ItemType
        /\ Tells(Bytes(c, c, AskStart, data)) \in {0, stop}
    <3>1. /\ Bytes(c, c, AskStart, data) \in ItemType
          /\ Tells(Bytes(c, c, AskStart, data))
               = IF data # <<>> THEN AskStart + Len(data) ELSE 0
      BY <1>3, <2>4, TellsResult
    <3>2. AskStart + Len(data) = stop
      BY <1>3, <2>3
    <3> QED
      BY <3>1, <3>2
  <2>6. \A i \in 1..Len(data) : data[i] = AskStart + i
    <3>1. \A i \in 1..Len(data) : AskStart + i \in 1..Len(buf)
      BY <1>2, <1>3, <1>4, <2>3
    <3> QED
      BY <1>2, <2>3, <3>1 DEF MemOK, buf
  <2>7. job.ask.what = "result" /\ Settled(c) => Len(data) = prog[c].n /\ AskStart = 0
    <3> SUFFICES ASSUME job.ask.what = "result", Settled(c)
                 PROVE  Len(data) = prog[c].n /\ AskStart = 0
      OBVIOUS
    <3>1. AskStart = 0 /\ ToEnd
      BY <1>1, AskedRange
    <3>2. stop = Len(buf)
      BY <3>1 DEF stop, AskStop, ToEnd
    <3>3. Len(mem[c].pipe) = 0 /\ Len(buf) + Len(mem[c].pipe) = prog[c].n
      BY <1>1, <1>2 DEF Settled, MemOK, buf
    <3> QED
      BY <1>2, <2>3, <3>1, <3>2, <3>3
  <2> DEFINE item == Bytes(c, c, AskStart, data)
  <2>8. /\ item.c = c /\ item.type = "bytes" /\ item.from = c
        /\ item.data = data /\ item.start = AskStart
    BY DEF Bytes
  <2>9. item \in ItemType /\ Tells(item) \in 0..2 * Limit /\ Tells(item) <= OwnLength(c)
    BY <1>2, <1>3, <1>4, <2>5, CaptureAssumption
  <2> HIDE DEF item
  <2>10. ItemOK(item)
    BY <2>6, <2>7, <2>8 DEF ItemOK
  <2>11. ItemDone(item) /\ \A d : ~Reads(d)
    BY <1>1, <2>1 DEF item, Reads
  <2>12. /\ open' \in [Number -> Proc \cup {None}] /\ lost' \in BOOLEAN /\ (lost => lost')
         /\ StartedInv' /\ HeldInv' /\ BlameInv'
    BY <2>1, TableFrame DEF IInv, Types, vars, registryVars, BlameInv
  <2> QED
    BY <1>1, <2>1, <2>8, <2>9, <2>10, <2>11, <2>12, ItemDoneKeeps
<1>5. CASE ~(AskStart <= stop /\ stop <= Len(buf))
  <2>1. Panic
    BY <1>3, <1>5 DEF LookMemory
  <2>2. lost \/ ~careful[c]
    <3> SUFFICES ASSUME careful[c], ~lost PROVE FALSE
      OBVIOUS
    <3>1. AskStart <= Len(buf)
      BY <1>1, <1>2, AskedRange
    <3>2. CASE ToEnd
      BY <1>2, <1>5, <3>1, <3>2 DEF AskStop, ToEnd
    <3>3. CASE ~ToEnd
      <4>1. stop = Unsigned(job.ask.stop)
        BY <3>3 DEF AskStop, ToEnd
      <4> HIDE DEF stop
      <4>2. AskStart <= stop /\ stop <= Len(buf)
        BY <1>1, <1>2, <3>3, <4>1, AskedRange
      <4> QED
        BY <1>5, <4>2
    <3> QED
      BY <3>2, <3>3
  <2> QED
    BY <1>1, <2>1, <2>2, PanicKeeps
<1> QED
  BY <1>4, <1>5

\* A request that fails closes the fd.
LEMMA CloseKeeps ==
  ASSUME IInv, NEW c \in Proc, job.phase \in {"look", "reading"}, job.todo[1] = c,
         CloseOnError(c), lost \/ ~careful[c] \/ clash[c],
         \A d \in Proc : Reads(d) /\ ~clash[d] /\ prog[d].alive
                          => file[d].offset = prog[d].n
  PROVE  IInv'
<1>1. /\ Close(c) /\ lost' = TRUE /\ ItemDone(FdError(c))
      /\ UNCHANGED <<file, clash, vars, careful, state>>
  BY DEF CloseOnError, ItemDone, vars, registryVars
<1>2. FdError(c) \in ItemType /\ Tells(FdError(c)) = 0 /\ 0 \in 0..2 * Limit
  <2>1. <<>> \in Seq(0..MaxBytes) /\ 0 \in 0..2 * Limit
    BY CaptureAssumption
  <2> QED
    BY <2>1, TellsResult, Zenon
<1>3. FdError(c).c = c /\ ItemOK(FdError(c))
  BY DEF FdError, ItemOK
<1>4. open' \in [Number -> Proc \cup {None}] /\ StartedInv'
  BY <1>1, CloseTypes DEF IInv
<1>5. HeldInv' /\ BlameInv'
  BY <1>1 DEF IInv, HeldInv, BlameInv
<1> QED
  BY <1>1, <1>2, <1>3, <1>4, <1>5, ItemDoneKeeps

\* The seek to where a read is to start.
LEMMA SeekKeeps ==
  ASSUME IInv, NEW c \in Proc, Seek(c)
  PROVE  IInv'
<1>1. Opened(c) \in Proc
  BY OpenedType DEF Seek
<1> PICK d \in Proc : d = Opened(c)
  BY <1>1
<1>2. /\ job.phase = "look" /\ job.todo[1] = c /\ spec[c].mode = "tempfile"
      /\ d # None
  BY RegistryAssumption DEF Seek, Looks
<1>3. AskStart \in Nat /\ Limit \in Nat
  BY <1>2, AskedRange, CaptureAssumption
<1>4. CASE (~IsFile(d) \/ AskStart >= Limit) /\ CloseOnError(c)
  <2>1. ~lost => d = c /\ IsFile(d)
    BY <1>2, OwnFile DEF IsFile
  <2>2. lost \/ ~careful[c]
    BY <1>2, <1>3, <1>4, <2>1, AskedRange
  <2>3. \A e : ~Reads(e)
    BY <1>2 DEF Reads
  <2> QED
    BY <1>2, <1>4, <2>2, <2>3, CloseKeeps
<1>5. CASE ~ToEnd /\ Exact >= Limit /\ Panic
  <2>1. lost \/ ~careful[c]
    <3> SUFFICES ASSUME careful[c], ~lost PROVE FALSE
      OBVIOUS
    <3>1. /\ Exact = Unsigned(job.ask.stop) - AskStart
          /\ Unsigned(job.ask.stop) \in Nat /\ Unsigned(job.ask.stop) < Limit
      BY <1>2, <1>5, AskedRange
    <3> QED
      BY <1>3, <1>5, <3>1
  <2> QED
    BY <1>2, <1>5, <2>1, PanicKeeps
<1>6. CASE /\ IsFile(d) /\ AskStart < Limit
           /\ SeekStart(d)
           /\ clash' = [clash EXCEPT ![d] =
                @ \/ (prog[d].alive /\ (~ToEnd \/ AskStart > Len(file[d].data)))]
           /\ job' = [job EXCEPT !.phase = "reading"]
           /\ UNCHANGED <<vars, spec, prog, mem, known, careful, tableVars>>
  <2>1. /\ file' \in [Proc -> FileType]
        /\ file'[d].offset = AskStart /\ file'[d].data = file[d].data
        /\ \A e \in Proc \ {d} : file'[e] = file[e]
    <3>1. file' = [file EXCEPT ![d].offset = AskStart] /\ file \in [Proc -> FileType]
      BY <1>6 DEF SeekStart, IInv, Types
    <3>2. file' \in [Proc -> FileType]
      BY <1>3, <3>1 DEF FileType
    <3> QED
      BY <3>1, <3>2 DEF FileType
  <2>2. /\ clash' \in [Proc -> BOOLEAN]
        /\ \A e \in Proc \ {d} : clash'[e] = clash[e]
        /\ ~clash'[d] => /\ ~clash[d]
                         /\ prog[d].alive => ToEnd /\ ~(AskStart > Len(file[d].data))
    <3> DEFINE disturbs == prog[d].alive /\ (~ToEnd \/ AskStart > Len(file[d].data))
    <3>1. disturbs \in BOOLEAN /\ clash \in [Proc -> BOOLEAN]
      BY DEF IInv, Types
    <3>2. clash' = [clash EXCEPT ![d] = @ \/ disturbs]
      BY <1>6
    <3>3. /\ clash' \in [Proc -> BOOLEAN]
          /\ \A e \in Proc \ {d} : clash'[e] = clash[e]
          /\ clash'[d] <=> (clash[d] \/ disturbs)
      <4> HIDE DEF disturbs
      <4> QED
        BY <3>1, <3>2, Zenon
    <3> QED
      BY <3>3
  <2>3. /\ job' \in JobType /\ job'.phase = "reading" /\ job'.ask = job.ask
        /\ job'.todo = job.todo /\ job'.got = job.got /\ job'.items = job.items
    <3>1. job \in JobType /\ job' = [job EXCEPT !.phase = "reading"]
      BY <1>6 DEF IInv, Types
    <3> QED
      BY <3>1 DEF JobType
  <2>4. /\ UNCHANGED <<vars, spec, prog, mem, known, careful, num, open, lost>>
        /\ UNCHANGED <<procs, idOf, state, told, shutdown>>
    BY <1>6 DEF vars, registryVars, tableVars
  <2>5. job.got = <<>>
    BY <1>2 DEF IInv, JobInv
  <2>6. AskStart' = AskStart /\ (ToEnd' <=> ToEnd)
    BY <2>3 DEF AskStart, ToEnd
  <2>7. Types'
    BY <2>1, <2>2, <2>3, <2>4, RegistryUnchanged DEF IInv, Types, vars
  <2>8. ProgInv' /\ MemInv'
    BY <2>4 DEF IInv, ProgInv, MemInv, MemOK
  <2>9. Reads(d)' /\ \A e \in Proc \ {d} : ~Reads(e) /\ ~Reads(e)'
    BY <1>2, <2>3, <2>4 DEF Reads, Opened
  <2>10. prog[d].n \in Nat /\ FileOK(d) /\ spec[d].mode = "tempfile"
    BY <1>2, <1>6, CaptureAssumption DEF IInv, Types, FileInv, IsFile
  <2>11. FileInv'
    <3>1. FileOK(d)'
      <4>1. AskStart <= Limit + prog[d].n
        BY <1>3, <1>6, <2>10
      <4>2. clash'[d] \/ ~clash[d]
        BY <2>2
      <4> QED
        BY <1>2, <2>1, <2>2, <2>4, <2>9, <2>10, <4>1, <4>2 DEF FileOK
    <3>2. \A e \in Proc \ {d} : FileOK(e)'
      BY <2>1, <2>2, <2>4, <2>9, FileFrame DEF IInv, FileInv
    <3> QED
      BY <3>1, <3>2 DEF FileInv
  <2>12. ReadInv'
    <3>1. Len(job'.got) = 0
      BY <2>3, <2>5
    <3>2. ~clash'[d] /\ prog[d].alive => ToEnd /\ AskStart <= prog[d].n
      BY <1>2, <1>3, <2>2, <2>10 DEF FileOK
    <3>3. ReadOK(d)'
      BY <1>3, <2>1, <2>4, <2>6, <2>10, <3>1, <3>2 DEF ReadOK
    <3>4. job'.todo[1] = c /\ spec'[c].mode = "tempfile"
      BY <1>2, <2>3, <2>4
    <3>5. Opened(c)' = Opened(c)
      BY <2>4 DEF Opened
    <3>6. \A e \in Proc : Reads(e)' => ReadOK(e)'
      BY <2>9, <3>3
    <3>7. Opened(job.todo[1])' \in Proc /\ spec'[job'.todo[1]].mode = "tempfile"
      BY <3>4, <3>5
    <3> QED
      BY <3>6, <3>7 DEF ReadInv
  <2>13. JobInv'
    BY <1>2, <2>3, <2>4 DEF IInv, JobInv, Told
  <2>14. ItemsInv'
    <3>1. \A e \in Proc : ~clash'[e] => ~clash[e]
      BY <2>2
    <3>2. \A item \in job.items : item.type = "bytes" => item.from \in Proc
      BY DEF IInv, Types, JobType, ItemType, BytesType, LengthType, OtherType
    <3> QED
      BY <2>3, <2>4, <3>1, <3>2 DEF IInv, ItemsInv, ItemOK, Settled
  <2>15. KnownInv'
    BY <2>1, <2>4 DEF IInv, KnownInv, OwnLength
  <2>16. StartedInv' /\ HeldInv'
    BY <2>4, TableFrame DEF IInv
  <2>17. BlameInv' /\ PanicInv'
    <3>1. \A e \in Proc : clash[e] => clash'[e]
      BY <2>2 DEF IInv, Types
    <3> QED
      BY <2>3, <2>4, <3>1 DEF IInv, BlameInv, PanicInv
  <2> QED
    BY <2>7, <2>8, <2>11, <2>12, <2>13, <2>14, <2>15, <2>16, <2>17 DEF IInv
<1> QED
  BY <1>4, <1>5, <1>6 DEF Seek

\* A read of a part of the file.
LEMMA ReadSomeKeeps ==
  ASSUME IInv, NEW c \in Proc, ReadSome(c)
  PROVE  IInv'
<1>1. Opened(c) \in Proc
  BY DEF ReadSome, Reading, IInv, ReadInv
<1> PICK d \in Proc : d = Opened(c)
  BY <1>1
<1> DEFINE data == file[d].data
           offset == file[d].offset
           got == job.got
<1>2. PICK k \in 1..Left(d) :
        /\ job' = [job EXCEPT !.got = @ \o Slice(data, offset, offset + k)]
        /\ file' = [file EXCEPT ![d].offset = @ + k]
  BY DEF ReadSome
<1> DEFINE part == Slice(data, offset, offset + k)
           all == got \o part
<1>3. /\ job.phase = "reading" /\ job.todo[1] = c
      /\ UNCHANGED <<vars, spec, prog, mem, known, careful, clash, num, open, lost>>
      /\ UNCHANGED <<procs, idOf, state, told, shutdown>>
      /\ Reads(d)
  BY DEF ReadSome, Reading, Reads, vars, registryVars, tableVars, IInv, ReadInv
<1>4. /\ data \in Seq(0..MaxBytes) /\ offset \in Nat /\ got \in Seq(0..MaxBytes)
      /\ Len(data) \in Nat /\ Len(got) \in Nat
  BY <1>3 DEF IInv, Types, FileType, JobType
<1>5. /\ k \in Nat /\ k > 0 /\ offset + k <= Len(data)
      /\ offset \in 0..Len(data) /\ offset + k \in offset..Len(data)
  BY <1>4 DEF Left
<1>6. AskStart \in Nat
  BY <1>3, AskedRange
<1>7. ReadOK(d) /\ FileOK(d)
  BY <1>3 DEF IInv, ReadInv, FileInv
<1>8. /\ part \in Seq(0..MaxBytes) /\ Len(part) = k
      /\ \A i \in 1..k : part[i] = data[offset + i]
  <2> HIDE DEF data, offset
  <2>1. /\ part \in Seq(0..MaxBytes) /\ Len(part) = (offset + k) - offset
        /\ \A i \in 1..(offset + k) - offset : part[i] = data[offset + i]
    BY <1>4, <1>5, SliceResult
  <2>2. (offset + k) - offset = k
    BY <1>4, <1>5
  <2> QED
    BY <2>1, <2>2
<1> HIDE DEF part
<1>9. /\ all \in Seq(0..MaxBytes) /\ Len(all) = Len(got) + k
      /\ \A i \in 1..Len(got) + k :
           all[i] = IF i <= Len(got) THEN got[i] ELSE part[i - Len(got)]
  <2> HIDE DEF got
  <2>1. /\ all \in Seq(0..MaxBytes) /\ Len(all) = Len(got) + Len(part)
        /\ \A i \in 1..Len(got) + Len(part) :
             all[i] = IF i <= Len(got) THEN got[i] ELSE part[i - Len(got)]
    BY <1>4, <1>8, ConcatResult
  <2> QED
    BY <1>8, <2>1
<1> HIDE DEF all
<1>10. /\ job' \in JobType /\ job'.phase = job.phase /\ job'.ask = job.ask
      /\ job'.todo = job.todo /\ job'.got = all /\ job'.items = job.items
  <2>1. job \in JobType /\ job' = [job EXCEPT !.got = all]
    BY <1>2 DEF all, part, IInv, Types
  <2> QED
    BY <1>9, <2>1 DEF JobType
<1>11. /\ file' \in [Proc -> FileType]
       /\ file'[d].offset = offset + k /\ file'[d].data = data
       /\ \A e \in Proc \ {d} : file'[e] = file[e]
  <2>1. /\ file' = [file EXCEPT ![d].offset = offset + k] /\ file \in [Proc -> FileType]
        /\ offset + k \in Nat
    BY <1>2, <1>4, <1>5 DEF IInv, Types
  <2>2. file' \in [Proc -> FileType]
    BY <2>1 DEF FileType
  <2> QED
    BY <2>1, <2>2 DEF FileType
<1> HIDE <1>2 DEF data, offset, got
<1>12. Types'
  BY <1>3, <1>10, <1>11, RegistryUnchanged DEF IInv, Types, vars
<1>13. ProgInv' /\ MemInv'
  BY <1>3 DEF IInv, ProgInv, MemInv, MemOK
<1>14. /\ AskStart' = AskStart /\ (ToEnd' <=> ToEnd)
       /\ \A e : Reads(e)' <=> Reads(e)
  BY <1>3, <1>10 DEF AskStart, ToEnd, Reads, Opened
<1>15. FileInv'
  <2>1. FileOK(d)'
    <3>1. Len(data) <= Limit + prog[d].n
      BY <1>7 DEF FileOK, data
    <3>2. offset + k <= Limit + prog[d].n
      <4>1. prog[d].n \in Nat /\ Limit \in Nat
        BY CaptureAssumption DEF IInv, Types
      <4> QED
        BY <1>4, <1>5, <3>1, <4>1
    <3>3. spec[d].mode = "tempfile"
      BY <1>7 DEF ReadOK
    <3> QED
      BY <1>3, <1>7, <1>11, <1>14, <3>2, <3>3 DEF FileOK, data
  <2>2. \A e \in Proc \ {d} : FileOK(e)'
    BY <1>3, <1>11, <1>14, FileFrame DEF IInv, FileInv
  <2> QED
    BY <2>1, <2>2 DEF FileInv
<1>16. ReadInv'
  <2>1. AskStart + Len(all) <= offset + k
    <3>1. AskStart + Len(got) <= offset
      BY <1>7 DEF ReadOK, got, offset
    <3> QED
      BY <1>4, <1>5, <1>6, <1>9, <3>1
  <2>2. ~clash[d] => offset + k = AskStart + Len(all)
    <3>1. ~clash[d] => offset = AskStart + Len(got)
      BY <1>7 DEF ReadOK, got, offset
    <3>2. offset = AskStart + Len(got) => offset + k = AskStart + Len(all)
      BY <1>4, <1>5, <1>6, <1>9
    <3> QED
      BY <3>1, <3>2, Zenon
  <2>3. ~clash[d] => Len(data) = prog[d].n /\ \A i \in 1..Len(data) : data[i] = i
    BY <1>7 DEF ReadOK, FileOK, data
  <2>4. ~clash[d] => \A i \in 1..Len(all) : all[i] = AskStart + i
    <3> SUFFICES ASSUME ~clash[d], NEW i \in 1..Len(got) + k PROVE all[i] = AskStart + i
      BY <1>9
    <3>1. offset = AskStart + Len(got) /\ \A j \in 1..Len(got) : got[j] = AskStart + j
      BY <1>7 DEF ReadOK, got, offset
    <3>2. CASE i <= Len(got)
      BY <1>4, <1>5, <1>9, <3>1, <3>2
    <3>3. CASE i > Len(got)
      <4>1. i - Len(got) \in 1..k /\ offset + (i - Len(got)) \in 1..Len(data)
        BY <1>4, <1>5, <3>3
      <4>2. all[i] = part[i - Len(got)]
        BY <1>4, <1>9, <3>3
      <4>3. part[i - Len(got)] = offset + (i - Len(got))
        BY <1>8, <2>3, <4>1
      <4> QED
        BY <1>4, <1>6, <3>1, <4>2, <4>3
    <3> QED
      BY <1>4, <3>2, <3>3
  <2>5. ~clash[d] /\ prog[d].alive => ToEnd /\ offset + k <= prog[d].n
    BY <1>5, <1>7, <2>3 DEF ReadOK
  <2>6. spec[d].mode = "tempfile"
    BY <1>7 DEF ReadOK
  <2>7. ReadOK(d)'
    BY <1>3, <1>5, <1>10, <1>11, <1>14, <2>1, <2>2, <2>4, <2>5, <2>6 DEF ReadOK
  <2>8. \A e \in Proc \ {d} : ~Reads(e)
    BY <1>3 DEF Reads
  <2>9. Opened(job.todo[1])' \in Proc /\ spec'[job'.todo[1]].mode = "tempfile"
    <3>1. job'.todo[1] = c /\ spec' = spec /\ num' = num /\ open' = open
      BY <1>3, <1>10
    <3>2. Opened(c)' = Opened(c)
      BY <3>1 DEF Opened
    <3>3. spec[c].mode = "tempfile"
      BY <1>3 DEF IInv, ReadInv
    <3> QED
      BY <3>1, <3>2, <3>3
  <2>10. \A e \in Proc : Reads(e)' => ReadOK(e)'
    BY <1>14, <2>7, <2>8
  <2> QED
    BY <2>9, <2>10 DEF ReadInv
<1>17. JobInv'
  BY <1>3, <1>10 DEF IInv, JobInv, Told
<1>18. ItemsInv'
  BY <1>3, <1>10 DEF IInv, ItemsInv, ItemOK, Settled
<1>19. KnownInv'
  BY <1>3, <1>11 DEF IInv, KnownInv, OwnLength, data
<1>20. StartedInv' /\ HeldInv'
  BY <1>3, TableFrame DEF IInv
<1>21. BlameInv' /\ PanicInv'
  BY <1>3, <1>10 DEF IInv, BlameInv, PanicInv
<1> QED
  BY <1>12, <1>13, <1>15, <1>16, <1>17, <1>18, <1>19, <1>20, <1>21 DEF IInv

\* The end of a read, with all that was asked for.
LEMMA ReadEndKeeps ==
  ASSUME IInv, NEW c \in Proc, ReadEnd(c)
  PROVE  IInv'
<1>1. Opened(c) \in Proc
  BY DEF ReadEnd, Reading, IInv, ReadInv
<1> PICK d \in Proc : d = Opened(c)
  BY <1>1
<1> DEFINE item == Bytes(c, d, AskStart, job.got)
<1>2. /\ Reads(d) /\ job.phase = "reading" /\ job.todo[1] = c
      /\ ItemDone(item)
      /\ UNCHANGED <<file, clash, open, lost, num, mem, spec, vars, careful>>
      /\ ToEnd => Left(d) <= 0
  BY DEF ReadEnd, Reading, Reads, ItemDone, IInv, ReadInv
<1>3. ReadOK(d) /\ FileOK(d)
  BY <1>2 DEF IInv, ReadInv, FileInv
<1>4. /\ job.got \in Seq(0..MaxBytes) /\ file[d].offset \in Nat
      /\ Len(file[d].data) \in Nat /\ Len(job.got) \in Nat /\ prog[d].n \in Nat
      /\ Len(file[d].data) \in 0..2 * Limit /\ Limit \in Nat
  <2>1. Len(file[d].data) \in 0..2 * Limit
    BY LengthBound
  <2>2. job.got \in Seq(0..MaxBytes) /\ Len(job.got) \in Nat
    BY DEF IInv, Types, JobType
  <2>3. file[d].offset \in Nat /\ Len(file[d].data) \in Nat /\ prog[d].n \in Nat
    BY DEF IInv, Types, FileType
  <2> QED
    BY <2>1, <2>2, <2>3, CaptureAssumption
<1>5. AskStart \in Nat
  BY <1>2, AskedRange
<1>6. /\ spec[d].mode = "tempfile" /\ spec[c].mode = "tempfile"
      /\ ~lost => d = c
  BY <1>2, <1>3, OwnFile DEF ReadOK, IInv, ReadInv
<1>7. /\ item \in ItemType
      /\ Tells(item) = IF job.got # <<>> THEN AskStart + Len(job.got) ELSE 0
  BY <1>2, <1>4, <1>5, TellsResult
<1>8. /\ item.c = c /\ item.type = "bytes" /\ item.from = d
      /\ item.data = job.got /\ item.start = AskStart
  BY DEF Bytes
<1> HIDE DEF item
<1>9. Tells(item) \in 0..2 * Limit /\ (~lost => Tells(item) <= OwnLength(c))
  <2>1. job.got # <<>> => Len(job.got) > 0
    BY <1>4
  <2>2. job.got # <<>> => AskStart + Len(job.got) <= Len(file[d].data)
    BY <1>3, <1>4, <1>5, <2>1 DEF ReadOK
  <2>3. Tells(item) \in 0..2 * Limit /\ Tells(item) <= Len(file[d].data)
    BY <1>4, <1>5, <1>7, <2>2
  <2> QED
    BY <1>6, <2>3 DEF OwnLength
<1>10. ~clash[d] /\ ToEnd /\ file[d].offset <= prog[d].n => file[d].offset = prog[d].n
  BY <1>2, <1>3, <1>4, <1>6 DEF FileOK, Left
<1>11. ItemOK(item)
  <2>1. ~clash[d] => \A i \in 1..Len(job.got) : job.got[i] = AskStart + i
    BY <1>3 DEF ReadOK
  <2>2. ~clash[d] /\ job.ask.what = "result" => Len(job.got) = prog[d].n /\ AskStart = 0
    <3> SUFFICES ASSUME ~clash[d], job.ask.what = "result"
                 PROVE  Len(job.got) = prog[d].n /\ AskStart = 0
      OBVIOUS
    <3>1. AskStart = 0 /\ ToEnd
      BY <1>2, AskedRange
    <3>2. file[d].offset = Len(job.got) /\ Len(file[d].data) = prog[d].n
      BY <1>3, <1>4, <1>6, <3>1 DEF ReadOK, FileOK
    <3>3. prog[d].n <= Len(job.got)
      BY <1>2, <1>4, <3>1, <3>2 DEF Left
    <3>4. Len(job.got) > 0 => Len(job.got) <= prog[d].n
      BY <1>3, <3>2 DEF ReadOK
    <3> QED
      BY <1>4, <3>1, <3>3, <3>4
  <2> QED
    BY <1>6, <1>8, <2>1, <2>2 DEF ItemOK
<1>12. \A e \in Proc : Reads(e) /\ ~clash[e] /\ prog[e].alive
                          => file[e].offset = prog[e].n
  <2>1. ~clash[d] /\ prog[d].alive => file[d].offset = prog[d].n
    BY <1>3, <1>10 DEF ReadOK
  <2>2. \A e : Reads(e) => e = d
    BY <1>2 DEF Reads
  <2> QED
    BY <2>1, <2>2
<1>13. /\ open' \in [Number -> Proc \cup {None}] /\ lost' \in BOOLEAN /\ (lost => lost')
       /\ StartedInv' /\ HeldInv' /\ BlameInv'
  BY <1>2, TableFrame DEF IInv, Types, vars, registryVars, BlameInv
<1> QED
  BY <1>2, <1>7, <1>8, <1>9, <1>11, <1>12, <1>13, ItemDoneKeeps

\* A read that meets the end of the file before it has what was asked for.
LEMMA ReadShortKeeps ==
  ASSUME IInv, NEW c \in Proc, ReadShort(c)
  PROVE  IInv'
<1>1. Opened(c) \in Proc
  BY DEF ReadShort, Reading, IInv, ReadInv
<1> PICK d \in Proc : d = Opened(c)
  BY <1>1
<1>2. /\ Reads(d) /\ job.phase = "reading" /\ job.todo[1] = c
      /\ ~ToEnd /\ Len(job.got) < Exact /\ Left(d) <= 0
      /\ CloseOnError(c) /\ spec[c].mode = "tempfile"
  BY DEF ReadShort, Reading, Reads, IInv, ReadInv
<1>3. ReadOK(d) /\ FileOK(d)
  BY <1>2 DEF IInv, ReadInv, FileInv
<1>4. lost \/ ~careful[c] \/ clash[c]
  <2> SUFFICES ASSUME careful[c], ~clash[c], ~lost PROVE FALSE
    OBVIOUS
  <2>1. d = c
    BY <1>2, OwnFile
  <2> DEFINE stop == Unsigned(job.ask.stop)
  <2>2. /\ AskStart \in Nat /\ stop \in Nat /\ Exact = stop - AskStart
        /\ stop <= OwnLength(c)
    BY <1>2, AskedRange
  <2>3. OwnLength(c) = Len(file[d].data)
    BY <1>2, <2>1 DEF OwnLength
  <2>4. file[d].offset = AskStart + Len(job.got)
    BY <1>3, <2>1 DEF ReadOK
  <2>5. Len(file[d].data) \in Nat /\ Len(job.got) \in Nat
    BY <1>2 DEF IInv, Types, FileType, JobType
  <2> HIDE DEF stop
  <2> QED
    BY <1>2, <2>2, <2>3, <2>4, <2>5 DEF Left
<1>5. \A e \in Proc : Reads(e) /\ ~clash[e] /\ prog[e].alive
                         => file[e].offset = prog[e].n
  <2>1. ~clash[d] => ~prog[d].alive
    BY <1>2, <1>3 DEF ReadOK
  <2>2. \A e : Reads(e) => e = d
    BY <1>2 DEF Reads
  <2> QED
    BY <2>1, <2>2
<1> QED
  BY <1>2, <1>4, <1>5, CloseKeeps

-----------------------------------------------------------------------------
(* The theorems *)

\* Every step of a request, a program or a task keeps the invariant.
LEMMA StepKeeps ==
  ASSUME IInv, [RequestsNext]_allVars
  PROVE  IInv'
<1>1. CASE Respond
  BY <1>1, AnswerKeeps
<1>2. ASSUME NEW id \in ProcId, HttpDispatch(id) PROVE IInv'
  <2>1. CASE \E c \in Proc, valid \in BOOLEAN : PostProcs(id, c, valid)
    BY <2>1, StartKeeps
  <2>2. CASE GetProcs \/ GetProc(id)
    BY <2>2, GetProcsKeeps, GetProcKeeps
  <2>3. CASE DeleteProcs(id)
    BY <2>3, DeleteKeeps
  <2>4. CASE \E signum \in Signum : SignalProc("http", id, signum)
    BY <2>4, AnswerKeeps DEF SignalProc, Outcome
  <2>5. CASE \E fd \in Fd : GetData("http", id, fd, 0, None)
    <3>1. 0 \in Position
      BY CaptureAssumption DEF Position
    <3> QED
      BY <2>5, <3>1, GetDataKeeps
  <2>6. CASE NoRoute \/ NoMethod
    BY <2>6, AnswerKeeps DEF NoRoute, NoMethod, Outcome
  <2> QED
    BY <1>2, <2>1, <2>2, <2>3, <2>4, <2>5, <2>6 DEF HttpDispatch
<1>3. ASSUME NEW id \in ProcId, AgentRequest(id) PROVE IInv'
  <2>1. CASE Answer("ok")
    BY <2>1, AnswerKeeps DEF Outcome
  <2>2. CASE \E signum \in Signum \ {"unparsable"} : SignalProc("agent", id, signum)
    BY <2>2, AnswerKeeps DEF SignalProc, Outcome
  <2>3. CASE \E fd \in Fd, start \in Positions, stop \in Positions \cup {None} :
               GetData("agent", id, fd, start, stop)
    BY <2>3, GetDataKeeps, RequestsAssumption
  <2> QED
    BY <1>3, <2>1, <2>2, <2>3 DEF AgentRequest
<1>4. ASSUME NEW c \in Proc, Step(c) PROVE IInv'
  BY <1>4, WriteKeeps, ProgramEndsKeeps, ProcOverKeeps, CaptureReadKeeps,
     CaptureEndKeeps, LookLengthKeeps, LookMemoryKeeps, SeekKeeps, ReadSomeKeeps,
     ReadEndKeeps, ReadShortKeeps DEF Step, JobStep
<1>5. CASE UNCHANGED allVars
  <2>1. UNCHANGED <<procs, idOf, state, told, shutdown>>
    BY <1>5 DEF allVars, vars, registryVars
  <2>2. UNCHANGED <<spec, prog, file, mem, job, known, careful, clash, num, open, lost>>
    BY <1>5 DEF allVars, captureVars, tableVars
  <2>3. Types'
    BY <2>1, <2>2, RegistryUnchanged DEF IInv, Types, registryVars
  <2>4. ProgInv' /\ MemInv' /\ FileInv' /\ ReadInv'
    BY <2>1, <2>2 DEF IInv, ProgInv, MemInv, MemOK, FileInv, FileOK, ReadInv, ReadOK,
       Reads, Opened, AskStart, ToEnd
  <2>5. JobInv' /\ ItemsInv' /\ KnownInv'
    BY <2>1, <2>2 DEF IInv, JobInv, Told, ItemsInv, ItemOK, Settled, KnownInv, OwnLength
  <2>6. StartedInv' /\ HeldInv' /\ BlameInv' /\ PanicInv'
    BY <2>1, <2>2, TableFrame DEF IInv, BlameInv, PanicInv
  <2> QED
    BY <2>3, <2>4, <2>5, <2>6 DEF IInv
<1> QED
  BY <1>1, <1>2, <1>3, <1>4, <1>5 DEF RequestsNext, Serve

\* The invariant holds when Procstar starts.
LEMMA InitKeeps ==
  ASSUME CaptureInit
  PROVE  IInv
<1>1. RegistryInv
  <2>1. RegistryTypes /\ MapAgrees /\ ToldStopped
    BY DEF CaptureInit, Init, RegistryInit, RegistryTypes, MapAgrees, ToldStopped,
       States, ShutdownState
  <2>2. Tracked = {}
    BY DEF CaptureInit, Init, RegistryInit, Tracked
  <2> QED
    BY <2>1, <2>2, FS_EmptySet DEF RegistryInv, MapFinite
<1>2. /\ spec \in Loads /\ known = [c \in Proc |-> 0]
      /\ prog = [c \in Proc |-> [alive |-> FALSE, n |-> 0]]
      /\ file = [c \in Proc |-> [data |-> <<>>, offset |-> 0]]
      /\ mem = [c \in Proc |-> [pipe |-> <<>>, buf |-> <<>>, task |-> "none"]]
      /\ careful = [c \in Proc |-> TRUE] /\ clash = [c \in Proc |-> FALSE]
      /\ num = [c \in Proc |-> None] /\ open = [n \in Number |-> None] /\ ~lost
      /\ lost \in BOOLEAN /\ procs = [id \in ProcId |-> None] /\ job = Idle
  BY DEF CaptureInit, Init, RegistryInit
<1>3. /\ job \in JobType /\ job.phase = "idle" /\ job.items = {} /\ job.todo = <<>>
      /\ job.ask.what = "none"
  BY <1>2, OutcomeTypes DEF Idle, NoAsk
<1>4. Types
  <2>1. MaxBytes \in Nat /\ Limit \in Nat
    BY CaptureAssumption
  <2>2. file \in [Proc -> FileType] /\ mem \in [Proc -> MemType]
    BY <1>2 DEF FileType, MemType
  <2> QED
    BY <1>1, <1>2, <1>3, <2>1, <2>2 DEF Types
<1>5. \A c \in Proc : prog[c].n = 0 /\ ~prog[c].alive /\ known[c] = 0 /\ ~clash[c]
  BY <1>2
<1>6. \A c \in Proc : spec[c].bytes \in Nat
  BY <1>2, SpecType, CaptureAssumption
<1>7. ProgInv
  BY <1>5, <1>6 DEF ProgInv
<1>8. MemInv
  <2>1. \A c \in Proc : Len(mem[c].buf) = 0 /\ Len(mem[c].pipe) = 0 /\ mem[c].task = "none"
    BY <1>2
  <2>2. 1..0 = {} /\ 0 + 0 = 0
    OBVIOUS
  <2>3. ASSUME NEW c \in Proc PROVE MemOK(c)
    BY <1>5, <2>1, <2>2, Zenon DEF MemOK
  <2> QED
    BY <2>3 DEF MemInv
<1>9. \A c : ~Reads(c)
  BY <1>3 DEF Reads
<1>10. \A c \in Proc : Len(file[c].data) = 0 /\ file[c].offset = 0
  BY <1>2
<1>11. FileInv /\ ReadInv
  BY <1>3, <1>5, <1>9, <1>10, CaptureAssumption DEF FileInv, FileOK, ReadInv
<1>12. JobInv /\ ItemsInv
  BY <1>3 DEF JobInv, ItemsInv
<1>13. KnownInv /\ BlameInv /\ PanicInv
  <2>1. \A c \in Proc : Len(file[c].data) = 0 /\ Len(mem[c].buf) = 0
    BY <1>2
  <2> QED
    BY <1>2, <1>3, <1>5, <2>1 DEF KnownInv, BlameInv, PanicInv, OwnLength
<1>14. StartedInv /\ HeldInv
  <2>1. \A c \in Proc : ~InUse(c)
    BY <1>2, RegistryAssumption DEF InUse
  <2> QED
    BY <1>2, <2>1 DEF StartedInv, HeldInv
<1> QED
  BY <1>4, <1>7, <1>8, <1>11, <1>12, <1>13, <1>14 DEF IInv

\* The invariant holds of every behaviour, whatever fairness is assumed.
THEOREM Invariance == RequestsSpec => []IInv
<1>1. CaptureInit => IInv
  BY InitKeeps
<1>2. IInv /\ [RequestsNext]_allVars => IInv'
  BY StepKeeps
<1> QED
  BY <1>1, <1>2, PTL DEF RequestsSpec

\* The positions that clients give, of any sign and size, take no variable out of
\* its type: no length or offset overflows, however a program and the reads of
\* its output alternate.
THEOREM TypeCorrect == RequestsSpec => []TypeOK
<1>1. IInv => TypeOK
  <2> SUFFICES ASSUME IInv PROVE TypeOK
    OBVIOUS
  <2>1. \A c \in Proc : file[c].offset \in 0..2 * Limit
    BY LengthBound
  <2>2. known \in [Proc -> 0..2 * Limit]
    BY DEF IInv, Types
  <2>3. \A c \in Proc :
          /\ file[c].data \in Seq(0..MaxBytes)
          /\ mem[c].pipe \in Seq(1..MaxBytes) /\ mem[c].buf \in Seq(1..MaxBytes)
          /\ mem[c].task \in {"none", "reading", "done", "failed"}
    BY DEF IInv, Types, FileType, MemType
  <2>4. \A item \in ItemType :
          /\ item.c \in Proc
          /\ item.type \in {"bytes", "detached", "error", "foreign"}
          /\ item.type = "bytes" => item.data \in Seq(0..MaxBytes)
    BY DEF ItemType, BytesType, LengthType, OtherType
  <2>5. /\ job.phase \in {"idle", "look", "reading", "answered", "panicked"}
        /\ job.todo \in Seq(Proc) /\ job.got \in Seq(0..MaxBytes)
        /\ job.items \subseteq ItemType /\ job.outcome \in Outcome
    BY DEF IInv, Types, JobType
  <2> QED
    BY <2>1, <2>2, <2>3, <2>4, <2>5 DEF TypeOK, IInv, Types
<1> QED
  BY <1>1, Invariance, PTL

\* For any number of captures, in files and in memory, that get each other's
\* numbers as those are free: no read fails unless some client asked beyond what
\* it was told or some program wrote while its file was read; and until then no
\* client within what it was told meets a panic, and no capture in use loses its
\* fd.
THEOREM RangesServed == RequestsSpec => []KnownRangeIsServed
<1>1. IInv => KnownRangeIsServed
  BY DEF IInv, BlameInv, PanicInv, HeldInv, KnownRangeIsServed
<1> QED
  BY <1>1, Invariance, PTL

\* The bytes of an answer are the program's, at their place, until a read fails,
\* and some program's after that; the result of a process that is over has all
\* of its output, unless its file was disturbed, by whichever request.
THEOREM AnswersTrue == RequestsSpec => []AnswersAreOutput
<1>1. IInv => AnswersAreOutput
  <2> SUFFICES ASSUME IInv, NEW item \in job.items, item.type = "bytes"
               PROVE  /\ item.from = item.c \/ lost
                      /\ ~clash[item.from] =>
                           /\ \A i \in DOMAIN item.data : item.data[i] = item.start + i
                           /\ job.ask.what = "result" /\ Settled(item.from)
                                => item.data = Output(item.from)
    BY DEF AnswersAreOutput, Answered
  <2> DEFINE d == item.from
  <2>1. item.data \in Seq(0..MaxBytes) /\ d \in Proc
    BY DEF IInv, Types, JobType, ItemType, BytesType, LengthType, OtherType
  <2>2. /\ item.from = item.c \/ lost
        /\ ~clash[d] =>
             /\ \A i \in 1..Len(item.data) : item.data[i] = item.start + i
             /\ job.ask.what = "result" /\ Settled(d) => /\ Len(item.data) = prog[d].n
                                                         /\ item.start = 0
    BY DEF IInv, ItemsInv, ItemOK
  <2>3. /\ DOMAIN item.data = 1..Len(item.data) /\ Len(item.data) \in Nat
        /\ item.data = [i \in 1..Len(item.data) |-> item.data[i]]
    BY <2>1
  <2>4. ASSUME ~clash[d], job.ask.what = "result", Settled(d)
        PROVE  item.data = Output(d)
    <3>1. Len(item.data) = prog[d].n /\ item.start = 0
      BY <2>2, <2>4
    <3>2. \A i \in 1..Len(item.data) : item.data[i] = i
      BY <2>2, <2>3, <2>4, <3>1
    <3> QED
      BY <2>3, <3>1, <3>2 DEF Output
  <2> QED
    BY <2>2, <2>3, <2>4
<1> QED
  BY <1>1, Invariance, PTL

\* A thread that reads a file to its end never has more left to read than
\* before, however fast the program writes.
THEOREM ReadsEnd == RequestsSpec => WritesLeaveNoMoreToRead
<1> DEFINE NoMore(c) ==
             Reads(c) /\ Reads(c)' => Left(c)' <= (IF Left(c) > 0 THEN Left(c) ELSE 0)
<1>1. ASSUME IInv, NEW d \in Proc, [RequestsNext]_allVars PROVE NoMore(d)
  <2> SUFFICES ASSUME Reads(d), Reads(d)'
               PROVE  Left(d)' <= (IF Left(d) > 0 THEN Left(d) ELSE 0)
    OBVIOUS
  <2>1. /\ file[d] \in FileType /\ file[d].offset \in Nat /\ Len(file[d].data) \in Nat
        /\ Left(d) \in Int
    BY <1>1 DEF IInv, Types, FileType, Left
  <2>2. job.phase = "reading" /\ job'.phase = "reading" /\ Opened(job.todo[1]) = d
    BY DEF Reads
  <2>3. CASE file'[d] = file[d]
    BY <2>1, <2>3 DEF Left
  <2>4. ASSUME Write(d), spec[d].mode = "tempfile"
        PROVE  Left(d)' <= (IF Left(d) > 0 THEN Left(d) ELSE 0)
    <3> DEFINE f == file[d]
               g == file'[d]
    <3>1. prog[d].n + 1 \in 0..MaxBytes
      <4>1. prog[d].n + 1 \in 1..MaxBytes
        BY <1>1, <2>4, ProgWrites DEF Write, IInv
      <4> QED
        BY <4>1, CaptureAssumption
    <3>2. g = WriteFile(f, prog[d].n + 1)
      BY <1>1, <2>4 DEF Write, IInv, Types
    <3>3. /\ g.offset = f.offset + 1
          /\ Len(g.data) = IF f.offset < Len(f.data) THEN Len(f.data) ELSE f.offset + 1
      BY <2>1, <3>1, <3>2, WriteFileResult
    <3>4. Left(d)' = Len(g.data) - g.offset /\ Left(d) = Len(f.data) - f.offset
      BY DEF Left
    <3> HIDE DEF f, g
    <3>5. f.offset \in Nat /\ Len(f.data) \in Nat
      BY <2>1 DEF f
    <3> QED
      BY <3>3, <3>4, <3>5
  <2>5. ASSUME NEW c \in Proc, ReadSome(c)
        PROVE  Left(d)' <= (IF Left(d) > 0 THEN Left(d) ELSE 0)
    <3>1. job.todo[1] = c /\ Opened(c) = d
      BY <2>2, <2>5 DEF ReadSome, Reading
    <3>2. PICK k \in 1..Left(d) : file' = [file EXCEPT ![d].offset = @ + k]
      BY <2>5, <3>1 DEF ReadSome
    <3>3. file'[d].offset = file[d].offset + k /\ file'[d].data = file[d].data
      BY <1>1, <3>2 DEF IInv, Types, FileType
    <3> QED
      BY <2>1, <3>2, <3>3 DEF Left
  <2>6. ASSUME NEW c \in Proc, Step(c)
        PROVE  \/ file'[d] = file[d]
               \/ Write(d) /\ spec[d].mode = "tempfile"
               \/ ReadSome(c)
    <3>1. CASE Write(c)
      <4>1. file' = file \/ (c = d /\ spec[d].mode = "tempfile") \/ file'[d] = file[d]
        BY <1>1, <3>1 DEF Write, IInv, Types
      <4> QED
        BY <3>1, <4>1
    <3>2. CASE \/ ProgramEnds(c) \/ ProcOver(c)
               \/ CaptureRead(c) \/ CaptureEOF(c) \/ CaptureFails(c)
      BY <3>2 DEF ProgramEnds, ProcOver, CaptureRead, CaptureEOF, CaptureFails, captureVars
    <3>3. CASE LookLength(c) \/ LookMemory(c) \/ LookLost(c) \/ Seek(c)
      BY <2>2, <3>3 DEF LookLength, LookMemory, LookLost, Seek, Looks
    <3>4. CASE ReadEnd(c)
      BY <3>4 DEF ReadEnd
    <3>5. CASE ReadShort(c)
      BY <3>5 DEF ReadShort, CloseOnError
    <3> QED
      BY <2>6, <3>1, <3>2, <3>3, <3>4, <3>5 DEF Step, JobStep
  <2>7. ASSUME Serve PROVE FALSE
    BY <2>2, <2>7 DEF Serve, Respond, HttpDispatch, AgentRequest, GetProcs, PostProcs,
       GetProc, DeleteProcs, SignalProc, GetData, NoRoute, NoMethod, Answer, Begin, Free
  <2>8. CASE UNCHANGED allVars
    BY <2>3, <2>8 DEF allVars, captureVars
  <2> QED
    BY <1>1, <2>3, <2>4, <2>5, <2>6, <2>7, <2>8 DEF RequestsNext
<1>2. IInv /\ [RequestsNext]_allVars => [\A c \in Proc : NoMore(c)]_allVars
  BY <1>1
<1> HIDE DEF NoMore
<1>3. RequestsSpec => [][\A c \in Proc : NoMore(c)]_allVars
  BY <1>2, Invariance, PTL DEF RequestsSpec
<1> QED
  BY <1>3 DEF NoMore, WritesLeaveNoMoreToRead
=============================================================================
