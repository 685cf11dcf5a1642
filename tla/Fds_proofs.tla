----------------------------- MODULE Fds_proofs -----------------------------
(***************************************************************************)
(* Proofs of the safety properties of Fds, for batches of any length, any  *)
(* lists of fds, any numbers in them and any number of them that may be    *)
(* open.  The invariant says which end of which pipe each table holds      *)
(* where, and, for a child whose spec names free numbers, what is left of  *)
(* it for the handlers that have not run yet.                              *)
(***************************************************************************)
EXTENDS Fds, TLAPS

\* The handlers that dup an fd of the parent's
Opens == {"tempfile", "capture", "pipe-write", "pipe-read"}
Ends == {"read", "write"}
Cell == Object \cup {Inherited, Opened, None}
ChildState == {"none", "setup", "ready", "panic", "running", "exited"}

\* TypeOK without its last conjunct, which follows from ParentKept.
TypeInv ==
  /\ batch \in [Process -> Lists]
  /\ pc \in {"validate", "rejected", "handlers", "slice", "failed", "close", "done",
             "panic"}
  /\ cur \in Process
  /\ pipes \in [Key -> Pair]
  /\ handlers \in [Process -> Seq(Handler)]
  /\ table \in [Process \cup {Parent} -> [FdNum -> Cell]]
  /\ child \in [Process -> ChildState]
  /\ forked \in [Process -> [FdNum -> Cell]]
  /\ childPipes \in [Process -> [Key -> Pair]]
  /\ next \in [Process -> Nat]
  /\ ok \in [Process -> BOOLEAN]

Validated ==
  pc \in {"handlers", "slice", "failed", "close", "done", "panic"} => validate_procs_fds

\* Where start_procs() is: which handlers it has made and which children forked.
CurOK ==
  /\ pc \in {"validate", "rejected"} => cur = 1 /\ handlers[cur] = <<>>
  /\ pc \in {"close", "done", "panic"} => cur = N
Forked(i) ==
  i < cur \/ (i = cur /\ pc \in {"slice", "failed", "close", "done", "panic"})
ProgressOK(i) ==
  /\ i > cur => handlers[i] = <<>>
  /\ Len(handlers[i]) <= Len(batch[i])
  /\ child[i] # "none" <=> Forked(i)
  /\ child[i] # "none" => Len(handlers[i]) = Len(batch[i])
  /\ child[i] = "none" => next[i] = 1

\* The handler of an entry is made for it.
HandlerOK(i, k) ==
  LET h == handlers[i][k] IN
    /\ h.fd = NumberAt(i, k)
    /\ h.type \in {SpecAt(i, k).type, "error"}
    /\ h.type = "dup" => h.from = SpecAt(i, k).fd
    /\ h.type \in Opens => h.from \in FdNum \ Base
    /\ h.type = "capture" => h.read \in FdNum \ Base
HandlersOK == \A i \in Process : \A k \in 1..Len(handlers[i]) : HandlerOK(i, k)

\* The entry k of process i has taken its end of the pipe of key.
Took(i, k, end, key) ==
  /\ k \in 1..Len(handlers[i])
  /\ \/ /\ end = "write" /\ handlers[i][k].type = "pipe-write"
        /\ <<i, NumberAt(i, k)>> = key
     \/ /\ end = "read" /\ handlers[i][k].type = "pipe-read"
        /\ KeyRead(SpecAt(i, k)) = key
SomeTook(end, key) == \E i \in Process : \E k \in Indices(i) : Took(i, k, end, key)

\* Each end of a pipe that was made is kept for its process, or was taken by it.
PipeOK(key) ==
  /\ ~pipes[key].made => pipes[key].read = None /\ pipes[key].write = None
  /\ pipes[key].read = None \/ pipes[key].write = None
  /\ \A end \in Ends : pipes[key].made /\ pipes[key][end] = None <=> SomeTook(end, key)
PipesOK == \A key \in Key : PipeOK(key)

\* Procstar's standard fds stay its own, ...
ParentBase == \A f \in Base : table[Parent][f] = Inherited
\* ... an end that Pipes keeps is that end, ...
ParentKept ==
  pc \in {"validate", "handlers", "slice", "close"} =>
    \A key \in Key, end \in Ends :
      pipes[key][end] # None => table[Parent][pipes[key][end]] = End(end, key)
\* ... the handlers of the process at hand have what their entries ask for, ...
Supplied(t, i, k) ==
  LET h == handlers[i][k] IN
    /\ h.type \in Opens => t[h.from] = Wanted(i, k)
    /\ h.type = "capture" => t[h.read] = End("capture read", <<i, h.fd>>)
ParentMade ==
  pc \in {"handlers", "slice"} =>
    \A k \in 1..Len(handlers[cur]) : Supplied(table[Parent], cur, k)
\* ... and there is nothing else but the outputs of other processes.
Kept(f) == \E key \in Key, end \in Ends : pipes[key][end] = f
UsedBy(f, i, k) ==
  LET h == handlers[i][k] IN
    \/ h.type \in Opens /\ f = h.from
    \/ h.type = "capture" /\ f = h.read
Accounted(f) ==
  \/ table[Parent][f].end = "tempfile"
  \/ table[Parent][f].end = "capture read" /\ table[Parent][f].of[1] < cur
  \/ table[Parent][f].end = "capture read" /\ pc \in {"close", "done", "panic"}
  \/ pc # "done" /\ Kept(f)
  \/ pc \in {"handlers", "slice"} /\ \E k \in 1..Len(handlers[cur]) : UsedBy(f, cur, k)
ParentAccounted ==
  pc # "failed" => \A f \in FdNum \ Base : table[Parent][f] # None => Accounted(f)

\* What a program may hold.
Own(o, i) ==
  /\ o.end \in {"write", "capture write"} => o.of[1] = i
  /\ o.end = "read" => \E x \in Readers : x[1] = i /\ ReadKey(x) = o.of

\* A child that sets up its fds: the numbers its spec names are none of those that
\* its handlers use and its copy of Pipes keeps, ...
Apart(i) ==
  /\ Remaining(childPipes[i]) \cap Named(i) = {}
  /\ \A k \in 1..Len(handlers[i]) : \A f \in Named(i) : ~UsedBy(f, i, k)
\* ... the fds it has set are as specified, ...
SetBefore(i) ==
  \A k \in 1..Len(handlers[i]) :
    k < next[i] /\ SpecAt(i, k).type # "dup" =>
      At(table[i], handlers[i][k].fd) = Wanted(i, k)
\* ... the others are as they were and the next handlers have what they need, ...
SetAfter(i) ==
  \A k \in 1..Len(handlers[i]) :
    k >= next[i] =>
      /\ At(table[i], handlers[i][k].fd) = At(forked[i], handlers[i][k].fd)
      /\ Supplied(table[i], i, k)
\* ... and other ends it holds are in its copy of Pipes.
ReadOfCapture(f, i) ==
  \E k \in 1..Len(handlers[i]) :
    k >= next[i] /\ handlers[i][k].type = "capture" /\ handlers[i][k].read = f
SetHolds(i) ==
  \A f \in FdNum : table[i][f] # None =>
    /\ f \notin Remaining(childPipes[i]) => Own(table[i][f], i)
    /\ table[i][f].end = "capture read" /\ table[i][f].of[1] = i => ReadOfCapture(f, i)
SetupOK(i) ==
  /\ Apart(i)
  /\ SetBefore(i)
  /\ SetAfter(i)
  /\ SetHolds(i)

\* A child that is set up has its fds as specified, and nobody else's.
ReadyOK(i) ==
  /\ \A k \in Indices(i) :
       SpecAt(i, k).type # "dup" => At(table[i], NumberAt(i, k)) = Wanted(i, k)
  /\ \A f \in FdNum : table[i][f] # None =>
       Own(table[i][f], i) /\ (table[i][f].end = "capture read" => table[i][f].of[1] # i)

\* Only a child whose handlers all succeeded executes its program.
ChildOK(i) ==
  /\ child[i] = "running" => ok[i]
  /\ ok[i] /\ NumbersFree(i) =>
       /\ child[i] = "setup" => SetupOK(i)
       /\ child[i] \in {"ready", "running"} => ReadyOK(i)

IInv ==
  /\ TypeInv
  /\ Validated
  /\ CurOK
  /\ \A i \in Process : ProgressOK(i)
  /\ HandlersOK
  /\ PipesOK
  /\ ParentBase
  /\ ParentKept
  /\ ParentMade
  /\ ParentAccounted
  /\ \A i \in Process : ChildOK(i)
  /\ NoPanic

-----------------------------------------------------------------------------
(* Facts about a valid batch *)

\* A name that parse_fd() accepts has a number.
LEMMA ParsedFd == \A name : parse_fd(name) # None => parse_fd(name) \in Number
  BY DEF parse_fd, Number, Base, Range

\* The numbers are integers.
LEMMA NumberInt == Number \subseteq Int /\ Base \subseteq Number
  BY FdsAssumption DEF Number, Base, Range

\* None is no fd and nothing that an fd refers to.
LEMMA NoneApart ==
  /\ None \notin Int /\ None \notin FdNum /\ Base \subseteq FdNum
  /\ None # Inherited /\ None # Opened /\ None \notin Object
  /\ Inherited \in Cell /\ Opened \in Cell /\ None \in Cell /\ Object \subseteq Cell
  /\ FdNum \subseteq Nat /\ FdNum \subseteq Int /\ Parent \notin Process
  BY FdsAssumption DEF FdNum, Base, Cell, Parent, Process

\* The fields of an end
LEMMA EndFields == \A end, key : End(end, key).end = end /\ End(end, key).of = key
  BY DEF End

\* An end of a pipe is something that an fd may refer to.
LEMMA EndObject ==
  ASSUME NEW key \in Key, NEW end \in Ends \cup {"capture read", "capture write"}
  PROVE  End(end, key) \in Object /\ End(end, key) \in Cell /\ End(end, key) # None
<1>1. End(end, key) \in Object
  BY DEF End, Object, Ends
<1> QED BY <1>1, NoneApart

\* The type invariant of the batch
LEMMA BatchType ==
  ASSUME batch \in [Process -> Lists], NEW i \in Process
  PROVE  /\ batch[i] \in Seq([name : FdName, spec : FdSpec])
         /\ Indices(i) = 1..Len(batch[i])
         /\ \A k \in Indices(i) : SpecAt(i, k) \in FdSpec
<1> DEFINE E == [name : FdName, spec : FdSpec]
<1>1. batch[i] \in Seq(E)
  BY FdsAssumption
<1>2. Indices(i) = 1..Len(batch[i])
  BY <1>1 DEF Indices
<1>3. ASSUME NEW k \in Indices(i)
      PROVE  SpecAt(i, k) \in FdSpec
  <2>1. batch[i][k] \in E
    <3> HIDE DEF E
    <3> QED BY <1>1, <1>2, <1>3
  <2> QED BY <2>1 DEF SpecAt
<1> QED BY <1>1, <1>2, <1>3

\* Every spec is of one of the types.
LEMMA SpecTypes ==
  ASSUME NEW spec \in FdSpec
  PROVE  /\ spec.type \in Types
         /\ spec.type = "pipe-read" => spec.proc \in Process /\ spec.fd \in FdName
         /\ spec.type = "dup" => spec.fd \in Int
  BY DEF FdSpec, Types

\* The entries of a valid batch have numbers, and the pipes they name are keys.
LEMMA EntryType ==
  ASSUME batch \in [Process -> Lists], validate_procs_fds,
         NEW i \in Process, NEW k \in Indices(i)
  PROVE  /\ NumberAt(i, k) \in Number
         /\ <<i, NumberAt(i, k)>> \in Key
         /\ SpecAt(i, k).type = "pipe-write" =>
              <<i, k>> \in Writers /\ WriteKey(<<i, k>>) = <<i, NumberAt(i, k)>>
         /\ SpecAt(i, k).type = "pipe-read" =>
              /\ <<i, k>> \in Readers /\ ReadKey(<<i, k>>) = KeyRead(SpecAt(i, k))
              /\ KeyRead(SpecAt(i, k)) \in Key
<1>1. NumberAt(i, k) \in Number
  BY ParsedFd DEF validate_procs_fds, GoodNames, NumberAt
<1>2. <<i, NumberAt(i, k)>> \in Key
  BY <1>1 DEF Key
<1>3. ASSUME SpecAt(i, k).type = "pipe-write"
      PROVE  <<i, k>> \in Writers /\ WriteKey(<<i, k>>) = <<i, NumberAt(i, k)>>
  BY <1>3 DEF Writers, Entries, WriteKey
<1>4. ASSUME SpecAt(i, k).type = "pipe-read"
      PROVE  /\ <<i, k>> \in Readers /\ ReadKey(<<i, k>>) = KeyRead(SpecAt(i, k))
             /\ KeyRead(SpecAt(i, k)) \in Key
  <2>1. <<i, k>> \in Readers /\ ReadKey(<<i, k>>) = KeyRead(SpecAt(i, k))
    BY <1>4 DEF Readers, Entries, ReadKey
  <2>2. SpecAt(i, k).proc \in Process
    BY <1>4, BatchType, SpecTypes
  <2>3. parse_fd(SpecAt(i, k).fd) \in Number
    BY <2>1, ParsedFd DEF validate_procs_fds, GoodNames, KeyRead
  <2> QED BY <2>1, <2>2, <2>3 DEF KeyRead, Key
<1> QED BY <1>1, <1>2, <1>3, <1>4

\* What an entry that opens asks for is an end or a file of its own.
LEMMA WantedEnd ==
  ASSUME batch \in [Process -> Lists], validate_procs_fds,
         NEW i \in Process, NEW k \in Indices(i), SpecAt(i, k).type \in Opens
  PROVE  /\ Wanted(i, k) \in Object
         /\ Wanted(i, k).end # "capture read"
         /\ Own(Wanted(i, k), i)
         /\ SpecAt(i, k).type = "tempfile" => Wanted(i, k).end = "tempfile"
<1> DEFINE own == <<i, NumberAt(i, k)>>
<1>1. own \in Key /\ own[1] = i
  BY EntryType
<1>2. CASE SpecAt(i, k).type = "pipe-write"
  BY <1>1, <1>2 DEF Wanted, End, Object, Own
<1>3. CASE SpecAt(i, k).type = "capture"
  BY <1>1, <1>3 DEF Wanted, End, Object, Own
<1>4. CASE SpecAt(i, k).type = "tempfile"
  BY <1>1, <1>4 DEF Wanted, End, Object, Own
<1>5. CASE SpecAt(i, k).type = "pipe-read"
  <2>1. <<i, k>> \in Readers /\ ReadKey(<<i, k>>) \in Key
    BY <1>5, EntryType
  <2>2. Wanted(i, k) = End("read", ReadKey(<<i, k>>))
    BY <1>5 DEF Wanted
  <2> QED BY <1>5, <2>1, <2>2 DEF End, Object, Own
<1> QED BY <1>2, <1>3, <1>4, <1>5 DEF Opens

\* Two entries of a process that open ask for different things: two of its
\* outputs are on different fds, and a pipe has one reader.
LEMMA WantedDistinct ==
  ASSUME batch \in [Process -> Lists], validate_procs_fds,
         NEW i \in Process, NEW k \in Indices(i), NEW m \in Indices(i), k # m,
         SpecAt(i, k).type \in Opens, SpecAt(i, m).type \in Opens
  PROVE  Wanted(i, k) # Wanted(i, m)
<1> DEFINE own(n) == <<i, NumberAt(i, n)>>
<1>1. own(k) # own(m)
  BY DEF validate_procs_fds, DistinctFds
<1>2. CASE SpecAt(i, k).type = "pipe-read" /\ SpecAt(i, m).type = "pipe-read"
  <2>1. /\ <<i, k>> \in Readers /\ <<i, m>> \in Readers
        /\ <<i, k>> # <<i, m>>
    BY <1>2, EntryType
  <2>2. ReadKey(<<i, k>>) # ReadKey(<<i, m>>)
    BY <2>1 DEF validate_procs_fds, ReadsMatched
  <2>3. /\ Wanted(i, k) = End("read", ReadKey(<<i, k>>))
        /\ Wanted(i, m) = End("read", ReadKey(<<i, m>>))
    BY <1>2 DEF Wanted
  <2> QED BY <2>2, <2>3 DEF End
<1>3. ASSUME NEW n \in {k, m}, SpecAt(i, n).type # "pipe-read"
      PROVE  /\ Wanted(i, n).of = own(n)
             /\ Wanted(i, n).end # "read"
  BY <1>3 DEF Wanted, End, Opens
<1>4. ASSUME NEW n \in {k, m}, SpecAt(i, n).type = "pipe-read"
      PROVE  Wanted(i, n).end = "read"
  BY <1>4 DEF Wanted, End, Opens
<1> HIDE DEF own
<1> QED BY <1>1, <1>2, <1>3, <1>4

-----------------------------------------------------------------------------
(* Facts about the handlers *)

\* A handler is made for an entry of the batch and does what that says, unless
\* it is there for an error.
LEMMA HandlerFacts ==
  ASSUME TypeInv, HandlersOK, \A j \in Process : ProgressOK(j),
         NEW i \in Process, NEW k \in 1..Len(handlers[i])
  PROVE  /\ handlers[i][k] \in Handler /\ k \in Indices(i) /\ k \in Nat
         /\ handlers[i][k].fd = NumberAt(i, k)
         /\ handlers[i][k].fd \in Number /\ handlers[i][k].fd \in Named(i)
         /\ handlers[i][k].type # "error" => SpecAt(i, k).type = handlers[i][k].type
         /\ HandlerOK(i, k)
<1>1. handlers[i] \in Seq(Handler) /\ Len(handlers[i]) \in Nat
  BY DEF TypeInv
<1>2. handlers[i][k] \in Handler /\ k \in Nat
  BY <1>1
<1>3. batch[i] \in Seq([name : FdName, spec : FdSpec]) /\ Indices(i) = 1..Len(batch[i])
  BY BatchType DEF TypeInv
<1>4. Len(batch[i]) \in Nat
  BY <1>3
<1>5. Len(handlers[i]) <= Len(batch[i])
  BY DEF ProgressOK
<1>6. k \in Indices(i)
  BY <1>1, <1>3, <1>4, <1>5
<1>7. HandlerOK(i, k)
  BY DEF HandlersOK
<1>8. NumberAt(i, k) \in Named(i)
  BY <1>6 DEF Named
<1> QED BY <1>2, <1>6, <1>7, <1>8 DEF HandlerOK, Handler

\* The pipe that an entry uses is a key, and no two entries use the same end.
LEMMA TookOnce ==
  ASSUME TypeInv, HandlersOK, validate_procs_fds, \A j \in Process : ProgressOK(j),
         NEW i \in Process, NEW k, NEW end, NEW key, Took(i, k, end, key),
         NEW j \in Process, NEW m \in Indices(j),
         \/ end = "write" /\ SpecAt(j, m).type = "pipe-write"
              /\ <<j, NumberAt(j, m)>> = key
         \/ end = "read" /\ SpecAt(j, m).type = "pipe-read"
              /\ KeyRead(SpecAt(j, m)) = key
  PROVE  i = j /\ k = m
<1>1. /\ k \in 1..Len(handlers[i])
      /\ \/ /\ end = "write" /\ handlers[i][k].type = "pipe-write"
            /\ <<i, NumberAt(i, k)>> = key
         \/ /\ end = "read" /\ handlers[i][k].type = "pipe-read"
            /\ KeyRead(SpecAt(i, k)) = key
  BY DEF Took
<1>2. k \in Indices(i) /\ SpecAt(i, k).type = handlers[i][k].type
  BY <1>1, HandlerFacts
<1>3. CASE end = "write"
  <2>1. i = j /\ NumberAt(i, k) = NumberAt(j, m)
    BY <1>1, <1>3
  <2> QED BY <2>1, <1>2 DEF validate_procs_fds, DistinctFds
<1>4. CASE end = "read"
  <2>1. /\ <<i, k>> \in Readers /\ <<j, m>> \in Readers
        /\ ReadKey(<<i, k>>) = ReadKey(<<j, m>>)
    BY <1>1, <1>2, <1>4, EntryType DEF TypeInv
  <2>2. <<i, k>> = <<j, m>>
    BY <2>1 DEF validate_procs_fds, ReadsMatched
  <2> QED BY <2>2
<1> QED BY <1>1, <1>3, <1>4

-----------------------------------------------------------------------------
(* Steps that leave things alone *)

\* The batch is what it was, and so is all that is said about it.
LEMMA BatchFrame ==
  ASSUME batch' = batch
  PROVE  /\ validate_procs_fds' = validate_procs_fds
         /\ Readers' = Readers /\ Writers' = Writers
         /\ \A i, k : /\ Indices(i)' = Indices(i) /\ SpecAt(i, k)' = SpecAt(i, k)
                      /\ NumberAt(i, k)' = NumberAt(i, k)
                      /\ forked'[i] = forked[i] \/ SpecAt(i, k).type \in Opens =>
                           Wanted(i, k)' = Wanted(i, k)
         /\ \A i : Named(i)' = Named(i)
         /\ \A x : ReadKey(x)' = ReadKey(x) /\ WriteKey(x)' = WriteKey(x)
<1>1. \A i, k : /\ Indices(i)' = Indices(i) /\ SpecAt(i, k)' = SpecAt(i, k)
                /\ NumberAt(i, k)' = NumberAt(i, k)
  BY DEF Indices, SpecAt, NumberAt
<1>2. \A x : ReadKey(x)' = ReadKey(x) /\ WriteKey(x)' = WriteKey(x)
  BY <1>1 DEF ReadKey, WriteKey
<1>3. ASSUME NEW i, NEW k PROVE forked'[i] = forked[i] => Wanted(i, k)' = Wanted(i, k)
  BY <1>1, <1>2 DEF Wanted, At
<1>a. ASSUME NEW i, NEW k PROVE SpecAt(i, k).type \in Opens => Wanted(i, k)' = Wanted(i, k)
  <2>1. ASSUME SpecAt(i, k).type = "pipe-write" PROVE Wanted(i, k)' = Wanted(i, k)
    BY <2>1, <1>1 DEF Wanted
  <2>2. ASSUME SpecAt(i, k).type = "pipe-read" PROVE Wanted(i, k)' = Wanted(i, k)
    BY <2>2, <1>1, <1>2 DEF Wanted
  <2>3. ASSUME SpecAt(i, k).type = "capture" PROVE Wanted(i, k)' = Wanted(i, k)
    BY <2>3, <1>1 DEF Wanted
  <2>4. ASSUME SpecAt(i, k).type = "tempfile" PROVE Wanted(i, k)' = Wanted(i, k)
    BY <2>4, <1>1 DEF Wanted
  <2> QED BY <2>1, <2>2, <2>3, <2>4 DEF Opens
<1>b. \A i : Named(i)' = Named(i)
  BY DEF Named, Indices, SpecAt, NumberAt
<1>4. Readers' = Readers /\ Writers' = Writers
  BY <1>1 DEF Readers, Writers, Entries
<1>5. validate_procs_fds' = validate_procs_fds
  BY DEF validate_procs_fds, GoodNames, DistinctFds, ReadsMatched, ReadsAWriter,
         WritesMatched, Readers, Writers, Entries, ReadKey, WriteKey, NumberAt, SpecAt,
         Indices
<1> QED BY <1>1, <1>2, <1>3, <1>4, <1>5, <1>a, <1>b

\* What a program may hold depends on the batch only.
LEMMA OwnFrame ==
  ASSUME batch' = batch, NEW o, NEW i
  PROVE  Own(o, i)' <=> Own(o, i)
  BY BatchFrame DEF Own

\* What a handler has depends on the table and the batch.
LEMMA SuppliedFrame ==
  ASSUME TypeInv, HandlersOK, \A j \in Process : ProgressOK(j), batch' = batch,
         NEW i \in Process, handlers'[i] = handlers[i], NEW t, NEW k \in 1..Len(handlers[i])
  PROVE  (Supplied(t, i, k))' <=> Supplied(t', i, k)
<1>1. handlers[i][k].type \in Opens => SpecAt(i, k).type \in Opens
  BY HandlerFacts DEF Opens
<1>2. handlers[i][k].type \in Opens => Wanted(i, k)' = Wanted(i, k)
  BY <1>1, BatchFrame
<1> QED BY <1>2 DEF Supplied

\* Which numbers are free does not change once the process is forked.
LEMMA FreeFrame ==
  ASSUME batch' = batch, NEW i, forked'[i] = forked[i]
  PROVE  NumbersFree(i)' <=> NumbersFree(i)
  BY BatchFrame DEF NumbersFree, Open

\* A program's fds are as specified as long as they are left alone.
LEMMA ReadyFrame ==
  ASSUME NEW i \in Process, batch' = batch, table'[i] = table[i], forked'[i] = forked[i],
         ReadyOK(i)
  PROVE  ReadyOK(i)'
<1>1. \A k : Wanted(i, k)' = Wanted(i, k) /\ NumberAt(i, k)' = NumberAt(i, k)
  BY BatchFrame
<1>2. ASSUME NEW k \in Indices(i)', SpecAt(i, k)'.type # "dup"
      PROVE  At(table[i], NumberAt(i, k))' = Wanted(i, k)'
  <2>1. k \in Indices(i) /\ SpecAt(i, k).type # "dup"
    BY <1>2, BatchFrame
  <2>2. At(table[i], NumberAt(i, k)) = Wanted(i, k)
    BY <2>1 DEF ReadyOK
  <2>3. At(table[i], NumberAt(i, k))' = At(table[i], NumberAt(i, k))
    BY <1>1 DEF At
  <2> QED BY <2>2, <2>3, <1>1
<1> QED BY <1>2, OwnFrame DEF ReadyOK

\* So are those of a child that sets them up and does not move.
LEMMA SetupFrame ==
  ASSUME IInv, NEW i \in Process, SetupOK(i),
         batch' = batch, handlers'[i] = handlers[i], table'[i] = table[i],
         forked'[i] = forked[i], childPipes'[i] = childPipes[i], next'[i] = next[i]
  PROVE  SetupOK(i)'
<1>1. \A k : Wanted(i, k)' = Wanted(i, k) /\ SpecAt(i, k)' = SpecAt(i, k)
  BY BatchFrame
<1>2. Remaining(childPipes[i])' = Remaining(childPipes[i])
  BY DEF Remaining
<1>3. Apart(i)'
  BY <1>2, BatchFrame DEF SetupOK, Apart, UsedBy
<1>4. SetBefore(i)'
  <2> SUFFICES ASSUME NEW k \in 1..Len(handlers[i]), k < next[i], SpecAt(i, k).type # "dup"
               PROVE  At(table[i], handlers[i][k].fd)' = Wanted(i, k)
    BY <1>1 DEF SetBefore
  <2>1. At(table[i], handlers[i][k].fd) = Wanted(i, k)
    BY DEF SetupOK, SetBefore
  <2> QED BY <2>1 DEF At
<1>5. SetAfter(i)'
  <2> SUFFICES ASSUME NEW k \in 1..Len(handlers[i]), k >= next[i]
               PROVE  /\ At(table[i], handlers[i][k].fd)' = At(forked[i], handlers[i][k].fd)'
                      /\ Supplied(table[i], i, k)'
    BY DEF SetAfter
  <2>1. /\ At(table[i], handlers[i][k].fd) = At(forked[i], handlers[i][k].fd)
        /\ Supplied(table[i], i, k)
    BY DEF SetupOK, SetAfter
  <2>2. Supplied(table[i], i, k)' <=> Supplied(table[i]', i, k)
    BY SuppliedFrame DEF IInv
  <2> QED BY <2>1, <2>2 DEF At
<1>6. SetHolds(i)'
  <2>1. \A f : ReadOfCapture(f, i)' <=> ReadOfCapture(f, i)
    BY DEF ReadOfCapture
  <2> QED BY <1>2, <2>1, OwnFrame DEF SetupOK, SetHolds
<1> QED BY <1>3, <1>4, <1>5, <1>6 DEF SetupOK

\* A child that does not move and whose table is left alone is as it was.
LEMMA ChildFrame ==
  ASSUME IInv, NEW i \in Process,
         batch' = batch, handlers'[i] = handlers[i], table'[i] = table[i],
         forked'[i] = forked[i], childPipes'[i] = childPipes[i], next'[i] = next[i],
         ok'[i] = ok[i], child'[i] = child[i]
  PROVE  ChildOK(i)'
<1>1. ChildOK(i)
  BY DEF IInv
<1>2. SetupOK(i) => SetupOK(i)'
  BY SetupFrame
<1>3. ReadyOK(i) => ReadyOK(i)'
  BY ReadyFrame
<1>4. NumbersFree(i)' <=> NumbersFree(i)
  BY FreeFrame
<1> QED BY <1>1, <1>2, <1>3, <1>4 DEF ChildOK

\* The handlers are made for their entries as long as they are left alone.
LEMMA HandlersFrame ==
  ASSUME HandlersOK, batch' = batch, handlers' = handlers
  PROVE  HandlersOK'
  BY BatchFrame DEF HandlersOK, HandlerOK

\* So are the ends of pipes.
LEMMA PipesFrame ==
  ASSUME PipesOK, batch' = batch, handlers' = handlers, pipes' = pipes
  PROVE  PipesOK'
<1>1. \A i, k, end, key : Took(i, k, end, key)' <=> Took(i, k, end, key)
  BY BatchFrame DEF Took
<1>2. \A end, key : SomeTook(end, key)' <=> SomeTook(end, key)
  BY <1>1, BatchFrame DEF SomeTook
<1> QED BY <1>2 DEF PipesOK, PipeOK

\* A step of a child leaves what Procstar has alone.
LEMMA ParentFrame ==
  ASSUME IInv, UNCHANGED <<batch, pc, cur, pipes, handlers>>,
         table'[Parent] = table[Parent]
  PROVE  /\ Validated' /\ CurOK' /\ HandlersOK' /\ PipesOK'
         /\ ParentBase' /\ ParentKept' /\ ParentMade' /\ ParentAccounted' /\ NoPanic'
<1>1. Validated' /\ CurOK'
  BY BatchFrame DEF IInv, Validated, CurOK
<1>2. HandlersOK' /\ PipesOK'
  BY HandlersFrame, PipesFrame DEF IInv
<1>3. ParentBase' /\ ParentKept'
  BY DEF IInv, ParentBase, ParentKept
<1>4. ParentMade'
  <2>1. /\ TypeInv /\ HandlersOK /\ ParentMade /\ \A j \in Process : ProgressOK(j)
        /\ cur \in Process
    BY DEF IInv, TypeInv
  <2> SUFFICES ASSUME pc \in {"handlers", "slice"}, NEW k \in 1..Len(handlers[cur])
               PROVE  Supplied(table[Parent], cur, k)'
    BY DEF ParentMade
  <2>2. Supplied(table[Parent], cur, k)
    BY <2>1 DEF ParentMade
  <2>3. handlers[cur][k].type \in Opens => Wanted(cur, k)' = Wanted(cur, k)
    <3>1. handlers[cur][k].type \in Opens => SpecAt(cur, k).type \in Opens
      BY <2>1, HandlerFacts DEF Opens
    <3>2. SpecAt(cur, k).type \in Opens => Wanted(cur, k)' = Wanted(cur, k)
      BY BatchFrame
    <3> QED BY <3>1, <3>2
  <2> QED BY <2>2, <2>3 DEF Supplied
<1>5. ParentAccounted'
  <2>1. \A f : Accounted(f)' <=> Accounted(f)
    BY DEF Accounted, Kept, UsedBy
  <2> QED BY <2>1 DEF IInv, ParentAccounted
<1>6. NoPanic'
  BY BatchFrame DEF IInv, NoPanic
<1> QED BY <1>1, <1>2, <1>3, <1>4, <1>5, <1>6

\* Each end that Pipes keeps in the parent is outside of the standard fds.
LEMMA KeptNotBase ==
  ASSUME TypeInv, ParentBase, ParentKept, pc \in {"handlers", "slice", "close"},
         NEW key \in Key, NEW end \in Ends, pipes[key][end] # None
  PROVE  pipes[key][end] \in FdNum \ Base
<1>1. pipes[key] \in Pair
  BY DEF TypeInv
<1>2. pipes[key][end] \in FdNum
  BY <1>1 DEF Pair, Ends
<1>3. table[Parent][pipes[key][end]] = End(end, key)
  BY DEF ParentKept
<1>4. pipes[key][end] \notin Base
  BY <1>3 DEF ParentBase, End, Inherited, Ends
<1> QED BY <1>2, <1>4

\* Remaining() are the ends that Pipes keeps.
LEMMA RemainingEnds ==
  ASSUME NEW p
  PROVE  \A f : f \in Remaining(p) <=>
                  f # None /\ \E key \in Key, end \in Ends : p[key][end] = f
  BY DEF Remaining, Ends

-----------------------------------------------------------------------------
(* The steps of a child *)

\* What two handlers of a process use are different fds, as different things
\* are there.
LEMMA UsedApart ==
  ASSUME TypeInv, HandlersOK, validate_procs_fds, \A j \in Process : ProgressOK(j),
         NEW i \in Process, NEW t,
         NEW k \in 1..Len(handlers[i]), NEW m \in 1..Len(handlers[i]), k # m,
         Supplied(t, i, k), Supplied(t, i, m), NEW f, UsedBy(f, i, k)
  PROVE  ~UsedBy(f, i, m)
<1> DEFINE Reads(n) == End("capture read", <<i, handlers[i][n].fd>>)
<1>1. /\ k \in Indices(i) /\ m \in Indices(i)
      /\ handlers[i][k].fd = NumberAt(i, k) /\ handlers[i][m].fd = NumberAt(i, m)
      /\ handlers[i][k].type # "error" => SpecAt(i, k).type = handlers[i][k].type
      /\ handlers[i][m].type # "error" => SpecAt(i, m).type = handlers[i][m].type
  BY HandlerFacts
<1>2. handlers[i][k].fd # handlers[i][m].fd
  BY <1>1 DEF validate_procs_fds, DistinctFds
<1>3. Reads(k) # Reads(m)
  BY <1>2 DEF End
<1>4. ASSUME handlers[i][k].type \in Opens, handlers[i][m].type \in Opens
      PROVE  /\ Wanted(i, k) # Wanted(i, m)
             /\ Wanted(i, k) # Reads(m) /\ Wanted(i, m) # Reads(k)
  <2>1. SpecAt(i, k).type \in Opens /\ SpecAt(i, m).type \in Opens
    BY <1>1, <1>4 DEF Opens
  <2>2. Wanted(i, k) # Wanted(i, m)
    BY <2>1, <1>1, WantedDistinct DEF TypeInv
  <2>3. Wanted(i, k).end # "capture read" /\ Wanted(i, m).end # "capture read"
    BY <2>1, <1>1, WantedEnd DEF TypeInv
  <2>4. Reads(k).end = "capture read" /\ Reads(m).end = "capture read"
    BY DEF End
  <2> HIDE DEF Reads
  <2> QED BY <2>2, <2>3, <2>4
<1>5. ASSUME NEW n \in {k, m}, UsedBy(f, i, n)
      PROVE  /\ handlers[i][n].type \in Opens
             /\ t[f] = Wanted(i, n) \/ t[f] = Reads(n)
  BY <1>5 DEF UsedBy, Supplied, Opens
<1> HIDE DEF Reads
<1> QED BY <1>3, <1>4, <1>5

\* What a child has at a number that its spec names is its own.
LEMMA NamedOwn ==
  ASSUME NEW i \in Process, SetupOK(i), NEW f \in Named(i), At(table[i], f) # None
  PROVE  /\ Own(At(table[i], f), i)
         /\ ~(At(table[i], f).end = "capture read" /\ At(table[i], f).of[1] = i)
<1>1. f \in FdNum /\ At(table[i], f) = table[i][f] /\ table[i][f] # None
  BY DEF At
<1>2. f \notin Remaining(childPipes[i])
  BY DEF SetupOK, Apart
<1>3. ~ReadOfCapture(f, i)
  BY DEF SetupOK, Apart, ReadOfCapture, UsedBy
<1> QED BY <1>1, <1>2, <1>3 DEF SetupOK, SetHolds

\* The handler n of child i sets its fd to w and closes the fds C that it used.
Runs(i, n, w, C) ==
  /\ C \subseteq FdNum /\ \A f \in C : UsedBy(f, i, n)
  /\ handlers[i][n].type = "capture" => handlers[i][n].read \in C
  /\ SpecAt(i, n).type # "dup" => w = Wanted(i, n)
  /\ w # None => Own(w, i) /\ ~(w.end = "capture read" /\ w.of[1] = i)
  /\ At(table'[i], handlers[i][n].fd) = w
  /\ \A f \in C : table'[i][f] = None
  /\ \A f \in FdNum \ C : f # handlers[i][n].fd => table'[i][f] = table[i][f]

\* It leaves what the others need, and what the earlier ones have set.
LEMMA SetupStep ==
  ASSUME IInv, NEW i \in Process, SetupOK(i), validate_procs_fds, batch' = batch,
         handlers' = handlers, childPipes' = childPipes, forked' = forked,
         NEW n \in 1..Len(handlers[i]), next[i] = n, next'[i] = n + 1,
         NEW w, NEW C, Runs(i, n, w, C)
  PROVE  SetupOK(i)'
<1> DEFINE t == table[i]
           u == table'[i]
           Fd(k) == handlers[i][k].fd
<1>1. /\ C \subseteq FdNum /\ At(u, Fd(n)) = w /\ \A f \in C : u[f] = None
      /\ \A f \in FdNum \ C : f # Fd(n) => u[f] = t[f]
  BY DEF Runs
<1>2. /\ TypeInv /\ HandlersOK /\ \A j \in Process : ProgressOK(j)
      /\ Apart(i) /\ SetBefore(i) /\ SetAfter(i) /\ SetHolds(i) /\ n \in Nat
  BY DEF IInv, SetupOK
<1>3. \A k \in 1..Len(handlers[i]) :
        /\ k \in Nat /\ Fd(k) \in Named(i) /\ Fd(k) \notin C
        /\ k # n => Fd(k) # Fd(n)
  <2> TAKE k \in 1..Len(handlers[i])
  <2>1. /\ k \in Indices(i) /\ n \in Indices(i) /\ Fd(k) = NumberAt(i, k)
        /\ Fd(n) = NumberAt(i, n) /\ k \in Nat /\ Fd(k) \in Named(i)
    BY <1>2, HandlerFacts
  <2>2. Fd(k) \notin C
    BY <2>1, <1>2 DEF Runs, Apart
  <2>3. k # n => Fd(k) # Fd(n)
    BY <2>1 DEF validate_procs_fds, DistinctFds
  <2> QED BY <2>1, <2>2, <2>3
<1>4. \A k \in 1..Len(handlers[i]) : k # n => At(u, Fd(k)) = At(t, Fd(k))
  <2> HIDE DEF t, u, Fd
  <2> QED BY <1>1, <1>3 DEF At
<1>5. SetBefore(i)'
  <2> SUFFICES ASSUME NEW k \in 1..Len(handlers[i]), k < n + 1, SpecAt(i, k).type # "dup"
               PROVE  At(u, Fd(k)) = Wanted(i, k)
    BY BatchFrame DEF SetBefore, At
  <2>1. CASE k = n
    BY <2>1, <1>1 DEF Runs
  <2>2. CASE k # n
    <3>1. k < n
      BY <2>2, <1>2, <1>3
    <3> QED BY <3>1, <2>2, <1>2, <1>4 DEF SetBefore
  <2> QED BY <2>1, <2>2
<1>6. SetAfter(i)'
  <2> SUFFICES ASSUME NEW k \in 1..Len(handlers[i]), k >= n + 1
               PROVE  At(u, Fd(k)) = At(forked[i], Fd(k)) /\ Supplied(u, i, k)
    BY <1>2, SuppliedFrame DEF SetAfter, At
  <2>1. k # n /\ k >= n
    BY <1>2, <1>3
  <2>2. /\ At(t, Fd(k)) = At(forked[i], Fd(k)) /\ Supplied(t, i, k) /\ Supplied(t, i, n)
    BY <2>1, <1>2 DEF SetAfter
  <2>3. \A f \in C : ~UsedBy(f, i, k)
    <3>1. \A f \in C : UsedBy(f, i, n)
      BY DEF Runs
    <3> QED BY <3>1, <2>1, <2>2, <1>2, UsedApart
  <2>4. HandlerOK(i, k)
    BY <1>2 DEF HandlersOK
  <2>5. \A f \in FdNum : UsedBy(f, i, k) => u[f] = t[f]
    <3>1. ~UsedBy(Fd(n), i, k)
      BY <1>2, <1>3 DEF Apart
    <3> HIDE DEF t, u, Fd
    <3> QED BY <3>1, <2>3, <1>1
  <2>6. Supplied(u, i, k)
    BY <2>2, <2>4, <2>5 DEF Supplied, HandlerOK, UsedBy
  <2> QED BY <2>1, <2>2, <2>6, <1>4
<1>7. SetHolds(i)'
  <2> SUFFICES ASSUME NEW f \in FdNum, u[f] # None
               PROVE  /\ f \notin Remaining(childPipes[i]) => Own(u[f], i)
                      /\ u[f].end = "capture read" /\ u[f].of[1] = i =>
                           ReadOfCapture(f, i)'
    BY OwnFrame DEF SetHolds, Remaining
  <2>1. CASE f = Fd(n)
    <3>1. u[f] = w
      BY <2>1, <1>1 DEF At
    <3>2. w # None => Own(w, i) /\ ~(w.end = "capture read" /\ w.of[1] = i)
      BY DEF Runs
    <3> QED BY <3>1, <3>2
  <2>2. CASE f # Fd(n)
    <3>1. f \notin C /\ u[f] = t[f]
      BY <2>2, <1>1
    <3>2. ASSUME ReadOfCapture(f, i)
          PROVE  ReadOfCapture(f, i)'
      <4>1. PICK k \in 1..Len(handlers[i]) :
              k >= n /\ handlers[i][k].type = "capture" /\ handlers[i][k].read = f
        BY <3>2 DEF ReadOfCapture
      <4>2. k # n
        BY <3>1, <4>1 DEF Runs
      <4>3. k >= n + 1
        BY <4>1, <4>2, <1>2, <1>3
      <4> QED BY <4>1, <4>3 DEF ReadOfCapture
    <3> QED BY <3>1, <3>2, <1>2 DEF SetHolds
  <2> QED BY <2>1, <2>2
<1>8. Apart(i)'
  BY <1>2, BatchFrame DEF Apart, UsedBy, Remaining
<1> QED BY <1>5, <1>6, <1>7, <1>8 DEF SetupOK

\* The calls that a child makes, one by one
State == [t : [FdNum -> Cell], ok : BOOLEAN]

\* Each keeps a table a table.
LEMMA CallTypes ==
  ASSUME NEW s \in State
  PROVE  /\ Failed(s) \in State /\ ~Failed(s).ok
         /\ \A f : close(s, f) \in State
         /\ \A f, g : dup2(s, f, g) \in State
         /\ \A f : Dropped(s, f) \in State
         /\ \A f \in FdNum, c \in Cell : [s EXCEPT !.t = [@ EXCEPT ![f] = c]] \in State
<1>1. s.t \in [FdNum -> Cell] /\ s.ok \in BOOLEAN
  BY DEF State
<1>2. \A F : Without(s.t, F) \in [FdNum -> Cell]
  BY <1>1, NoneApart DEF Without
<1>3. \A v \in [FdNum -> Cell] : [s EXCEPT !.t = v] \in State
  BY DEF State
<1>4. Failed(s) \in State /\ ~Failed(s).ok
  BY DEF State, Failed
<1>5. ASSUME NEW f PROVE close(s, f) \in State /\ Dropped(s, f) \in State
  BY <1>2, <1>3, <1>4 DEF close, Dropped
<1>6. ASSUME NEW f \in FdNum, NEW c \in Cell
      PROVE  [s EXCEPT !.t = [@ EXCEPT ![f] = c]] \in State
  <2>1. [s.t EXCEPT ![f] = c] \in [FdNum -> Cell]
    BY <1>1
  <2> QED BY <2>1, <1>3
<1>7. ASSUME NEW f, NEW g PROVE dup2(s, f, g) \in State
  <2>1. CASE s.ok /\ Open(s.t, f) /\ g \in FdNum
    <3>1. s.t[f] \in Cell
      BY <2>1, <1>1 DEF Open
    <3> QED BY <2>1, <3>1, <1>6 DEF dup2
  <2>2. CASE ~(s.ok /\ Open(s.t, f) /\ g \in FdNum)
    BY <2>2, <1>4 DEF dup2
  <2> QED BY <2>1, <2>2
<1> QED BY <1>4, <1>5, <1>6, <1>7

\* What a close() that succeeds does, ...
LEMMA CloseDone ==
  ASSUME NEW s \in State, NEW f, close(s, f).ok
  PROVE  /\ s.ok /\ f \in FdNum /\ s.t[f] # None
         /\ close(s, f).t[f] = None
         /\ \A g \in FdNum : g # f => close(s, f).t[g] = s.t[g]
<1>1. ~Failed(s).ok /\ s.t \in [FdNum -> Cell]
  BY CallTypes DEF State
<1>2. s.ok /\ Open(s.t, f)
  BY <1>1 DEF close
<1>3. close(s, f).t = Without(s.t, {f})
  BY <1>2 DEF close, State
<1> QED BY <1>1, <1>2, <1>3 DEF Open, Without

\* ... and a dup2().
LEMMA DupDone ==
  ASSUME NEW s \in State, NEW f, NEW g, dup2(s, f, g).ok
  PROVE  /\ s.ok /\ f \in FdNum /\ g \in FdNum /\ s.t[f] # None
         /\ dup2(s, f, g).t[g] = s.t[f]
         /\ \A x \in FdNum : x # g => dup2(s, f, g).t[x] = s.t[x]
<1>1. ~Failed(s).ok /\ s.t \in [FdNum -> Cell]
  BY CallTypes DEF State
<1>2. s.ok /\ Open(s.t, f) /\ g \in FdNum
  BY <1>1 DEF dup2
<1>3. dup2(s, f, g).t = [s.t EXCEPT ![g] = s.t[f]]
  BY <1>2 DEF dup2, State
<1> QED BY <1>1, <1>2, <1>3 DEF Open

\* dup2(from, fd) and close(from) move what from refers to.
LEMMA DupCloseDone ==
  ASSUME NEW s \in State, NEW from, NEW fd, from # fd, DupThenClose(s, from, fd).ok
  PROVE  /\ s.ok /\ from \in FdNum /\ fd \in FdNum
         /\ DupThenClose(s, from, fd).t[fd] = s.t[from]
         /\ DupThenClose(s, from, fd).t[from] = None
         /\ \A f \in FdNum : f # from /\ f # fd => DupThenClose(s, from, fd).t[f] = s.t[f]
<1> DEFINE d == dup2(s, from, fd)
<1>1. d \in State
  BY CallTypes
<1>2. close(d, from).ok /\ DupThenClose(s, from, fd) = close(d, from)
  BY DEF DupThenClose
<1> HIDE DEF d
<1>3. /\ d.ok /\ close(d, from).t[from] = None
      /\ \A g \in FdNum : g # from => close(d, from).t[g] = d.t[g]
  BY <1>1, <1>2, CloseDone
<1>4. /\ s.ok /\ from \in FdNum /\ fd \in FdNum /\ d.t[fd] = s.t[from]
      /\ \A x \in FdNum : x # fd => d.t[x] = s.t[x]
  BY <1>3, DupDone DEF d
<1> QED BY <1>2, <1>3, <1>4

\* in_child() keeps a table a table.
LEMMA InChildType ==
  ASSUME NEW s \in State, NEW h \in Handler, NEW r \in in_child(s, h)
  PROVE  r \in State
<1>1. ASSUME NEW x \in State, NEW f, NEW g PROVE DupThenClose(x, f, g) \in State
  <2>1. dup2(x, f, g) \in State
    BY CallTypes
  <2> QED BY <2>1, CallTypes DEF DupThenClose
<1>2. CASE h.type = "inherit"
  BY <1>2 DEF in_child
<1>3. CASE h.type = "error"
  BY <1>3, CallTypes DEF in_child
<1>4. CASE h.type = "close"
  BY <1>4, CallTypes DEF in_child
<1>5. CASE h.type = "dup"
  BY <1>5, CallTypes DEF in_child
<1>6. CASE h.type = "file"
  <2>1. r \in OpenFile(s, h.fd)
    BY <1>6 DEF in_child
  <2>2. CASE r = Failed(s)
    BY <2>2, CallTypes
  <2>3. CASE r # Failed(s)
    <3> DEFINE o(f) == [s EXCEPT !.t = [@ EXCEPT ![f] = Opened]]
    <3>1. PICK f \in FdNum : r = IF f = h.fd THEN o(f) ELSE DupThenClose(o(f), f, h.fd)
      BY <2>1, <2>3 DEF OpenFile
    <3>2. o(f) \in State
      BY CallTypes, NoneApart
    <3> HIDE DEF o
    <3> QED BY <3>1, <3>2, <1>1
  <2> QED BY <2>2, <2>3
<1>7. CASE h.type = "tempfile"
  <2> DEFINE d == IF h.from = h.fd THEN s ELSE dup2(s, h.from, h.fd)
  <2>1. d \in State
    BY CallTypes
  <2>2. r = Dropped(d, h.from)
    BY <1>7 DEF in_child
  <2> HIDE DEF d
  <2> QED BY <2>1, <2>2, CallTypes
<1>8. CASE h.type = "capture"
  <2>1. close(s, h.read) \in State
    BY CallTypes
  <2>2. r = DupThenClose(close(s, h.read), h.from, h.fd)
    BY <1>8 DEF in_child
  <2> QED BY <2>1, <2>2, <1>1
<1>9. CASE h.type \in {"pipe-write", "pipe-read"}
  BY <1>1, <1>9 DEF in_child
<1> QED BY <1>2, <1>3, <1>4, <1>5, <1>6, <1>7, <1>8, <1>9 DEF Handler, Types

\* What in_child() makes of the fds: each type of handler is a case of Runs.
LEMMA InChildRuns ==
  ASSUME IInv, NEW i \in Process, SetupOK(i), validate_procs_fds,
         NEW n \in 1..Len(handlers[i]), next[i] = n,
         NEW r \in in_child([t |-> table[i], ok |-> TRUE], handlers[i][n]), r.ok,
         table'[i] = r.t
  PROVE  \E w, C : Runs(i, n, w, C)
<1> DEFINE t == table[i]
           h == handlers[i][n]
           W == Wanted(i, n)
           s == [t |-> t, ok |-> TRUE]
<1>1. /\ TypeInv /\ HandlersOK /\ \A j \in Process : ProgressOK(j)
      /\ Apart(i) /\ SetAfter(i) /\ n \in Nat
  BY DEF IInv, SetupOK
<1>2. /\ h \in Handler /\ n \in Indices(i) /\ h.fd = NumberAt(i, n)
      /\ h.fd \in Named(i) /\ (h.type # "error" => SpecAt(i, n).type = h.type)
      /\ HandlerOK(i, n)
  BY <1>1, HandlerFacts
<1>3. At(t, h.fd) = At(forked[i], h.fd) /\ Supplied(t, i, n)
  <2>1. n >= next[i]
    BY <1>1
  <2> QED BY <2>1, <1>1 DEF SetAfter
<1>4. t \in [FdNum -> Cell] /\ s \in State /\ s.t = t /\ r \in in_child(s, h)
  BY <1>1 DEF TypeInv, State
<1> HIDE DEF s
<1>5. h.type # "error"
  <2> SUFFICES ASSUME h.type = "error" PROVE FALSE
    OBVIOUS
  <2>1. r = Failed(s)
    BY <1>4 DEF in_child
  <2> QED BY <2>1, <1>4, CallTypes
<1>6. h.type \in Types /\ SpecAt(i, n).type = h.type
  BY <1>2, <1>5 DEF Handler
<1>7. Own(Opened, i) /\ Opened.end # "capture read"
  BY DEF Own, Opened, End
<1>8. ASSUME NEW f \in Named(i), At(t, f) # None
      PROVE  Own(At(t, f), i) /\ ~(At(t, f).end = "capture read" /\ At(t, f).of[1] = i)
  BY <1>8, NamedOwn
<1>9. CASE h.type = "inherit"
  <2>1. table'[i] = t
    BY <1>4, <1>9 DEF in_child
  <2>2. W = At(t, h.fd)
    BY <1>2, <1>3, <1>6, <1>9 DEF Wanted
  <2> DEFINE w == At(t, h.fd)
  <2>3. w # None => Own(w, i) /\ ~(w.end = "capture read" /\ w.of[1] = i)
    BY <1>2, <1>8
  <2>4. At(table'[i], h.fd) = w /\ W = w
    BY <2>1, <2>2
  <2> HIDE DEF w, W, h, t
  <2>5. Runs(i, n, w, {})
    BY <2>1, <2>3, <2>4, <1>9 DEF Runs, h, W, t
  <2> QED BY <2>5
<1>10. CASE h.type = "close"
  <2>1. r = close(s, h.fd)
    BY <1>4, <1>10 DEF in_child
  <2>2. /\ h.fd \in FdNum /\ r.t[h.fd] = None
        /\ \A g \in FdNum : g # h.fd => r.t[g] = t[g]
    BY <2>1, <1>4, CloseDone
  <2>3. W = None
    BY <1>6, <1>10 DEF Wanted
  <2>4. Runs(i, n, None, {})
    BY <2>2, <2>3, <1>10 DEF Runs, At
  <2> QED BY <2>4
<1>11. CASE h.type = "file"
  <2> DEFINE o(f) == [s EXCEPT !.t = [@ EXCEPT ![f] = Opened]]
  <2>1. r \in OpenFile(s, h.fd)
    BY <1>4, <1>11 DEF in_child
  <2>2. r # Failed(s)
    BY <1>4, CallTypes
  <2>3. PICK f \in FdNum : /\ Lowest(t, f)
                           /\ r = IF f = h.fd THEN o(f) ELSE DupThenClose(o(f), f, h.fd)
    BY <2>1, <2>2, <1>4 DEF OpenFile
  <2>4. /\ o(f) \in State /\ o(f).t[f] = Opened /\ t[f] = None
        /\ \A g \in FdNum : g # f => o(f).t[g] = t[g]
    <3>1. o(f) \in State
      BY <1>4, CallTypes, NoneApart
    <3>2. o(f).t = [t EXCEPT ![f] = Opened]
      BY <1>4 DEF State
    <3> QED BY <3>1, <3>2, <2>3, <1>4 DEF Lowest
  <2> HIDE DEF o
  <2>5. /\ h.fd \in FdNum /\ r.t[h.fd] = Opened
        /\ \A g \in FdNum : g # h.fd => r.t[g] = t[g]
    <3>1. CASE f = h.fd
      BY <3>1, <2>3, <2>4
    <3>2. CASE f # h.fd
      <4>1. r = DupThenClose(o(f), f, h.fd)
        BY <3>2, <2>3
      <4>2. /\ h.fd \in FdNum /\ r.t[h.fd] = Opened /\ r.t[f] = None
            /\ \A g \in FdNum : g # f /\ g # h.fd => r.t[g] = o(f).t[g]
        BY <4>1, <3>2, <2>4, DupCloseDone
      <4> QED BY <4>2, <2>4
    <3> QED BY <3>1, <3>2
  <2>6. W = Opened
    BY <1>6, <1>11 DEF Wanted
  <2>7. Runs(i, n, Opened, {})
    BY <2>5, <2>6, <1>7, <1>11 DEF Runs, At
  <2> QED BY <2>7
<1>12. CASE h.type = "dup"
  <2>1. r = IF h.from = h.fd THEN s ELSE dup2(s, h.from, h.fd)
    BY <1>4, <1>12 DEF in_child
  <2>2. h.from \in Named(i)
    BY <1>2, <1>6, <1>12 DEF HandlerOK, Named
  <2> DEFINE w == At(t, h.from)
  <2>3. w # None => Own(w, i) /\ ~(w.end = "capture read" /\ w.of[1] = i)
    BY <2>2, <1>8
  <2>4. /\ At(r.t, h.fd) = w /\ \A f \in FdNum : f # h.fd => r.t[f] = t[f]
    <3>1. CASE h.from = h.fd
      BY <3>1, <2>1, <1>4
    <3>2. CASE h.from # h.fd
      BY <3>2, <2>1, <1>4, DupDone DEF At
    <3> QED BY <3>1, <3>2
  <2> HIDE DEF w
  <2>5. Runs(i, n, w, {})
    BY <2>3, <2>4, <1>6, <1>12 DEF Runs
  <2> QED BY <2>5
<1>13. CASE h.type \in Opens
  <2> DEFINE C == IF h.type = "capture" THEN {h.from, h.read} ELSE {h.from}
  <2>1. /\ h.from \in FdNum /\ t[h.from] = W
        /\ h.type = "capture" =>
             h.read \in FdNum /\ t[h.read] = End("capture read", <<i, h.fd>>)
    BY <1>2, <1>3, <1>13 DEF HandlerOK, Supplied
  <2>2. W \in Object /\ W.end # "capture read" /\ Own(W, i)
    BY <1>1, <1>2, <1>5, <1>13, WantedEnd DEF TypeInv
  <2>3. h.type = "capture" => h.read # h.from
    <3>1. End("capture read", <<i, h.fd>>).end = "capture read"
      BY DEF End
    <3> QED BY <3>1, <2>1, <2>2
  <2>4. h.from # h.fd /\ (h.type = "capture" => h.read # h.fd)
    BY <1>1, <1>2, <1>13 DEF Apart, UsedBy
  <2>5. /\ h.fd \in FdNum /\ r.t[h.fd] = W
        /\ \A f \in C : r.t[f] = None
        /\ \A f \in FdNum \ C : f # h.fd => r.t[f] = t[f]
    <3>1. CASE h.type = "capture"
      <4> DEFINE c == close(s, h.read)
      <4>1. r = DupThenClose(c, h.from, h.fd) /\ c \in State
        BY <3>1, <1>4, CallTypes DEF in_child
      <4> HIDE DEF c, h, t, W
      <4>2. /\ c.ok /\ h.fd \in FdNum
            /\ r.t[h.fd] = c.t[h.from] /\ r.t[h.from] = None
            /\ \A f \in FdNum : f # h.from /\ f # h.fd => r.t[f] = c.t[f]
        BY <4>1, <2>4, DupCloseDone
      <4>3. c.t[h.read] = None /\ \A g \in FdNum : g # h.read => c.t[g] = t[g]
        BY <4>2, <1>4, CloseDone DEF c
      <4>4. /\ r.t[h.fd] = W /\ r.t[h.from] = None /\ r.t[h.read] = None
            /\ \A f \in FdNum : f # h.from /\ f # h.read /\ f # h.fd => r.t[f] = t[f]
        BY <4>2, <4>3, <2>1, <2>3, <2>4, <3>1
      <4> QED BY <4>2, <4>4, <3>1
    <3>2. CASE h.type = "tempfile"
      <4> DEFINE d == dup2(s, h.from, h.fd)
      <4>1. r = Dropped(d, h.from) /\ d \in State
        BY <3>2, <2>4, <1>4, CallTypes DEF in_child
      <4>2. d.ok /\ r.t = Without(d.t, {h.from})
        <5> HIDE DEF d
        <5> QED BY <4>1 DEF Dropped, State
      <4>3. /\ h.fd \in FdNum /\ d.t[h.fd] = t[h.from]
            /\ \A x \in FdNum : x # h.fd => d.t[x] = t[x]
        BY <4>2, <1>4, DupDone
      <4> HIDE DEF d, h, t, W
      <4>4. \A x \in FdNum : r.t[x] = IF x = h.from THEN None ELSE d.t[x]
        BY <4>2 DEF Without
      <4> QED BY <4>3, <4>4, <2>1, <2>4, <3>2
    <3>3. CASE h.type \in {"pipe-write", "pipe-read"}
      <4>1. r = DupThenClose(s, h.from, h.fd)
        BY <3>3, <1>4 DEF in_child
      <4> HIDE DEF h, t, W
      <4>2. /\ h.fd \in FdNum /\ r.t[h.fd] = t[h.from] /\ r.t[h.from] = None
            /\ \A f \in FdNum : f # h.from /\ f # h.fd => r.t[f] = t[f]
        BY <4>1, <2>4, <1>4, DupCloseDone
      <4> QED BY <4>2, <2>1, <3>3
    <3> QED BY <3>1, <3>2, <3>3, <1>13 DEF Opens
  <2>6. /\ C \subseteq FdNum /\ \A f \in C : UsedBy(f, i, n)
        /\ h.type = "capture" => h.read \in C
    BY <2>1, <1>13 DEF UsedBy
  <2>7. W # None
    BY <2>2, NoneApart
  <2> HIDE DEF C, W
  <2>8. Runs(i, n, W, C)
    BY <2>2, <2>5, <2>6 DEF Runs, W, At
  <2> QED BY <2>8
<1> QED BY <1>6, <1>9, <1>10, <1>11, <1>12, <1>13 DEF Types, Opens

\* A step of a child tells nothing of the others and of Procstar.
LEMMA ChildKeeps ==
  ASSUME IInv, NEW i \in Process, UNCHANGED <<batch, pc, cur, pipes, handlers, childPipes>>,
         forked' = forked, TypeInv', \A j \in Process \cup {Parent} : j # i => table'[j] = table[j],
         \A j \in Process : j # i => /\ child'[j] = child[j] /\ next'[j] = next[j]
                                     /\ ok'[j] = ok[j],
         child[i] # "none", child'[i] # "none", ChildOK(i)'
  PROVE  IInv'
<1>1. i # Parent
  BY NoneApart
<1>2. table'[Parent] = table[Parent]
  BY <1>1
<1>3. ASSUME NEW j \in Process PROVE ProgressOK(j)'
  <2>1. ProgressOK(j)
    BY DEF IInv
  <2> QED BY <2>1 DEF ProgressOK, Forked
<1>4. ASSUME NEW j \in Process PROVE ChildOK(j)'
  BY ChildFrame DEF IInv
<1>5. /\ Validated' /\ CurOK' /\ HandlersOK' /\ PipesOK'
      /\ ParentBase' /\ ParentKept' /\ ParentMade' /\ ParentAccounted' /\ NoPanic'
  BY <1>2, ParentFrame
<1> HIDE DEF IInv
<1> QED BY <1>3, <1>4, <1>5 DEF IInv

\* A child that has been forked belongs to a valid batch.
LEMMA ForkedValid ==
  ASSUME IInv, NEW i \in Process, child[i] # "none"
  PROVE  validate_procs_fds /\ Len(handlers[i]) = Len(batch[i])
<1>1. ProgressOK(i) /\ CurOK /\ Validated /\ TypeInv
  BY DEF IInv
<1>2. Forked(i) /\ Len(handlers[i]) = Len(batch[i])
  BY <1>1 DEF ProgressOK
<1>3. pc \notin {"validate", "rejected"}
  BY <1>1, <1>2, FdsAssumption DEF Forked, CurOK, Process
<1> QED BY <1>1, <1>2, <1>3 DEF Validated, TypeInv

\* The invariant is kept by a handler in a child, ...
LEMMA InChildKeeps ==
  ASSUME IInv, NEW i \in Process, InChild(i)
  PROVE  IInv'
<1> DEFINE n == next[i]
           h == handlers[i][n]
           s == [t |-> table[i], ok |-> TRUE]
<1>1. /\ child[i] = "setup" /\ n \in DOMAIN handlers[i]
      /\ next' = [next EXCEPT ![i] = @ + 1]
      /\ UNCHANGED <<batch, pc, cur, pipes, handlers, child, forked, childPipes>>
  BY DEF InChild
<1>2. PICK r \in in_child(s, h) : /\ table' = [table EXCEPT ![i] = r.t]
                                  /\ ok' = [ok EXCEPT ![i] = @ /\ r.ok]
  BY DEF InChild
<1>3. /\ TypeInv /\ HandlersOK /\ \A j \in Process : ProgressOK(j)
      /\ ChildOK(i) /\ validate_procs_fds
  BY <1>1, ForkedValid DEF IInv
<1>4. n \in 1..Len(handlers[i]) /\ n \in Nat /\ next'[i] = n + 1
  BY <1>1, <1>3 DEF TypeInv
<1>5. \A j \in Process : j # i => next'[j] = next[j] /\ child'[j] = child[j]
  BY <1>1, <1>3 DEF TypeInv
<1>6. next' \in [Process -> Nat]
  BY <1>1, <1>3, <1>4 DEF TypeInv
<1>7. r \in State
  <2>1. h \in Handler
    BY <1>3, <1>4, HandlerFacts
  <2>2. s \in State
    BY <1>3 DEF TypeInv, State
  <2> HIDE DEF s, h
  <2> QED BY <2>1, <2>2, InChildType
<1>8. r.t \in [FdNum -> Cell] /\ r.ok \in BOOLEAN
  BY <1>7 DEF State
<1>9. /\ table' \in [Process \cup {Parent} -> [FdNum -> Cell]] /\ table'[i] = r.t
      /\ \A j \in Process \cup {Parent} : j # i => table'[j] = table[j]
  BY <1>2, <1>3, <1>8 DEF TypeInv
<1>10. /\ ok' \in [Process -> BOOLEAN] /\ (ok'[i] <=> ok[i] /\ r.ok)
       /\ \A j \in Process : j # i => ok'[j] = ok[j]
  BY <1>2, <1>3, <1>8 DEF TypeInv
<1>11. TypeInv'
  BY <1>1, <1>3, <1>6, <1>9, <1>10 DEF TypeInv
<1>12. ChildOK(i)'
  <2>1. NumbersFree(i)' <=> NumbersFree(i)
    BY <1>1, FreeFrame
  <2>2. child'[i] = "setup"
    BY <1>1
  <2> SUFFICES ASSUME ok[i], r.ok, NumbersFree(i) PROVE SetupOK(i)'
    BY <2>1, <2>2, <1>10 DEF ChildOK
  <2>3. SetupOK(i)
    BY <1>1, <1>3 DEF ChildOK
  <2>4. PICK w, C : Runs(i, n, w, C)
    BY <2>3, <1>2, <1>3, <1>4, <1>9, InChildRuns
  <2> QED BY <2>3, <2>4, <1>1, <1>3, <1>4, SetupStep
<1> QED BY <1>1, <1>5, <1>9, <1>10, <1>11, <1>12, ChildKeeps

\* ... when it closes what is left of its Pipes, ...
LEMMA ChildReadyKeeps ==
  ASSUME IInv, NEW i \in Process, ChildReady(i)
  PROVE  IInv'
<1> DEFINE R == Remaining(childPipes[i])
           t == table[i]
<1>1. /\ child[i] = "setup" /\ next[i] = Len(handlers[i]) + 1
      /\ UNCHANGED <<batch, pc, cur, pipes, handlers, forked, childPipes, next, ok>>
  BY DEF ChildReady
<1>2. PICK F : /\ table' = [table EXCEPT ![i] = Without(@, F)]
               /\ \/ F = R /\ child' = [child EXCEPT ![i] = "ready"]
                  \/ child' = [child EXCEPT ![i] = "panic"]
  BY DEF ChildReady
<1>3. /\ TypeInv /\ HandlersOK /\ \A j \in Process : ProgressOK(j)
      /\ ChildOK(i) /\ validate_procs_fds /\ Len(handlers[i]) = Len(batch[i])
  BY <1>1, ForkedValid DEF IInv
<1>4. t \in [FdNum -> Cell]
  BY <1>3 DEF TypeInv
<1>5. Without(t, F) \in [FdNum -> Cell]
  BY <1>4, NoneApart DEF Without
<1>6. /\ table' \in [Process \cup {Parent} -> [FdNum -> Cell]]
      /\ table'[i] = Without(t, F)
      /\ \A j \in Process \cup {Parent} : j # i => table'[j] = table[j]
  BY <1>2, <1>3, <1>5 DEF TypeInv
<1>7. /\ child' \in [Process -> ChildState]
      /\ (F = R /\ child'[i] = "ready") \/ child'[i] = "panic"
      /\ \A j \in Process : j # i => child'[j] = child[j]
  BY <1>2, <1>3 DEF TypeInv, ChildState
<1>8. TypeInv'
  BY <1>1, <1>3, <1>6, <1>7 DEF TypeInv
<1>9. ChildOK(i)'
  <2>1. NumbersFree(i)' <=> NumbersFree(i)
    BY <1>1, FreeFrame
  <2> SUFFICES ASSUME ok[i], NumbersFree(i), F = R PROVE ReadyOK(i)'
    BY <2>1, <1>1, <1>7 DEF ChildOK
  <2>2. SetBefore(i) /\ SetHolds(i) /\ R \cap Named(i) = {}
    BY <1>1, <1>3 DEF ChildOK, SetupOK, Apart
  <2>3. \A f \in FdNum : table'[i][f] = IF f \in R THEN None ELSE t[f]
    BY <1>6 DEF Without
  <2>4. ASSUME NEW k \in Indices(i), SpecAt(i, k).type # "dup"
        PROVE  At(table'[i], NumberAt(i, k)) = Wanted(i, k)
    <3>1. Len(handlers[i]) \in Nat /\ Indices(i) = 1..Len(handlers[i])
      BY <1>3, BatchType DEF TypeInv
    <3>2. k \in 1..Len(handlers[i]) /\ k < next[i]
      BY <3>1, <1>1
    <3>3. handlers[i][k].fd = NumberAt(i, k) /\ NumberAt(i, k) \in Named(i)
      BY <3>2, <1>3, HandlerFacts
    <3>4. At(t, NumberAt(i, k)) = Wanted(i, k)
      BY <2>2, <2>4, <3>2, <3>3 DEF SetBefore
    <3>5. NumberAt(i, k) \notin R
      BY <2>2, <3>3
    <3> HIDE DEF R, t
    <3> QED BY <2>3, <3>4, <3>5 DEF At
  <2>5. ASSUME NEW f \in FdNum, table'[i][f] # None
        PROVE  /\ Own(table'[i][f], i)
               /\ table'[i][f].end = "capture read" => table'[i][f].of[1] # i
    <3>1. f \notin R /\ table'[i][f] = t[f]
      BY <2>3, <2>5
    <3>2. ~ReadOfCapture(f, i)
      <4>1. Len(handlers[i]) \in Nat
        BY <1>3 DEF TypeInv
      <4> QED BY <4>1, <1>1 DEF ReadOfCapture
    <3> QED BY <3>1, <3>2, <2>2, <2>5 DEF SetHolds
  <2>6. \A k : At(table[i], NumberAt(i, k))' = At(table'[i], NumberAt(i, k))
    BY <1>1, BatchFrame DEF At
  <2>7. \A k : Wanted(i, k)' = Wanted(i, k)
    BY <1>1, BatchFrame
  <2> QED BY <2>4, <2>5, <2>6, <2>7, <1>1, BatchFrame, OwnFrame DEF ReadyOK
<1> QED BY <1>1, <1>6, <1>7, <1>8, <1>9, ChildKeeps

\* ... when it executes the program or exits, and when the program ends.
LEMMA ExecKeeps ==
  ASSUME IInv, NEW i \in Process, Exec(i) \/ ProgramEnds(i)
  PROVE  IInv'
<1>1. /\ child[i] \in {"ready", "running"}
      /\ UNCHANGED <<batch, pc, cur, pipes, handlers, forked, childPipes, next, ok>>
      /\ \/ /\ child[i] = "ready" /\ ok[i] /\ UNCHANGED table
            /\ child' = [child EXCEPT ![i] = "running"]
         \/ /\ table' = table \/ table' = [table EXCEPT ![i] = NoFds]
            /\ child' = [child EXCEPT ![i] = "exited"]
  <2>1. CASE Exec(i) /\ ok[i]
    BY <2>1 DEF Exec
  <2>2. CASE Exec(i) /\ ~ok[i]
    BY <2>2 DEF Exec
  <2>3. CASE ProgramEnds(i)
    BY <2>3 DEF ProgramEnds
  <2> QED BY <2>1, <2>2, <2>3
<1>2. TypeInv /\ ChildOK(i)
  BY DEF IInv
<1>3. NoFds \in [FdNum -> Cell]
  BY NoneApart DEF NoFds
<1>4. /\ table' \in [Process \cup {Parent} -> [FdNum -> Cell]]
      /\ \A j \in Process \cup {Parent} : j # i => table'[j] = table[j]
  <2>1. table \in [Process \cup {Parent} -> [FdNum -> Cell]]
    BY <1>2 DEF TypeInv
  <2>2. CASE table' = table
    BY <2>1, <2>2
  <2>3. CASE table' = [table EXCEPT ![i] = NoFds]
    BY <1>3, <2>1, <2>3
  <2> QED BY <1>1, <2>2, <2>3
<1>5. /\ child' \in [Process -> ChildState]
      /\ child'[i] \in {"running", "exited"}
      /\ \A j \in Process : j # i => child'[j] = child[j]
  BY <1>1, <1>2 DEF TypeInv, ChildState
<1>6. TypeInv'
  BY <1>1, <1>2, <1>4, <1>5 DEF TypeInv
<1>7. ChildOK(i)'
  <2>1. CASE child'[i] = "exited"
    BY <2>1 DEF ChildOK
  <2>2. CASE child'[i] = "running"
    <3>1. /\ table'[i] = table[i] /\ child[i] = "ready" /\ ok'[i] /\ batch' = batch
          /\ forked'[i] = forked[i]
      BY <2>2, <1>1, <1>2 DEF TypeInv
    <3>2. (ReadyOK(i) => ReadyOK(i)') /\ (NumbersFree(i)' <=> NumbersFree(i))
      BY <3>1, ReadyFrame, FreeFrame
    <3> QED BY <3>1, <3>2, <2>2, <1>1, <1>2 DEF ChildOK
  <2> QED BY <2>1, <2>2, <1>5
<1> QED BY <1>1, <1>4, <1>5, <1>6, <1>7, ChildKeeps

-----------------------------------------------------------------------------
(* The steps of start_procs(), outside of make_fd_handler() *)

\* A step of the parent changes its own table only.
LEMMA ParentTable ==
  ASSUME TypeInv, NEW u \in [FdNum -> Cell], table' = [table EXCEPT ![Parent] = u]
  PROVE  /\ table' \in [Process \cup {Parent} -> [FdNum -> Cell]]
         /\ table'[Parent] = u
         /\ \A i \in Process : table'[i] = table[i]
  BY NoneApart DEF TypeInv

\* What Without() leaves of a table
LEMMA WithoutTable ==
  ASSUME NEW t \in [FdNum -> Cell], NEW F
  PROVE  /\ Without(t, F) \in [FdNum -> Cell]
         /\ \A f \in FdNum : Without(t, F)[f] = IF f \in F THEN None ELSE t[f]
  BY NoneApart DEF Without

\* It tells nothing of the children.
LEMMA ChildrenFrame ==
  ASSUME IInv, UNCHANGED <<batch, child, forked, childPipes, next, ok>>,
         \A i \in Process : table'[i] = table[i],
         \A i \in Process : child[i] # "none" => handlers'[i] = handlers[i]
  PROVE  \A i \in Process : ChildOK(i)'
<1> TAKE i \in Process
<1>1. ChildOK(i)
  BY DEF IInv
<1>2. CASE child[i] = "none"
  BY <1>2 DEF ChildOK
<1>3. CASE child[i] # "none"
  BY <1>1, <1>3, ChildFrame
<1> QED BY <1>2, <1>3

\* The invariant holds initially, ...
LEMMA InitInv == Init => IInv
<1> SUFFICES ASSUME Init PROVE IInv
  OBVIOUS
<1>1. N \in Nat /\ N # 0 /\ 1 \in Process
  BY FdsAssumption DEF Process
<1>2. TypeInv
  <2>1. NoFds \in [FdNum -> Cell] /\ NoPipes \in [Key -> Pair]
    BY NoneApart DEF NoFds, NoPipes, NoPipe, Pair
  <2>2. [f \in FdNum |-> IF f \in Base THEN Inherited ELSE None] \in [FdNum -> Cell]
    BY NoneApart
  <2>3. table \in [Process \cup {Parent} -> [FdNum -> Cell]]
    BY <2>1, <2>2 DEF Init
  <2>4. handlers \in [Process -> Seq(Handler)]
    BY DEF Init
  <2>5. forked \in [Process -> [FdNum -> Cell]] /\ child \in [Process -> ChildState]
    BY <2>1 DEF Init, ChildState
  <2> QED BY <2>1, <2>3, <2>4, <2>5, <1>1 DEF Init, TypeInv
<1>3. \A f \in FdNum : table[Parent][f] = IF f \in Base THEN Inherited ELSE None
  BY DEF Init, Parent
<1>4. Validated /\ CurOK /\ NoPanic /\ ParentMade
  BY <1>1 DEF Init, Validated, CurOK, NoPanic, ParentMade
<1>5. ASSUME NEW i \in Process PROVE ProgressOK(i) /\ ChildOK(i)
  <2>1. Len(batch[i]) \in Nat
    BY <1>2, BatchType DEF TypeInv
  <2>2. handlers[i] = <<>> /\ Len(handlers[i]) = 0 /\ child[i] = "none" /\ next[i] = 1
    BY DEF Init
  <2>3. ~Forked(i)
    BY <1>1 DEF Forked, Init, Process
  <2> QED BY <2>1, <2>2, <2>3 DEF ProgressOK, ChildOK
<1>6. \A i \in Process : Len(handlers[i]) = 0
  BY DEF Init
<1>7. HandlersOK
  BY <1>6 DEF HandlersOK
<1>8. PipesOK /\ ParentKept
  <2>1. \A end, key : ~SomeTook(end, key)
    BY <1>6 DEF SomeTook, Took
  <2>2. \A key \in Key : pipes[key] = NoPipe
    BY DEF Init, NoPipes
  <2>3. \A key \in Key, end \in Ends : pipes[key][end] = None
    BY <2>2 DEF NoPipe, Ends
  <2>4. PipesOK
    BY <2>1, <2>2 DEF PipesOK, PipeOK, NoPipe
  <2> QED BY <2>3, <2>4 DEF ParentKept
<1>9. ParentBase /\ ParentAccounted
  BY <1>3, NoneApart DEF ParentBase, ParentAccounted
<1> QED BY <1>2, <1>4, <1>5, <1>7, <1>8, <1>9 DEF IInv

\* ... and is kept when the batch is validated, ...
LEMMA ValidateKeeps ==
  ASSUME IInv, Validate
  PROVE  IInv'
<1>1. /\ pc = "validate" /\ pc' \in {"handlers", "rejected"}
      /\ pc' = "handlers" => validate_procs_fds
      /\ UNCHANGED <<batch, cur, pipes, handlers, table, child, forked, childPipes, next, ok>>
  BY DEF Validate
<1>2. /\ TypeInv /\ CurOK /\ HandlersOK /\ PipesOK /\ ParentBase /\ ParentAccounted
      /\ \A i \in Process : ProgressOK(i)
  BY DEF IInv
<1>3. TypeInv'
  BY <1>1, <1>2 DEF TypeInv
<1>4. Validated' /\ CurOK' /\ NoPanic' /\ ParentBase'
  BY <1>1, <1>2, BatchFrame DEF Validated, CurOK, NoPanic, ParentBase
<1>5. \A i \in Process : ProgressOK(i)'
  BY <1>1, <1>2 DEF ProgressOK, Forked
<1>6. HandlersOK' /\ PipesOK' /\ \A i \in Process : ChildOK(i)'
  BY <1>1, <1>2, HandlersFrame, PipesFrame, ChildrenFrame
<1>7. handlers[cur] = <<>> /\ Len(handlers[cur]) = 0
  BY <1>1, <1>2 DEF CurOK
<1>8. ParentMade'
  BY <1>1, <1>7 DEF ParentMade
<1>9. ParentKept'
  BY <1>1 DEF IInv, ParentKept
<1>10. ParentAccounted'
  BY <1>1, <1>2 DEF ParentAccounted, Accounted, Kept
<1> QED BY <1>3, <1>4, <1>5, <1>6, <1>8, <1>9, <1>10 DEF IInv

\* ... when a child is forked, which has what its handlers need, ...
LEMMA ForkChildKeeps ==
  ASSUME IInv, ForkChild
  PROVE  IInv'
<1> DEFINE t == table[Parent]
           R == Remaining(pipes)
<1>1. /\ pc = "handlers" /\ Len(handlers[cur]) = Len(batch[cur])
      /\ table' = [table EXCEPT ![cur] = t]
      /\ childPipes' = [childPipes EXCEPT ![cur] = pipes]
      /\ child' = [child EXCEPT ![cur] = "setup"]
      /\ pc' = "slice"
      /\ forked' = [forked EXCEPT ![cur] = t]
      /\ UNCHANGED <<batch, cur, pipes, handlers, next, ok>>
  BY DEF ForkChild
<1>2. /\ TypeInv /\ HandlersOK /\ PipesOK /\ cur \in Process
      /\ CurOK /\ ParentBase /\ ParentKept /\ ParentMade /\ ParentAccounted
      /\ validate_procs_fds /\ \A i \in Process : ProgressOK(i)
  BY <1>1 DEF IInv, Validated, TypeInv
<1>3. t \in [FdNum -> Cell] /\ Parent # cur /\ cur \in Nat
  BY <1>2, NoneApart, FdsAssumption DEF TypeInv, Process
<1>4. /\ table' \in [Process \cup {Parent} -> [FdNum -> Cell]]
      /\ table'[Parent] = t /\ table'[cur] = t
      /\ \A i \in Process : i # cur => table'[i] = table[i]
  BY <1>1, <1>2, <1>3 DEF TypeInv
<1>5. /\ child'[cur] = "setup" /\ childPipes'[cur] = pipes
      /\ \A i \in Process : i # cur =>
           child'[i] = child[i] /\ childPipes'[i] = childPipes[i]
      /\ child' \in [Process -> ChildState]
      /\ childPipes' \in [Process -> [Key -> Pair]]
      /\ forked' \in [Process -> [FdNum -> Cell]] /\ forked'[cur] = t
      /\ \A i \in Process : i # cur => forked'[i] = forked[i]
  BY <1>1, <1>2, <1>3 DEF TypeInv, ChildState
<1>6. TypeInv'
  BY <1>1, <1>2, <1>4, <1>5 DEF TypeInv
<1>7. Validated' /\ CurOK' /\ NoPanic' /\ HandlersOK' /\ PipesOK'
  <2>1. Validated' /\ CurOK' /\ NoPanic'
    BY <1>1, <1>2, BatchFrame DEF Validated, CurOK, NoPanic
  <2> QED BY <2>1, <1>1, <1>2, HandlersFrame, PipesFrame
<1>8. ParentBase' /\ ParentKept' /\ ParentMade' /\ ParentAccounted'
  <2>1. ParentBase' /\ ParentKept'
    BY <1>1, <1>2, <1>4 DEF ParentBase, ParentKept
  <2>2. ParentMade'
    BY <1>1, <1>2, <1>4, SuppliedFrame DEF ParentMade
  <2>3. \A f : Accounted(f) => Accounted(f)'
    BY <1>1, <1>4 DEF Accounted, Kept, UsedBy
  <2> QED BY <2>1, <2>2, <2>3, <1>1, <1>2, <1>4 DEF ParentAccounted
<1>9. ASSUME NEW i \in Process PROVE ProgressOK(i)'
  <2>1. ProgressOK(i) /\ i \in Nat
    BY <1>2, FdsAssumption DEF Process
  <2>2. Forked(i)' <=> Forked(i) \/ i = cur
    BY <1>1, <1>3, <2>1 DEF Forked
  <2>3. CASE i = cur
    BY <2>1, <2>2, <2>3, <1>1, <1>3, <1>5 DEF ProgressOK
  <2>4. CASE i # cur
    BY <2>1, <2>2, <2>4, <1>1, <1>5 DEF ProgressOK
  <2> QED BY <2>3, <2>4
<1>10. ASSUME NEW i \in Process PROVE ChildOK(i)'
  <2>1. CASE i # cur
    BY <2>1, <1>1, <1>4, <1>5, ChildFrame DEF IInv
  <2>2. CASE i = cur
    <3>1. child[cur] = "none" /\ next[cur] = 1
      <4>1. ~Forked(cur)
        BY <1>1, <1>3 DEF Forked
      <4> QED BY <4>1, <1>2 DEF ProgressOK
    <3>2. \A k \in 1..Len(handlers[cur]) : Supplied(t, cur, k)
      BY <1>1, <1>2 DEF ParentMade
    <3> SUFFICES ASSUME NumbersFree(cur)' PROVE SetupOK(cur)'
      BY <2>2, <1>1, <1>5 DEF ChildOK
    <3>3. ASSUME NEW f \in FdNum \ Base, t[f] # None PROVE f \notin Named(cur)
      <4>1. ASSUME f \in Named(cur) PROVE ~Open(t, f)
        BY <3>3, <4>1, <1>1, <1>5, BatchFrame DEF NumbersFree, Open
      <4> QED BY <4>1, <3>3 DEF Open
    <3>4. SetBefore(cur)' /\ SetAfter(cur)'
      <4>1. SetBefore(cur)'
        <5>1. \A k \in 1..Len(handlers[cur]) : ~(k < 1)
          OBVIOUS
        <5> QED BY <5>1, <3>1, <1>1 DEF SetBefore
      <4>2. SetAfter(cur)'
        <5> SUFFICES ASSUME NEW k \in 1..Len(handlers[cur])
                     PROVE  Supplied(table[cur], cur, k)'
          BY <1>1, <1>4, <1>5 DEF SetAfter, At
        <5>1. Supplied(table[cur], cur, k)' <=> Supplied(table[cur]', cur, k)
          BY <1>1, <1>2, SuppliedFrame
        <5>2. table[cur]' = t
          BY <1>1, <1>4
        <5> QED BY <5>1, <5>2, <3>2
      <4> QED BY <4>1, <4>2
    <3>5. ASSUME NEW f \in FdNum, t[f] # None
          PROVE  /\ f \notin R => Own(t[f], cur)
                 /\ t[f].end = "capture read" /\ t[f].of[1] = cur => ReadOfCapture(f, cur)
      <4>1. CASE f \in Base
        <5>1. t[f] = Inherited
          BY <4>1, <1>2 DEF ParentBase
        <5> QED BY <5>1 DEF Own, Inherited, End
      <4>2. CASE f \notin Base /\ Kept(f)
        <5>1. PICK key \in Key, end \in Ends : pipes[key][end] = f
          BY <4>2 DEF Kept
        <5>2. f # None
          BY NoneApart
        <5>3. f \in R
          BY <5>1, <5>2, RemainingEnds
        <5>4. t[f] = End(end, key)
          BY <5>1, <5>2, <1>1, <1>2 DEF ParentKept
        <5>5. t[f].end # "capture read"
          BY <5>4, EndFields DEF Ends
        <5> QED BY <5>3, <5>5
      <4>3. ASSUME NEW k \in 1..Len(handlers[cur]), UsedBy(f, cur, k)
            PROVE  /\ Own(t[f], cur)
                   /\ t[f].end = "capture read" => ReadOfCapture(f, cur)
        <5> DEFINE h == handlers[cur][k]
        <5>1. k \in Nat /\ k \in Indices(cur) /\ (h.type # "error" => SpecAt(cur, k).type = h.type)
          BY <1>2, HandlerFacts
        <5>2. CASE h.type \in Opens /\ f = h.from
          <6>1. t[f] = Wanted(cur, k)
            BY <5>2, <3>2 DEF Supplied
          <6>2. SpecAt(cur, k).type \in Opens
            BY <5>1, <5>2 DEF Opens
          <6> QED BY <6>1, <6>2, <5>1, <1>2, WantedEnd DEF TypeInv
        <5>3. CASE h.type = "capture" /\ f = h.read
          <6>1. t[f] = End("capture read", <<cur, h.fd>>)
            BY <5>3, <3>2 DEF Supplied
          <6>2. Own(t[f], cur)
            <7>1. t[f].end = "capture read"
              BY <6>1, EndFields
            <7> HIDE DEF t
            <7> QED BY <7>1 DEF Own
          <6>3. ReadOfCapture(f, cur)
            BY <5>1, <5>3, <3>1 DEF ReadOfCapture
          <6> QED BY <6>2, <6>3
        <5> QED BY <4>3, <5>2, <5>3 DEF UsedBy
      <4>4. ASSUME f \notin Base PROVE Accounted(f)
        BY <3>5, <4>4, <1>1, <1>2 DEF ParentAccounted
      <4>5. CASE t[f].end = "tempfile" \/ (t[f].end = "capture read" /\ t[f].of[1] < cur)
        <5>1. ~(cur < cur)
          BY <1>3
        <5> HIDE DEF t, R
        <5>2. Own(t[f], cur)
          BY <4>5 DEF Own
        <5>3. ~(t[f].end = "capture read" /\ t[f].of[1] = cur)
          BY <4>5, <5>1 DEF t
        <5> QED BY <5>2, <5>3
      <4> QED BY <4>1, <4>2, <4>3, <4>4, <4>5, <1>1 DEF Accounted
    <3>6. SetHolds(cur)'
      <4>1. \A f : ReadOfCapture(f, cur)' <=> ReadOfCapture(f, cur)
        BY <1>1 DEF ReadOfCapture
      <4>2. Remaining(childPipes[cur])' = R
        BY <1>1, <1>5 DEF Remaining
      <4> HIDE DEF R
      <4> QED BY <4>1, <4>2, <3>5, <1>1, <1>4, OwnFrame DEF SetHolds
    <3>7. R \cap Named(cur) = {}
      <4> SUFFICES ASSUME NEW f \in R PROVE f \notin Named(cur)
        OBVIOUS
      <4>1. PICK key \in Key, end \in Ends : pipes[key][end] = f /\ f # None
        BY RemainingEnds
      <4>2. f \in FdNum \ Base /\ t[f] = End(end, key)
        BY <4>1, <1>1, <1>2, KeptNotBase DEF ParentKept
      <4>3. t[f] # None
        BY <4>2, EndObject
      <4> QED BY <4>2, <4>3, <3>3
    <3>8. ASSUME NEW k \in 1..Len(handlers[cur]), NEW f, UsedBy(f, cur, k)
          PROVE  f \notin Named(cur)
      <4> DEFINE h == handlers[cur][k]
      <4>1. /\ HandlerOK(cur, k) /\ k \in Indices(cur) /\ h.fd = NumberAt(cur, k)
            /\ h.type # "error" => SpecAt(cur, k).type = h.type
        BY <1>2, HandlerFacts
      <4>2. f \in FdNum \ Base
        BY <4>1, <3>8 DEF HandlerOK, UsedBy, Opens
      <4>3. t[f] # None
        <5>1. CASE h.type \in Opens /\ f = h.from
          <6>1. t[f] = Wanted(cur, k)
            BY <5>1, <3>2 DEF Supplied
          <6>2. SpecAt(cur, k).type \in Opens
            BY <4>1, <5>1 DEF Opens
          <6>3. Wanted(cur, k) \in Object
            BY <6>2, <4>1, <1>2, WantedEnd DEF TypeInv
          <6> QED BY <6>1, <6>3, NoneApart
        <5>2. CASE h.type = "capture" /\ f = h.read
          <6>1. t[f] = End("capture read", <<cur, h.fd>>)
            BY <5>2, <3>2 DEF Supplied
          <6>2. <<cur, h.fd>> \in Key
            BY <4>1, <1>2, EntryType DEF TypeInv
          <6> QED BY <6>1, <6>2, EndObject
        <5> QED BY <3>8, <5>1, <5>2 DEF UsedBy
      <4> QED BY <4>2, <4>3, <3>3
    <3>9. Apart(cur)'
      <4>1. Remaining(childPipes[cur])' = R /\ Named(cur)' = Named(cur)
        BY <1>1, <1>5, BatchFrame DEF Remaining
      <4>2. \A f, k : UsedBy(f, cur, k)' <=> UsedBy(f, cur, k)
        BY <1>1 DEF UsedBy
      <4> HIDE DEF R
      <4> QED BY <4>1, <4>2, <3>7, <3>8, <1>1 DEF Apart
    <3> QED BY <3>4, <3>6, <3>9, <1>1 DEF SetupOK
  <2> QED BY <2>1, <2>2
<1> QED BY <1>6, <1>7, <1>8, <1>9, <1>10 DEF IInv

\* The handlers of a process are those of its entries.
LEMMA RangeHandlers ==
  ASSUME TypeInv, NEW i \in Process
  PROVE  \A h : h \in Range(handlers[i]) <=>
                  \E k \in 1..Len(handlers[i]) : h = handlers[i][k]
<1>1. handlers[i] \in Seq(Handler)
  BY DEF TypeInv
<1>2. DOMAIN handlers[i] = 1..Len(handlers[i])
  BY <1>1
<1> QED BY <1>2 DEF Range

\* An fd that a handler uses holds what its entry asks for: no standard fd, and
\* no end that Pipes keeps.
LEMMA UsedIsTaken ==
  ASSUME TypeInv, HandlersOK, PipesOK, ParentKept, ParentMade, validate_procs_fds,
         \A i \in Process : ProgressOK(i), pc \in {"handlers", "slice"},
         NEW k \in 1..Len(handlers[cur]), handlers[cur][k].type \in Opens
  PROVE  /\ handlers[cur][k].from \in FdNum \ Base
         /\ table[Parent][handlers[cur][k].from] = Wanted(cur, k)
         /\ handlers[cur][k].type = "tempfile" => Wanted(cur, k).end = "tempfile"
         /\ \A key \in Key, end \in Ends : pipes[key][end] # handlers[cur][k].from
<1> DEFINE h == handlers[cur][k]
<1>1. cur \in Process
  BY DEF TypeInv
<1>2. /\ HandlerOK(cur, k) /\ k \in Indices(cur) /\ h.type # "error"
      /\ SpecAt(cur, k).type = h.type
  BY <1>1, HandlerFacts DEF Opens
<1>3. h.from \in FdNum \ Base /\ h.from # None
  BY <1>2, NoneApart DEF HandlerOK
<1>4. table[Parent][h.from] = Wanted(cur, k)
  BY DEF ParentMade, Supplied
<1>5. h.type = "tempfile" => Wanted(cur, k).end = "tempfile"
  BY <1>1, <1>2, WantedEnd DEF TypeInv
<1>6. ASSUME NEW key \in Key, NEW end \in Ends, pipes[key][end] = h.from
      PROVE  FALSE
  <2>1. Wanted(cur, k) = End(end, key)
    BY <1>3, <1>4, <1>6 DEF ParentKept
  <2>2. Wanted(cur, k).end = end /\ Wanted(cur, k).of = key
    BY <2>1, EndFields
  <2>3. Took(cur, k, end, key)
    <3>1. /\ h.type = "pipe-write" => Wanted(cur, k) = End("write", <<cur, NumberAt(cur, k)>>)
          /\ h.type = "pipe-read" => Wanted(cur, k) = End("read", ReadKey(<<cur, k>>))
          /\ h.type = "capture" =>
               Wanted(cur, k) = End("capture write", <<cur, NumberAt(cur, k)>>)
          /\ h.type = "tempfile" => Wanted(cur, k) = End("tempfile", <<cur, NumberAt(cur, k)>>)
      BY <1>2 DEF Wanted
    <3>2. h.type \notin {"capture", "tempfile"}
      <4>1. h.type \in {"capture", "tempfile"} =>
              Wanted(cur, k).end \in {"capture write", "tempfile"}
        <5>1. ASSUME h.type = "capture" PROVE Wanted(cur, k).end = "capture write"
          BY <5>1, <3>1, EndFields
        <5>2. ASSUME h.type = "tempfile" PROVE Wanted(cur, k).end = "tempfile"
          BY <5>2, <3>1, EndFields
        <5> QED BY <5>1, <5>2
      <4> QED BY <4>1, <2>2 DEF Ends
    <3>3. CASE h.type = "pipe-write"
      <4>1. end = "write" /\ <<cur, NumberAt(cur, k)>> = key
        BY <3>1, <3>3, <2>2, EndFields
      <4> QED BY <4>1, <3>3 DEF Took
    <3>4. CASE h.type = "pipe-read"
      <4>1. end = "read" /\ ReadKey(<<cur, k>>) = key
        BY <3>1, <3>4, <2>2, EndFields
      <4>2. KeyRead(SpecAt(cur, k)) = key
        BY <4>1, <3>4, <1>1, <1>2, EntryType DEF TypeInv
      <4> QED BY <4>1, <4>2, <3>4 DEF Took
    <3> QED BY <3>2, <3>3, <3>4 DEF Opens
  <2>4. SomeTook(end, key)
    BY <2>3, <1>1, <1>2 DEF SomeTook
  <2>5. pipes[key][end] = None
    BY <2>4 DEF PipesOK, PipeOK
  <2> QED BY <2>5, <1>3, <1>6
<1> QED BY <1>3, <1>4, <1>5, <1>6

\* ... when a slice cannot be set up, ...
LEMMA SetUpSliceFailsKeeps ==
  ASSUME IInv, SetUpSliceFails
  PROVE  IInv'
<1> DEFINE files == {h \in Range(handlers[cur]) : h.type = "tempfile"}
           F == {h.from : h \in files}
           t == table[Parent]
<1>1. /\ pc = "slice" /\ pc' = "failed"
      /\ table' = [table EXCEPT ![Parent] = Without(t, F)]
      /\ UNCHANGED <<batch, cur, pipes, handlers, child, forked, childPipes, next, ok>>
  BY DEF SetUpSliceFails
<1>2. /\ TypeInv /\ HandlersOK /\ PipesOK /\ cur \in Process
      /\ CurOK /\ ParentBase /\ ParentKept /\ ParentMade
      /\ validate_procs_fds /\ \A i \in Process : ProgressOK(i)
  BY <1>1 DEF IInv, Validated, TypeInv
<1>3. t \in [FdNum -> Cell]
  BY <1>2 DEF TypeInv
<1>4. /\ Without(t, F) \in [FdNum -> Cell]
      /\ \A f \in FdNum : Without(t, F)[f] = IF f \in F THEN None ELSE t[f]
  <2> HIDE DEF F
  <2> QED BY <1>3, WithoutTable
<1>5. F \cap Base = {}
  <2> SUFFICES ASSUME NEW h \in files PROVE h.from \notin Base
    OBVIOUS
  <2>1. PICK k \in 1..Len(handlers[cur]) : h = handlers[cur][k]
    BY <1>2, RangeHandlers
  <2> QED BY <2>1, <1>1, <1>2, UsedIsTaken DEF Opens
<1> HIDE DEF F
<1>6. /\ table' \in [Process \cup {Parent} -> [FdNum -> Cell]]
      /\ table'[Parent] = Without(t, F)
      /\ \A i \in Process : table'[i] = table[i]
  BY <1>1, <1>2, <1>4, ParentTable
<1>7. TypeInv'
  BY <1>1, <1>2, <1>6 DEF TypeInv
<1>8. Validated' /\ CurOK' /\ NoPanic' /\ ParentKept' /\ ParentMade' /\ ParentAccounted'
  BY <1>1, <1>2, BatchFrame DEF Validated, CurOK, NoPanic, ParentKept, ParentMade, ParentAccounted
<1>9. HandlersOK' /\ PipesOK' /\ \A i \in Process : ChildOK(i)'
  BY <1>1, <1>2, <1>6, HandlersFrame, PipesFrame, ChildrenFrame
<1>10. \A i \in Process : ProgressOK(i)'
  BY <1>1, <1>2 DEF ProgressOK, Forked
<1>11. ParentBase'
  BY <1>2, <1>4, <1>5, <1>6, NoneApart DEF ParentBase
<1> QED BY <1>7, <1>8, <1>9, <1>10, <1>11 DEF IInv

\* ... when the handlers' ends are closed in the parent, which leaves the ends that
\* Pipes keeps, the temporary files and the read ends of the captures, ...
LEMMA InParentKeeps ==
  ASSUME IInv, InParent
  PROVE  IInv'
<1> DEFINE F == UNION {ClosesInParent(h) : h \in Range(handlers[cur])}
           t == table[Parent]
<1>1. /\ pc = "slice"
      /\ table' = [table EXCEPT ![Parent] = Without(t, F)]
      /\ pc' = IF cur = N THEN "close" ELSE "handlers"
      /\ cur' = IF cur = N THEN cur ELSE cur + 1
      /\ UNCHANGED <<batch, pipes, handlers, child, forked, childPipes, next, ok>>
  BY DEF InParent
<1>2. /\ TypeInv /\ HandlersOK /\ PipesOK /\ cur \in Process
      /\ CurOK /\ ParentBase /\ ParentKept /\ ParentMade /\ ParentAccounted
      /\ validate_procs_fds /\ \A i \in Process : ProgressOK(i)
  BY <1>1 DEF IInv, Validated, TypeInv
<1>3. t \in [FdNum -> Cell]
  BY <1>2 DEF TypeInv
<1>4. /\ Without(t, F) \in [FdNum -> Cell]
      /\ \A f \in FdNum : Without(t, F)[f] = IF f \in F THEN None ELSE t[f]
  <2> HIDE DEF F
  <2> QED BY <1>3, WithoutTable
<1>5. \A f \in F : f \notin Base /\ \A key \in Key, end \in Ends : pipes[key][end] # f
  <2> SUFFICES ASSUME NEW h \in Range(handlers[cur]), NEW f \in ClosesInParent(h)
               PROVE  f \notin Base /\ \A key \in Key, end \in Ends : pipes[key][end] # f
    OBVIOUS
  <2>1. PICK k \in 1..Len(handlers[cur]) : h = handlers[cur][k]
    BY <1>2, RangeHandlers
  <2>2. f = h.from /\ h.type \in Opens
    BY DEF ClosesInParent, Opens
  <2> QED BY <2>1, <2>2, <1>1, <1>2, UsedIsTaken
<1>6. \A k \in 1..Len(handlers[cur]) :
        handlers[cur][k].type \in Opens \ {"tempfile"} => handlers[cur][k].from \in F
  <2> SUFFICES ASSUME NEW k \in 1..Len(handlers[cur]),
                      handlers[cur][k].type \in Opens \ {"tempfile"}
               PROVE  handlers[cur][k].from \in F
    OBVIOUS
  <2>1. handlers[cur][k] \in Range(handlers[cur])
    BY <1>2, RangeHandlers
  <2>2. handlers[cur][k].from \in ClosesInParent(handlers[cur][k])
    BY DEF ClosesInParent, Opens
  <2> QED BY <2>1, <2>2
<1> HIDE DEF F
<1>7. /\ table' \in [Process \cup {Parent} -> [FdNum -> Cell]]
      /\ table'[Parent] = Without(t, F)
      /\ \A i \in Process : table'[i] = table[i]
  BY <1>1, <1>2, <1>4, ParentTable
<1>8. /\ cur \in Nat /\ N \in Nat /\ cur <= N /\ cur' \in Process /\ cur' \in Nat
      /\ \A i \in Process : i \in Nat
  BY <1>1, <1>2, FdsAssumption DEF Process
<1>9. TypeInv'
  BY <1>1, <1>2, <1>7, <1>8 DEF TypeInv
<1>10. Validated' /\ CurOK' /\ NoPanic'
  BY <1>1, <1>2, BatchFrame DEF Validated, CurOK, NoPanic
<1>11. HandlersOK' /\ PipesOK' /\ \A i \in Process : ChildOK(i)'
  BY <1>1, <1>2, <1>7, HandlersFrame, PipesFrame, ChildrenFrame
<1>12. ASSUME NEW i \in Process PROVE ProgressOK(i)'
  <2>1. ProgressOK(i) /\ i \in Nat
    BY <1>2, <1>8
  <2>2. Forked(i)' <=> Forked(i)
    BY <1>1, <1>8, <2>1 DEF Forked
  <2>3. i > cur' => i > cur
    BY <1>1, <1>8, <2>1
  <2> QED BY <2>1, <2>2, <2>3, <1>1 DEF ProgressOK
<1>13. ParentBase'
  BY <1>2, <1>4, <1>5, <1>7, NoneApart DEF ParentBase
<1>14. ParentKept'
  <2> SUFFICES ASSUME NEW key \in Key, NEW end \in Ends, pipes[key][end] # None
               PROVE  table'[Parent][pipes[key][end]] = End(end, key)
    BY <1>1 DEF ParentKept
  <2>1. pipes[key][end] \in FdNum /\ t[pipes[key][end]] = End(end, key)
    BY <1>1, <1>2, KeptNotBase DEF ParentKept
  <2>2. pipes[key][end] \notin F
    BY <1>5
  <2> QED BY <2>1, <2>2, <1>4, <1>7
<1>15. pc' = "handlers" => Len(handlers'[cur']) = 0
  <2> SUFFICES ASSUME pc' = "handlers" PROVE handlers[cur'] = <<>>
    BY <1>1
  <2>1. cur' > cur
    BY <1>1, <1>8
  <2> QED BY <2>1, <1>2, <1>8 DEF ProgressOK
<1>16. ParentMade'
  BY <1>1, <1>15 DEF ParentMade
<1>17. ParentAccounted'
  <2> SUFFICES ASSUME NEW f \in FdNum \ Base, table'[Parent][f] # None
               PROVE  Accounted(f)'
    BY DEF ParentAccounted
  <2>1. f \notin F /\ table'[Parent][f] = t[f] /\ t[f] # None
    BY <1>4, <1>7
  <2>2. Accounted(f)
    BY <2>1, <1>1, <1>2 DEF ParentAccounted
  <2>3. CASE t[f].end = "tempfile"
    BY <2>1, <2>3 DEF Accounted
  <2>4. CASE Kept(f)
    BY <2>4, <1>1 DEF Accounted, Kept
  <2>5. ASSUME t[f].end = "capture read", t[f].of[1] <= cur, t[f].of[1] \in Nat
        PROVE  Accounted(f)'
    <3>1. CASE cur = N
      BY <3>1, <2>1, <2>5, <1>1 DEF Accounted
    <3>2. CASE cur # N
      <4>1. \A x \in Nat : x <= cur => x < cur'
        BY <3>2, <1>1, <1>8
      <4>2. t[f].of[1] < cur'
        BY <4>1, <2>5
      <4> QED BY <4>2, <2>1, <2>5 DEF Accounted
    <3> QED BY <3>1, <3>2
  <2>6. CASE t[f].end = "capture read" /\ t[f].of[1] < cur
    <3>1. t[f] \in Object
      <4>1. t[f] \in Cell
        BY <1>3
      <4>2. Inherited.end # "capture read" /\ Opened.end # "capture read"
        BY DEF Inherited, Opened, End
      <4>3. t[f] # Inherited /\ t[f] # Opened
        BY <4>2, <2>6
      <4> HIDE DEF t
      <4> QED BY <4>1, <4>3, <2>1 DEF Cell
    <3>2. t[f].of[1] \in Process
      BY <3>1 DEF Object, Key
    <3>3. \A x \in Nat : x < cur => x <= cur
      BY <1>8
    <3> QED BY <3>2, <3>3, <2>5, <2>6, <1>8
  <2>7. ASSUME NEW k \in 1..Len(handlers[cur]), UsedBy(f, cur, k)
        PROVE  Accounted(f)'
    <3> DEFINE h == handlers[cur][k]
    <3>1. CASE h.type \in Opens /\ f = h.from
      <4>1. h.type = "tempfile"
        BY <3>1, <2>1, <1>6
      <4> QED BY <4>1, <3>1, <2>3, <1>1, <1>2, UsedIsTaken
    <3>2. CASE h.type = "capture" /\ f = h.read
      <4>1. t[f] = End("capture read", <<cur, h.fd>>)
        BY <3>2, <1>1, <1>2 DEF ParentMade, Supplied
      <4>2. t[f].end = "capture read" /\ t[f].of[1] = cur
        <5>1. t[f].end = "capture read" /\ t[f].of = <<cur, h.fd>>
          <6> DEFINE key == <<cur, h.fd>>
          <6>1. /\ End("capture read", key).end = "capture read"
                /\ End("capture read", key).of = key
            BY EndFields
          <6>2. t[f] = End("capture read", key)
            BY <4>1
          <6> HIDE DEF key, t
          <6>3. t[f].end = "capture read" /\ t[f].of = key
            BY <6>1, <6>2
          <6> QED BY <6>3 DEF key
        <5>2. <<cur, h.fd>>[1] = cur
          OBVIOUS
        <5> QED BY <5>1, <5>2
      <4>3. cur <= cur
        BY <1>8
      <4> QED BY <4>2, <4>3, <2>5, <1>8
    <3> QED BY <3>1, <3>2, <2>7 DEF UsedBy
  <2> QED BY <2>2, <2>3, <2>4, <2>6, <2>7, <1>1 DEF Accounted
<1> QED BY <1>9, <1>10, <1>11, <1>12, <1>13, <1>14, <1>16, <1>17 DEF IInv

\* An end that is left when all children are forked is that of a pipe whose
\* other user's handler is there for an error.
LEMMA LeftForError ==
  ASSUME IInv, pc = "close", NEW key \in Key, NEW end \in Ends, pipes[key][end] # None
  PROVE  \E x \in Writers \cup Readers :
           /\ x[2] \in DOMAIN handlers[x[1]]
           /\ handlers[x[1]][x[2]].type = "error"
<1>1. /\ TypeInv /\ HandlersOK /\ PipeOK(key) /\ CurOK /\ validate_procs_fds
      /\ \A i \in Process : ProgressOK(i)
  BY DEF IInv, Validated, PipesOK
<1>2. pipes[key].made /\ ~SomeTook(end, key)
  BY <1>1 DEF PipeOK, Ends
<1>3. PICK other \in Ends : other # end /\ pipes[key][other] = None
  <2>1. CASE end = "read"
    BY <2>1, <1>1 DEF PipeOK, Ends
  <2>2. CASE end = "write"
    BY <2>2, <1>1 DEF PipeOK, Ends
  <2> QED BY <2>1, <2>2 DEF Ends
<1>4. SomeTook(other, key)
  BY <1>1, <1>2, <1>3 DEF PipeOK
<1>a. PICK i \in Process : \E k \in Indices(i) : Took(i, k, other, key)
  BY <1>4 DEF SomeTook
<1>5. PICK k \in Indices(i) : Took(i, k, other, key)
  BY <1>a
<1>6. k \in 1..Len(handlers[i]) /\ SpecAt(i, k).type = handlers[i][k].type
  <2>1. k \in 1..Len(handlers[i]) /\ handlers[i][k].type # "error"
    BY <1>5 DEF Took
  <2> QED BY <2>1, <1>1, HandlerFacts
<1>7. \A j \in Process : /\ Len(handlers[j]) = Len(batch[j])
                         /\ DOMAIN handlers[j] = 1..Len(handlers[j])
                         /\ Indices(j) = 1..Len(batch[j])
  <2> TAKE j \in Process
  <2>1. Forked(j)
    BY <1>1, FdsAssumption DEF Forked, CurOK, Process
  <2>2. Len(handlers[j]) = Len(batch[j])
    BY <2>1, <1>1 DEF ProgressOK
  <2>3. handlers[j] \in Seq(Handler)
    BY <1>1 DEF TypeInv
  <2>4. Indices(j) = 1..Len(batch[j])
    BY <1>1, BatchType DEF TypeInv
  <2> QED BY <2>2, <2>3, <2>4
<1>8. ASSUME NEW j \in Process, NEW m \in Indices(j), NEW type,
             SpecAt(j, m).type = type,
             \/ end = "write" /\ type = "pipe-write" /\ <<j, NumberAt(j, m)>> = key
             \/ end = "read" /\ type = "pipe-read" /\ KeyRead(SpecAt(j, m)) = key,
             <<j, m>> \in Writers \cup Readers
      PROVE  \E x \in Writers \cup Readers :
               /\ x[2] \in DOMAIN handlers[x[1]]
               /\ handlers[x[1]][x[2]].type = "error"
  <2>1. m \in 1..Len(handlers[j]) /\ m \in DOMAIN handlers[j]
    BY <1>7
  <2>2. ~Took(j, m, end, key)
    BY <1>2, <1>8 DEF SomeTook
  <2>3. handlers[j][m].type # type
    BY <2>1, <2>2, <1>8 DEF Took
  <2>4. handlers[j][m].type = "error"
    BY <2>1, <2>3, <1>1, <1>8, HandlerFacts
  <2> DEFINE x == <<j, m>>
  <2>5. x \in Writers \cup Readers /\ x[1] = j /\ x[2] = m
    BY <1>8
  <2> HIDE DEF x
  <2> QED BY <2>1, <2>4, <2>5
<1>9. CASE end = "write"
  <2>1. other = "read" /\ SpecAt(i, k).type = "pipe-read" /\ KeyRead(SpecAt(i, k)) = key
    BY <1>9, <1>3, <1>5, <1>6 DEF Took, Ends
  <2>2. <<i, k>> \in Readers /\ ReadKey(<<i, k>>) = key
    BY <2>1, <1>1, EntryType DEF TypeInv
  <2>3. PICK w \in Writers : WriteKey(w) = key
    BY <2>2, <1>1 DEF validate_procs_fds, ReadsMatched, ReadsAWriter
  <2>a. PICK j \in Process : \E m \in Indices(j) :
          w = <<j, m>> /\ SpecAt(j, m).type = "pipe-write"
    BY DEF Writers, Entries
  <2>4. PICK m \in Indices(j) : w = <<j, m>> /\ SpecAt(j, m).type = "pipe-write"
    BY <2>a
  <2>5. <<j, NumberAt(j, m)>> = key
    BY <2>3, <2>4, <1>1, EntryType DEF TypeInv
  <2> QED BY <2>3, <2>4, <2>5, <1>8, <1>9
<1>10. CASE end = "read"
  <2>1. /\ other = "write" /\ SpecAt(i, k).type = "pipe-write"
        /\ <<i, NumberAt(i, k)>> = key
    BY <1>10, <1>3, <1>5, <1>6 DEF Took, Ends
  <2>2. <<i, k>> \in Writers /\ WriteKey(<<i, k>>) = key
    BY <2>1, <1>1, EntryType DEF TypeInv
  <2>3. PICK r \in Readers : ReadKey(r) = key
    BY <2>2, <1>1 DEF validate_procs_fds, WritesMatched
  <2>a. PICK j \in Process : \E m \in Indices(j) :
          r = <<j, m>> /\ SpecAt(j, m).type = "pipe-read"
    BY DEF Readers, Entries
  <2>4. PICK m \in Indices(j) : r = <<j, m>> /\ SpecAt(j, m).type = "pipe-read"
    BY <2>a
  <2>5. KeyRead(SpecAt(j, m)) = key
    BY <2>3, <2>4, <1>1, EntryType DEF TypeInv
  <2> QED BY <2>3, <2>4, <2>5, <1>8, <1>10
<1> QED BY <1>9, <1>10 DEF Ends

\* ... when the rest of Pipes is closed, ...
LEMMA ClosePipesKeeps ==
  ASSUME IInv, ClosePipes
  PROVE  IInv'
<1> DEFINE F == Remaining(pipes)
           t == table[Parent]
<1>1. /\ pc = "close" /\ pc' \in {"done", "panic"} /\ (pc' = "panic" => F # {})
      /\ table' = [table EXCEPT ![Parent] = Without(t, F)]
      /\ UNCHANGED <<batch, cur, pipes, handlers, child, forked, childPipes, next, ok>>
  BY DEF ClosePipes
<1>2. /\ TypeInv /\ HandlersOK /\ PipesOK /\ cur \in Process
      /\ CurOK /\ ParentBase /\ ParentKept /\ ParentAccounted
      /\ validate_procs_fds /\ \A i \in Process : ProgressOK(i)
  BY <1>1 DEF IInv, Validated, TypeInv
<1>3. t \in [FdNum -> Cell]
  BY <1>2 DEF TypeInv
<1>4. \A f : f \in F <=> f # None /\ \E key \in Key, end \in Ends : pipes[key][end] = f
  BY RemainingEnds
<1>5. F \cap Base = {}
  <2> HIDE DEF F
  <2> QED BY <1>1, <1>2, <1>4, KeptNotBase
<1> HIDE DEF F
<1>6. /\ Without(t, F) \in [FdNum -> Cell]
      /\ \A f \in FdNum : Without(t, F)[f] = IF f \in F THEN None ELSE t[f]
  BY <1>3, WithoutTable
<1>7. /\ table' \in [Process \cup {Parent} -> [FdNum -> Cell]]
      /\ table'[Parent] = Without(t, F)
      /\ \A i \in Process : table'[i] = table[i]
  BY <1>1, <1>2, <1>6, ParentTable
<1>8. TypeInv'
  BY <1>1, <1>2, <1>7 DEF TypeInv
<1>9. Validated' /\ CurOK' /\ ParentKept' /\ ParentMade'
  BY <1>1, <1>2, BatchFrame DEF Validated, CurOK, ParentKept, ParentMade
<1>10. HandlersOK' /\ PipesOK' /\ \A i \in Process : ChildOK(i)'
  BY <1>1, <1>2, <1>7, HandlersFrame, PipesFrame, ChildrenFrame
<1>11. \A i \in Process : ProgressOK(i)'
  BY <1>1, <1>2 DEF ProgressOK, Forked
<1>12. ParentBase'
  BY <1>2, <1>5, <1>6, <1>7, NoneApart DEF ParentBase
<1>13. NoPanic'
  <2> SUFFICES ASSUME pc' = "panic" PROVE NoPanic'
    BY DEF NoPanic
  <2>1. PICK f : f \in F
    BY <1>1
  <2>2. PICK key \in Key, end \in Ends : pipes[key][end] # None
    BY <2>1, <1>4
  <2>3. \E x \in Writers \cup Readers :
          /\ x[2] \in DOMAIN handlers[x[1]]
          /\ handlers[x[1]][x[2]].type = "error"
    BY <2>2, <1>1, LeftForError
  <2> QED BY <2>3, <1>1, BatchFrame DEF NoPanic
<1>14. ParentAccounted'
  <2> SUFFICES ASSUME NEW f \in FdNum \ Base, table'[Parent][f] # None
               PROVE  Accounted(f)'
    BY DEF ParentAccounted
  <2>1. f \notin F /\ table'[Parent][f] = t[f] /\ t[f] # None /\ f # None
    BY <1>6, <1>7, NoneApart
  <2>2. Accounted(f) /\ ~Kept(f)
    BY <2>1, <1>1, <1>2, <1>4 DEF ParentAccounted, Kept
  <2> QED BY <2>1, <2>2, <1>1 DEF Accounted
<1> QED BY <1>8, <1>9, <1>10, <1>11, <1>12, <1>13, <1>14 DEF IInv

-----------------------------------------------------------------------------
(* make_fd_handler() *)

\* start_procs() adds the handler h for entry k.
HandlerFor(k, h) ==
  /\ h \in Handler /\ h.fd = NumberAt(cur, k)
  /\ h.type \in {SpecAt(cur, k).type, "error"}
  /\ h.type = "dup" => h.from = SpecAt(cur, k).fd
  /\ h.type \in Opens => h.from \in FdNum \ Base
  /\ h.type = "capture" => h.read \in FdNum \ Base
Adds(k, h) ==
  /\ MakesHandler(k, SpecAt(cur, k).type)
  /\ handlers' = [handlers EXCEPT ![cur] = Append(@, h)]
  /\ HandlerFor(k, h)
  /\ pc' = pc

\* It comes after those that are there.
LEMMA AddedHandlers ==
  ASSUME IInv, NEW k, NEW h, Adds(k, h)
  PROVE  /\ handlers' \in [Process -> Seq(Handler)]
         /\ \A i \in Process : i # cur => handlers'[i] = handlers[i]
         /\ Len(handlers[cur]) \in Nat /\ k = Len(handlers[cur]) + 1
         /\ Len(handlers'[cur]) = k /\ handlers'[cur][k] = h
         /\ \A m \in 1..Len(handlers[cur]) : handlers'[cur][m] = handlers[cur][m]
<1>1. /\ handlers \in [Process -> Seq(Handler)] /\ cur \in Process
      /\ h \in Handler /\ k = Len(handlers[cur]) + 1
      /\ handlers' = [handlers EXCEPT ![cur] = Append(@, h)]
  BY DEF IInv, TypeInv, Adds, MakesHandler, HandlerFor
<1> DEFINE q == handlers[cur]
<1>2. q \in Seq(Handler) /\ Len(q) \in Nat
  BY <1>1
<1>3. /\ Append(q, h) \in Seq(Handler) /\ Len(Append(q, h)) = Len(q) + 1
      /\ Append(q, h)[Len(q) + 1] = h
      /\ \A m \in 1..Len(q) : Append(q, h)[m] = q[m]
  <2> HIDE DEF q
  <2> QED BY <1>1, <1>2
<1>4. handlers'[cur] = Append(q, h)
  BY <1>1
<1>5. \A i \in Process : i # cur => handlers'[i] = handlers[i]
  BY <1>1
<1>6. handlers' \in [Process -> Seq(Handler)]
  BY <1>1, <1>3
<1> HIDE DEF q
<1>7. /\ Len(handlers'[cur]) = k /\ handlers'[cur][k] = h
      /\ \A m \in 1..Len(q) : handlers'[cur][m] = q[m]
  BY <1>1, <1>2, <1>3, <1>4 DEF q
<1> QED BY <1>1, <1>2, <1>5, <1>6, <1>7 DEF q

\* What start_procs() does not do while it makes handlers
LEMMA AddsFacts ==
  ASSUME IInv, NEW k, NEW h, Adds(k, h)
  PROVE  /\ pc = "handlers" /\ pc' = pc /\ k \in Indices(cur) /\ cur \in Process
         /\ UNCHANGED <<batch, cur, child, forked, childPipes, next, ok>>
         /\ TypeInv /\ validate_procs_fds /\ HandlersOK /\ PipesOK /\ CurOK
         /\ ParentBase /\ ParentKept /\ ParentMade /\ ParentAccounted
         /\ \A i \in Process : ProgressOK(i)
  BY DEF IInv, TypeInv, Validated, Adds, MakesHandler

\* The parts of the invariant that are about the handlers and the children
LEMMA AddsKeeps ==
  ASSUME IInv, NEW k, NEW h, Adds(k, h), pipes' \in [Key -> Pair],
         table' \in [Process \cup {Parent} -> [FdNum -> Cell]],
         \A i \in Process : table'[i] = table[i]
  PROVE  /\ TypeInv' /\ Validated' /\ CurOK' /\ HandlersOK' /\ NoPanic'
         /\ \A i \in Process : ProgressOK(i)' /\ ChildOK(i)'
<1>1. /\ pc = "handlers" /\ pc' = pc /\ k \in Indices(cur) /\ cur \in Process
      /\ UNCHANGED <<batch, cur, child, forked, childPipes, next, ok>>
      /\ TypeInv /\ validate_procs_fds /\ HandlersOK /\ CurOK
      /\ \A i \in Process : ProgressOK(i)
  BY AddsFacts
<1>2. /\ handlers' \in [Process -> Seq(Handler)]
      /\ \A i \in Process : i # cur => handlers'[i] = handlers[i]
      /\ Len(handlers[cur]) \in Nat /\ k = Len(handlers[cur]) + 1
      /\ Len(handlers'[cur]) = k /\ handlers'[cur][k] = h
      /\ \A m \in 1..Len(handlers[cur]) : handlers'[cur][m] = handlers[cur][m]
  BY AddedHandlers
<1>3. TypeInv'
  BY <1>1, <1>2 DEF TypeInv
<1>4. Validated' /\ CurOK' /\ NoPanic'
  BY <1>1, BatchFrame DEF Validated, CurOK, NoPanic
<1>5. HandlersOK'
  <2> SUFFICES ASSUME NEW i \in Process, NEW m \in 1..Len(handlers'[i])
               PROVE  HandlerOK(i, m)'
    BY DEF HandlersOK
  <2>1. CASE i # cur
    BY <2>1, <1>1, <1>2, BatchFrame DEF HandlersOK, HandlerOK
  <2>2. CASE i = cur /\ m = k
    <3>1. HandlerFor(k, h)
      BY DEF Adds
    <3> QED BY <2>2, <3>1, <1>1, <1>2, BatchFrame DEF HandlerFor, HandlerOK
  <2>3. CASE i = cur /\ m # k
    <3>1. m \in 1..Len(handlers[cur])
      BY <2>3, <1>2
    <3>2. handlers'[i][m] = handlers[i][m] /\ HandlerOK(i, m)
      BY <2>3, <3>1, <1>1, <1>2 DEF HandlersOK
    <3> QED BY <3>2, <1>1, BatchFrame DEF HandlerOK
  <2> QED BY <2>1, <2>2, <2>3
<1>6. \A i \in Process : i \in Nat
  BY FdsAssumption DEF Process
<1>7. ~Forked(cur) /\ child[cur] = "none" /\ ~(cur > cur)
  BY <1>1, <1>6 DEF Forked, ProgressOK
<1>8. ASSUME NEW i \in Process PROVE ProgressOK(i)'
  <2>1. ProgressOK(i)
    BY <1>1
  <2>2. Forked(i)' <=> Forked(i)
    BY <1>1 DEF Forked
  <2>3. CASE i # cur
    BY <2>1, <2>2, <2>3, <1>1, <1>2 DEF ProgressOK
  <2>4. CASE i = cur
    <3>1. Len(handlers'[cur]) <= Len(batch[cur])
      <4>1. Indices(cur) = 1..Len(batch[cur]) /\ Len(batch[cur]) \in Nat
        BY <1>1, BatchType DEF TypeInv
      <4> QED BY <4>1, <1>1, <1>2
    <3> QED BY <2>1, <2>2, <2>4, <3>1, <1>1, <1>7 DEF ProgressOK
  <2> QED BY <2>3, <2>4
<1>9. \A i \in Process : ChildOK(i)'
  <2>1. \A i \in Process : child[i] # "none" => handlers'[i] = handlers[i]
    BY <1>2, <1>7
  <2> QED BY <2>1, <1>1, ChildrenFrame
<1> QED BY <1>3, <1>4, <1>5, <1>8, <1>9

\* The handler h of entry k takes that end of the pipe of key.
Takes(k, h, end, key) ==
  \/ end = "write" /\ h.type = "pipe-write" /\ <<cur, NumberAt(cur, k)>> = key
  \/ end = "read" /\ h.type = "pipe-read" /\ KeyRead(SpecAt(cur, k)) = key

\* The ends that are taken after a handler is added
LEMMA TookAdds ==
  ASSUME IInv, NEW k, NEW h, Adds(k, h), NEW end, NEW key
  PROVE  SomeTook(end, key)' <=> SomeTook(end, key) \/ Takes(k, h, end, key)
<1>1. k \in Indices(cur) /\ cur \in Process /\ batch' = batch /\ cur' = cur
  BY AddsFacts
<1>2. /\ \A i \in Process : i # cur => handlers'[i] = handlers[i]
      /\ Len(handlers[cur]) \in Nat /\ k = Len(handlers[cur]) + 1
      /\ Len(handlers'[cur]) = k /\ handlers'[cur][k] = h
      /\ \A m \in 1..Len(handlers[cur]) : handlers'[cur][m] = handlers[cur][m]
  BY AddedHandlers
<1>3. \A m : \A i \in Process : ~(i = cur /\ m = k) =>
        (Took(i, m, end, key)' <=> Took(i, m, end, key))
  <2> SUFFICES ASSUME NEW i \in Process, NEW m, ~(i = cur /\ m = k)
               PROVE  Took(i, m, end, key)' <=> Took(i, m, end, key)
    OBVIOUS
  <2>1. CASE i # cur
    BY <2>1, <1>1, <1>2, BatchFrame DEF Took
  <2>2. CASE i = cur
    <3>1. m \in 1..Len(handlers'[cur]) <=> m \in 1..Len(handlers[cur])
      BY <2>2, <1>2
    <3> QED BY <2>2, <3>1, <1>1, <1>2, BatchFrame DEF Took
  <2> QED BY <2>1, <2>2
<1>4. Took(cur, k, end, key)' <=> Takes(k, h, end, key)
  <2>1. k \in 1..Len(handlers'[cur])
    BY <1>2
  <2> QED BY <2>1, <1>1, <1>2, BatchFrame DEF Took, Takes
<1>5. ~Took(cur, k, end, key)
  BY <1>2 DEF Took
<1>6. ASSUME NEW i \in Process
      PROVE  Indices(i)' = Indices(i)
  BY <1>1, BatchFrame
<1>7. SomeTook(end, key)' <=>
        \E i \in Process : \E m \in Indices(i) : Took(i, m, end, key)'
  BY <1>6 DEF SomeTook
<1> QED BY <1>1, <1>3, <1>4, <1>5, <1>7 DEF SomeTook

\* Handlers without pipes take no ends.
LEMMA PipesAdds ==
  ASSUME IInv, NEW k, NEW h, Adds(k, h), pipes' = pipes,
         h.type \notin {"pipe-write", "pipe-read"}
  PROVE  PipesOK'
<1>1. \A end, key : SomeTook(end, key)' <=> SomeTook(end, key)
  BY TookAdds DEF Takes
<1> QED BY <1>1 DEF IInv, PipesOK, PipeOK

\* What the parent opens for a handler, or hands to it, is accounted for by it.
Supplies(k, h) ==
  LET t == table[Parent]
      u == table'[Parent]
      uses(f) == \/ h.type \in Opens /\ f = h.from
                 \/ h.type = "capture" /\ f = h.read
  IN  /\ \A f \in FdNum : t[f] # None => u[f] = t[f]
      /\ h.type \in Opens => u[h.from] = Wanted(cur, k)
      /\ h.type = "capture" => u[h.read] = End("capture read", <<cur, h.fd>>)
      /\ \A f \in FdNum \ Base : u[f] # None /\ t[f] = None => uses(f) \/ Kept(f)'
      /\ \A f \in FdNum \ Base : Kept(f) => uses(f) \/ Kept(f)'

\* The invariant is kept by a step that adds a handler, supplies it and leaves
\* Pipes in order.
LEMMA SuppliedKeeps ==
  ASSUME IInv, NEW k, NEW h, Adds(k, h), pipes' \in [Key -> Pair],
         table' \in [Process \cup {Parent} -> [FdNum -> Cell]],
         \A i \in Process : table'[i] = table[i],
         Supplies(k, h), PipesOK', ParentKept'
  PROVE  IInv'
<1> DEFINE t == table[Parent]
           u == table'[Parent]
<1>1. /\ pc = "handlers" /\ pc' = pc /\ k \in Indices(cur) /\ cur \in Process
      /\ batch' = batch /\ cur' = cur
      /\ TypeInv /\ validate_procs_fds /\ HandlersOK
      /\ ParentBase /\ ParentKept /\ ParentMade /\ ParentAccounted
      /\ \A i \in Process : ProgressOK(i)
  BY AddsFacts
<1>2. /\ Len(handlers[cur]) \in Nat /\ k = Len(handlers[cur]) + 1
      /\ Len(handlers'[cur]) = k /\ handlers'[cur][k] = h
      /\ \A m \in 1..Len(handlers[cur]) : handlers'[cur][m] = handlers[cur][m]
  BY AddedHandlers
<1>3. /\ TypeInv' /\ Validated' /\ CurOK' /\ HandlersOK' /\ NoPanic'
      /\ \A i \in Process : ProgressOK(i)' /\ ChildOK(i)'
  BY AddsKeeps
<1>4. \A f \in FdNum : t[f] # None => u[f] = t[f]
  BY DEF Supplies
<1>5. ParentBase'
  BY <1>1, <1>4, NoneApart DEF ParentBase
<1>6. ASSUME NEW m \in 1..Len(handlers[cur])
      PROVE  Supplied(u, cur, m)
  <2> DEFINE g == handlers[cur][m]
  <2>1. Supplied(t, cur, m)
    BY <1>1 DEF ParentMade
  <2>2. HandlerOK(cur, m) /\ m \in Indices(cur)
        /\ (g.type # "error" => SpecAt(cur, m).type = g.type)
    BY <1>1, HandlerFacts
  <2>3. ASSUME g.type \in Opens PROVE u[g.from] = Wanted(cur, m)
    <3>1. SpecAt(cur, m).type \in Opens
      BY <2>2, <2>3 DEF Opens
    <3>2. Wanted(cur, m) # None
      <4>1. Wanted(cur, m) \in Object
        BY <3>1, <2>2, <1>1, WantedEnd DEF TypeInv
      <4> QED BY <4>1, NoneApart
    <3>3. g.from \in FdNum /\ t[g.from] = Wanted(cur, m)
      BY <2>1, <2>2, <2>3 DEF Supplied, HandlerOK
    <3> QED BY <3>2, <3>3, <1>4
  <2>4. ASSUME g.type = "capture" PROVE u[g.read] = End("capture read", <<cur, g.fd>>)
    <3>1. g.read \in FdNum /\ t[g.read] = End("capture read", <<cur, g.fd>>)
      BY <2>1, <2>2, <2>4 DEF Supplied, HandlerOK
    <3>2. g.fd \in Number
      BY <1>1, HandlerFacts
    <3>3. End("capture read", <<cur, g.fd>>) \in Object
      BY <3>2, <1>1 DEF End, Object, Key
    <3>4. t[g.read] # None
      BY <3>1, <3>3, NoneApart
    <3> QED BY <3>1, <3>4, <1>4
  <2> QED BY <2>3, <2>4 DEF Supplied
<1>7. ParentMade'
  <2> SUFFICES ASSUME NEW m \in 1..Len(handlers'[cur])
               PROVE  Supplied(table[Parent], cur, m)'
    BY <1>1 DEF ParentMade
  <2>1. CASE m = k
    <3>1. /\ h.type \in Opens => u[h.from] = Wanted(cur, k)
          /\ h.type = "capture" => u[h.read] = End("capture read", <<cur, h.fd>>)
      BY DEF Supplies
    <3>2. h.type \in Opens => Wanted(cur, k)' = Wanted(cur, k)
      <4>1. h.type \in Opens => SpecAt(cur, k).type \in Opens
        BY DEF Adds, HandlerFor, Opens
      <4> QED BY <4>1, <1>1, BatchFrame
    <3> QED BY <2>1, <3>1, <3>2, <1>1, <1>2 DEF Supplied
  <2>2. CASE m # k
    <3>1. m \in 1..Len(handlers[cur])
      BY <2>2, <1>2
    <3>2. Supplied(u, cur, m) /\ handlers'[cur][m] = handlers[cur][m]
      BY <3>1, <1>2, <1>6
    <3>3. handlers[cur][m].type \in Opens => Wanted(cur, m)' = Wanted(cur, m)
      <4>1. handlers[cur][m].type \in Opens => SpecAt(cur, m).type \in Opens
        BY <3>1, <1>1, HandlerFacts DEF Opens
      <4> QED BY <4>1, <1>1, BatchFrame
    <3> QED BY <3>2, <3>3, <1>1 DEF Supplied
  <2> QED BY <2>1, <2>2
<1>8. ParentAccounted'
  <2> SUFFICES ASSUME NEW f \in FdNum \ Base, u[f] # None
               PROVE  Accounted(f)'
    BY DEF ParentAccounted
  <2>1. ASSUME NEW m \in 1..Len(handlers'[cur]), UsedBy(f, cur, m)'
        PROVE  Accounted(f)'
    BY <2>1, <1>1 DEF Accounted
  <2>2. ASSUME Kept(f)' PROVE Accounted(f)'
    BY <2>2, <1>1 DEF Accounted
  <2>3. k \in 1..Len(handlers'[cur])
    BY <1>2
  <2>4. ASSUME \/ h.type \in Opens /\ f = h.from
               \/ h.type = "capture" /\ f = h.read
        PROVE  Accounted(f)'
    <3>1. UsedBy(f, cur, k)'
      BY <2>4, <1>1, <1>2 DEF UsedBy
    <3> QED BY <3>1, <2>1, <2>3
  <2>5. CASE t[f] = None
    BY <2>5, <2>2, <2>4 DEF Supplies
  <2>6. CASE Kept(f)
    BY <2>6, <2>2, <2>4 DEF Supplies
  <2>7. ASSUME NEW m \in 1..Len(handlers[cur]), UsedBy(f, cur, m)
        PROVE  Accounted(f)'
    <3>1. m \in 1..Len(handlers'[cur])
      BY <1>2
    <3>2. UsedBy(f, cur, m)'
      BY <2>7, <1>1, <1>2 DEF UsedBy
    <3> QED BY <3>1, <3>2, <2>1
  <2>8. CASE t[f] # None
    <3>1. Accounted(f) /\ u[f] = t[f]
      BY <2>8, <1>1, <1>4 DEF ParentAccounted
    <3>2. CASE t[f].end = "tempfile" \/ (t[f].end = "capture read" /\ t[f].of[1] < cur)
      BY <3>1, <3>2, <1>1 DEF Accounted
    <3> QED BY <3>1, <3>2, <2>6, <2>7, <1>1 DEF Accounted
  <2> QED BY <2>5, <2>8
<1> QED BY <1>3, <1>5, <1>7, <1>8 DEF IInv

\* The invariant is kept when a handler is made that needs nothing in the
\* parent, ...
LEMMA PlainKeeps ==
  ASSUME IInv, NEW k, NEW h, Adds(k, h), UNCHANGED <<pipes, table>>, h.type \notin Opens
  PROVE  IInv'
<1>1. TypeInv /\ ParentKept /\ pc' = pc
  BY AddsFacts
<1>2. PipesOK'
  BY PipesAdds DEF Opens
<1>3. ParentKept'
  BY <1>1 DEF ParentKept
<1>4. \A f : Kept(f)' <=> Kept(f)
  BY DEF Kept
<1>5. h.type # "capture"
  BY DEF Opens
<1>6. Supplies(k, h)
  BY <1>4, <1>5 DEF Supplies
<1> QED BY <1>1, <1>2, <1>3, <1>6, SuppliedKeeps DEF TypeInv

\* The facts with which a handler is made
LEMMA MakesFacts ==
  ASSUME IInv, NEW k, NEW type, MakesHandler(k, type)
  PROVE  /\ TypeInv /\ cur \in Process /\ k \in Indices(cur) /\ validate_procs_fds
         /\ SpecAt(cur, k).type = type /\ SpecAt(cur, k) \in FdSpec
         /\ pc = "handlers" /\ k = Len(handlers[cur]) + 1
         /\ NumberAt(cur, k) \in Number /\ <<cur, NumberAt(cur, k)>> \in Key
         /\ HandlersOK /\ PipesOK /\ ParentBase /\ ParentKept
         /\ \A i \in Process : ProgressOK(i)
<1>1. /\ TypeInv /\ cur \in Process /\ k \in Indices(cur) /\ validate_procs_fds
      /\ SpecAt(cur, k).type = type /\ pc = "handlers" /\ k = Len(handlers[cur]) + 1
      /\ HandlersOK /\ PipesOK /\ ParentBase /\ ParentKept
      /\ \A i \in Process : ProgressOK(i)
  BY DEF IInv, MakesHandler, Validated, TypeInv
<1>2. SpecAt(cur, k) \in FdSpec
  BY <1>1, BatchType DEF TypeInv
<1>3. NumberAt(cur, k) \in Number /\ <<cur, NumberAt(cur, k)>> \in Key
  BY <1>1, EntryType DEF TypeInv
<1> QED BY <1>1, <1>2, <1>3

\* ... and when it stands for an error, ...
LEMMA MakePlainKeeps ==
  ASSUME IInv, NEW k, NEW type, MakePlain(k, type) \/ MakeError(k, type)
  PROVE  IInv'
<1> DEFINE fd == NumberAt(cur, k)
<1>1. MakesHandler(k, type) /\ UNCHANGED <<pc, pipes, table>>
  BY DEF MakePlain, MakeError
<1>2. /\ SpecAt(cur, k).type = type /\ SpecAt(cur, k) \in FdSpec /\ fd \in Number
  BY <1>1, MakesFacts
<1>3. CASE MakePlain(k, type)
  <2> DEFINE from == IF type = "dup" THEN SpecAt(cur, k).fd ELSE None
             h == [type |-> type, fd |-> fd, from |-> from, read |-> None]
  <2>1. type \in {"inherit", "close", "file", "dup"} /\ AddHandler(k, type, from, None)
    BY <1>3 DEF MakePlain
  <2>2. type = "dup" => from = SpecAt(cur, k).fd /\ from \in Int
    BY <1>2, SpecTypes
  <2>3. from \in Int \cup {None}
    BY <2>2
  <2> HIDE DEF from, fd
  <2>4. HandlerFor(k, h)
    <3>1. h \in Handler
      BY <2>1, <2>3, <1>2 DEF Handler, Types
    <3>2. /\ h.type = type /\ h.fd = NumberAt(cur, k) /\ h.from = from
          /\ type \notin Opens /\ type # "capture"
      BY <2>1 DEF Opens, fd
    <3> HIDE DEF h
    <3> QED BY <3>1, <3>2, <2>2, <1>2 DEF HandlerFor
  <2>5. Adds(k, h) /\ h.type \notin Opens
    BY <2>1, <2>4, <1>1, <1>2 DEF Adds, AddHandler, Opens, fd
  <2> HIDE DEF h
  <2> QED BY <2>5, <1>1, PlainKeeps
<1>4. CASE MakeError(k, type)
  <2> DEFINE h == [type |-> "error", fd |-> fd, from |-> None, read |-> None]
  <2>1. AddHandler(k, "error", None, None)
    BY <1>4 DEF MakeError
  <2>2. HandlerFor(k, h)
    BY <1>2 DEF HandlerFor, Handler, Opens
  <2>3. Adds(k, h) /\ h.type \notin Opens
    BY <2>1, <2>2, <1>1, <1>2 DEF Adds, AddHandler, Opens
  <2> HIDE DEF h
  <2> QED BY <2>3, <1>1, PlainKeeps
<1> QED BY <1>3, <1>4

\* The fd of a file, or the first of a pipe, is a new one.
LEMMA LowestNew ==
  ASSUME TypeInv, ParentBase, NEW f \in FdNum, Lowest(table[Parent], f)
  PROVE  table[Parent][f] = None /\ f \notin Base
  BY NoneApart DEF Lowest, ParentBase

\* ... when a temporary file is made, ...
LEMMA MakeTempFileKeeps ==
  ASSUME IInv, NEW k, MakeTempFile(k)
  PROVE  IInv'
<1> DEFINE fd == NumberAt(cur, k)
           file == End("tempfile", <<cur, fd>>)
           t == table[Parent]
<1>1. PICK f \in FdNum :
        /\ MakesHandler(k, "tempfile") /\ Lowest(t, f) /\ UNCHANGED <<pc, pipes>>
        /\ table' = [table EXCEPT ![Parent][f] = file]
        /\ AddHandler(k, "tempfile", f, None)
  BY DEF MakeTempFile
<1>2. /\ TypeInv /\ cur \in Process /\ k \in Indices(cur) /\ validate_procs_fds
      /\ SpecAt(cur, k).type = "tempfile" /\ fd \in Number
      /\ <<cur, fd>> \in Key /\ ParentBase /\ ParentKept
  BY <1>1, MakesFacts
<1> DEFINE h == [type |-> "tempfile", fd |-> fd, from |-> f, read |-> None]
<1>3. t[f] = None /\ f \notin Base
  BY <1>1, <1>2, LowestNew
<1>4. h.type = "tempfile" /\ h.from = f /\ h \in Handler
  BY <1>2, NoneApart DEF Handler, Types
<1>5. HandlerFor(k, h)
  BY <1>2, <1>3, <1>4 DEF HandlerFor, Opens
<1>6. Adds(k, h)
  BY <1>1, <1>2, <1>5 DEF Adds, AddHandler
<1>7. file \in Object /\ file \in Cell /\ Wanted(cur, k) = file
  BY <1>2, NoneApart DEF Wanted, End, Object
<1>8. t \in [FdNum -> Cell]
  BY <1>2 DEF TypeInv
<1> DEFINE u == [t EXCEPT ![f] = file]
<1>9. /\ u \in [FdNum -> Cell] /\ u[f] = file
      /\ \A g \in FdNum : g # f => u[g] = t[g]
  BY <1>7, <1>8
<1>10. table' = [table EXCEPT ![Parent] = u]
  BY <1>1
<1> HIDE DEF u, file, h, fd
<1>11. /\ table' \in [Process \cup {Parent} -> [FdNum -> Cell]]
       /\ table'[Parent] = u
       /\ \A i \in Process : table'[i] = table[i]
  BY <1>2, <1>9, <1>10, ParentTable
<1>12. \A g \in FdNum : t[g] # None => u[g] = t[g]
  BY <1>3, <1>9
<1>13. PipesOK'
  BY <1>1, <1>4, <1>6, PipesAdds
<1>14. ParentKept'
  <2> SUFFICES ASSUME NEW key \in Key, NEW end \in Ends, pipes[key][end] # None
               PROVE  u[pipes[key][end]] = End(end, key)
    BY <1>1, <1>11 DEF ParentKept
  <2>1. pipes[key][end] \in FdNum /\ t[pipes[key][end]] = End(end, key)
    BY <1>1, <1>2, MakesFacts, KeptNotBase DEF ParentKept
  <2>2. End(end, key) # None
    BY EndObject
  <2> QED BY <2>1, <2>2, <1>12
<1>15. \A g : Kept(g)' <=> Kept(g)
  BY <1>1 DEF Kept
<1>16. Supplies(k, h)
  BY <1>4, <1>7, <1>9, <1>11, <1>12, <1>15 DEF Supplies, Opens
<1>17. pipes' \in [Key -> Pair]
  BY <1>1, <1>2 DEF TypeInv
<1> QED BY <1>6, <1>11, <1>13, <1>14, <1>16, <1>17, SuppliedKeeps

\* pipe() gives two new fds.
LEMMA OpenPipeFacts ==
  ASSUME TypeInv, ParentBase, NEW read \in FdNum, NEW write \in FdNum,
         NEW r \in Object, NEW w \in Object, OpenPipe(read, write, r, w)
  PROVE  /\ table' \in [Process \cup {Parent} -> [FdNum -> Cell]]
         /\ \A i \in Process : table'[i] = table[i]
         /\ read \notin Base /\ write \notin Base /\ read # write
         /\ table'[Parent][read] = r /\ table'[Parent][write] = w
         /\ \A f \in FdNum : f \notin {read, write} => table'[Parent][f] = table[Parent][f]
         /\ \A f \in FdNum : table[Parent][f] # None => table'[Parent][f] = table[Parent][f]
<1> DEFINE t == table[Parent]
           half == [t EXCEPT ![read] = r]
           u == [half EXCEPT ![write] = w]
<1>1. /\ Lowest(t, read) /\ Lowest(half, write)
      /\ table' = [table EXCEPT ![Parent] = u]
  BY DEF OpenPipe
<1>2. t \in [FdNum -> Cell] /\ r \in Cell /\ w \in Cell /\ r # None
  BY NoneApart DEF TypeInv
<1>3. t[read] = None /\ half[write] = None
  BY <1>1 DEF Lowest
<1>4. /\ half \in [FdNum -> Cell] /\ half[read] = r
      /\ \A f \in FdNum : f # read => half[f] = t[f]
  BY <1>2
<1>5. read # write /\ t[write] = None
  <2> HIDE DEF half, t
  <2> QED BY <1>2, <1>3, <1>4
<1>6. read \notin Base /\ write \notin Base
  BY <1>3, <1>5, NoneApart DEF ParentBase
<1>7. /\ u \in [FdNum -> Cell] /\ u[write] = w /\ u[read] = r
      /\ \A f \in FdNum : f \notin {read, write} => u[f] = t[f]
  <2> HIDE DEF half
  <2> QED BY <1>2, <1>4, <1>5
<1> HIDE DEF u
<1>8. /\ table' \in [Process \cup {Parent} -> [FdNum -> Cell]]
      /\ table'[Parent] = u
      /\ \A i \in Process : table'[i] = table[i]
  BY <1>1, <1>7, ParentTable
<1> QED BY <1>3, <1>5, <1>6, <1>7, <1>8

\* An end that Pipes keeps stays where it is while the parent opens files.
LEMMA KeptStays ==
  ASSUME TypeInv, ParentBase, ParentKept, pc = "handlers",
         \A f \in FdNum : table[Parent][f] # None => table'[Parent][f] = table[Parent][f],
         NEW key \in Key, NEW end \in Ends, pipes[key][end] # None
  PROVE  table'[Parent][pipes[key][end]] = End(end, key)
<1>1. pipes[key][end] \in FdNum /\ table[Parent][pipes[key][end]] = End(end, key)
  BY KeptNotBase DEF ParentKept
<1>2. End(end, key) # None
  BY EndObject
<1> QED BY <1>1, <1>2

\* ... when a capture is made, ...
LEMMA MakeCaptureKeeps ==
  ASSUME IInv, NEW k, MakeCaptureMemory(k)
  PROVE  IInv'
<1> DEFINE fd == NumberAt(cur, k)
           key == <<cur, fd>>
           r == End("capture read", key)
           w == End("capture write", key)
           t == table[Parent]
           u == table'[Parent]
<1>1. PICK read \in FdNum, write \in FdNum :
        /\ MakesHandler(k, "capture") /\ UNCHANGED <<pc, pipes>>
        /\ OpenPipe(read, write, r, w)
        /\ AddHandler(k, "capture", write, read)
  BY DEF MakeCaptureMemory
<1>2. /\ TypeInv /\ cur \in Process /\ k \in Indices(cur) /\ pc = "handlers"
      /\ SpecAt(cur, k).type = "capture" /\ fd \in Number
      /\ key \in Key /\ ParentBase /\ ParentKept
  BY <1>1, MakesFacts
<1>3. r \in Object /\ w \in Object /\ Wanted(cur, k) = w
  BY <1>2, EndObject DEF Wanted
<1> DEFINE h == [type |-> "capture", fd |-> fd, from |-> write, read |-> read]
<1> HIDE DEF r, w
<1>4. /\ table' \in [Process \cup {Parent} -> [FdNum -> Cell]]
      /\ \A i \in Process : table'[i] = table[i]
      /\ read \notin Base /\ write \notin Base /\ read # write
      /\ u[read] = r /\ u[write] = w
      /\ \A f \in FdNum : f \notin {read, write} => u[f] = t[f]
      /\ \A f \in FdNum : t[f] # None => u[f] = t[f]
  <2>1. /\ OpenPipe(read, write, r, w) /\ r \in Object /\ w \in Object
        /\ TypeInv /\ ParentBase
    BY <1>1, <1>2, <1>3
  <2> QED BY <2>1, OpenPipeFacts
<1>5. h.type = "capture" /\ h.from = write /\ h.read = read /\ h.fd = fd /\ h \in Handler
  BY <1>2, NoneApart DEF Handler, Types
<1>6. HandlerFor(k, h)
  <2> HIDE DEF h
  <2> QED BY <1>2, <1>4, <1>5 DEF HandlerFor, Opens
<1>7. Adds(k, h)
  BY <1>1, <1>2, <1>6 DEF Adds, AddHandler
<1>8. r = End("capture read", <<cur, h.fd>>)
  BY <1>5 DEF r
<1> HIDE DEF h, fd
<1>9. PipesOK'
  BY <1>1, <1>5, <1>7, PipesAdds
<1>10. ParentKept'
  BY <1>1, <1>2, <1>4, KeptStays DEF ParentKept
<1>11. \A g : Kept(g)' <=> Kept(g)
  BY <1>1 DEF Kept
<1>12. Supplies(k, h)
  BY <1>3, <1>4, <1>5, <1>8, <1>11 DEF Supplies, Opens
<1>13. pipes' \in [Key -> Pair]
  BY <1>1, <1>2 DEF TypeInv
<1> QED BY <1>4, <1>7, <1>9, <1>10, <1>12, <1>13, SuppliedKeeps

\* Entry k asks for that end of the pipe of key.
PipeEntry(k, type, end, key) ==
  \/ type = "pipe-write" /\ end = "write" /\ key = <<cur, NumberAt(cur, k)>>
  \/ type = "pipe-read" /\ end = "read" /\ key = KeyRead(SpecAt(cur, k))

\* It is the first to do so.
LEMMA PipeEntryFacts ==
  ASSUME IInv, NEW k, NEW type, NEW end, NEW key,
         MakesHandler(k, type), PipeEntry(k, type, end, key)
  PROVE  /\ key \in Key /\ end \in Ends
         /\ type \in Opens /\ type # "capture" /\ type \in Types
         /\ Wanted(cur, k) = End(end, key)
         /\ ~SomeTook(end, key)
<1>1. /\ TypeInv /\ cur \in Process /\ k \in Indices(cur) /\ validate_procs_fds
      /\ SpecAt(cur, k).type = type /\ k = Len(handlers[cur]) + 1
      /\ <<cur, NumberAt(cur, k)>> \in Key /\ HandlersOK
      /\ \A i \in Process : ProgressOK(i)
  BY MakesFacts
<1>2. end \in Ends /\ type \in Opens /\ type # "capture" /\ type \in Types
  BY DEF PipeEntry, Ends, Opens, Types
<1>3. key \in Key /\ Wanted(cur, k) = End(end, key)
  <2>1. CASE type = "pipe-write"
    BY <2>1, <1>1 DEF PipeEntry, Wanted
  <2>2. CASE type = "pipe-read"
    <3>1. KeyRead(SpecAt(cur, k)) \in Key /\ ReadKey(<<cur, k>>) = KeyRead(SpecAt(cur, k))
      BY <2>2, <1>1, EntryType DEF TypeInv
    <3>2. Wanted(cur, k) = End("read", ReadKey(<<cur, k>>))
      BY <2>2, <1>1 DEF Wanted
    <3> QED BY <2>2, <3>1, <3>2 DEF PipeEntry
  <2> QED BY <2>1, <2>2 DEF PipeEntry
<1>4. ASSUME NEW i \in Process, NEW m \in Indices(i), Took(i, m, end, key)
      PROVE  FALSE
  <2>1. \/ end = "write" /\ SpecAt(cur, k).type = "pipe-write"
             /\ <<cur, NumberAt(cur, k)>> = key
        \/ end = "read" /\ SpecAt(cur, k).type = "pipe-read"
             /\ KeyRead(SpecAt(cur, k)) = key
    BY <1>1 DEF PipeEntry
  <2>2. i = cur /\ m = k
    BY <2>1, <1>1, <1>4, TookOnce
  <2>3. k \in 1..Len(handlers[cur]) /\ Len(handlers[cur]) \in Nat
    BY <2>2, <1>1, <1>4 DEF Took, TypeInv
  <2> QED BY <2>3, <1>1
<1> QED BY <1>2, <1>3, <1>4 DEF SomeTook

\* Pipes after that end of the pipe of key is taken from pair
LEMMA TakenEnd ==
  ASSUME NEW pair \in Pair, NEW end \in Ends, NEW key \in Key,
         pipes \in [Key -> Pair], pipes' = [pipes EXCEPT ![key] = Taken(pair, end)]
  PROVE  /\ pipes' \in [Key -> Pair]
         /\ \A q \in Key : q # key => pipes'[q] = pipes[q]
         /\ pipes'[key][end] = None /\ pipes'[key].made = pair.made
         /\ \A e \in Ends : e # end => pipes'[key][e] = pair[e]
<1>1. Taken(pair, end) \in Pair
  <2>1. CASE end = "read"
    BY <2>1 DEF Taken, Pair
  <2>2. CASE end = "write"
    BY <2>2 DEF Taken, Pair
  <2> QED BY <2>1, <2>2 DEF Ends
<1>2. /\ Taken(pair, end)[end] = None /\ Taken(pair, end).made = pair.made
      /\ \A e \in Ends : e # end => Taken(pair, end)[e] = pair[e]
  <2>1. CASE end = "read"
    BY <2>1 DEF Taken, Pair, Ends
  <2>2. CASE end = "write"
    BY <2>2 DEF Taken, Pair, Ends
  <2> QED BY <2>1, <2>2 DEF Ends
<1>3. pipes'[key] = Taken(pair, end) /\ \A q \in Key : q # key => pipes'[q] = pipes[q]
  OBVIOUS
<1>4. pipes' \in [Key -> Pair]
  BY <1>1
<1> QED BY <1>2, <1>3, <1>4

\* Pipes is in order after an entry has taken its end.
LEMMA PipesTake ==
  ASSUME IInv, NEW k, NEW h, NEW type, NEW end, NEW key, Adds(k, h), h.type = type,
         MakesHandler(k, type), PipeEntry(k, type, end, key),
         \A q \in Key : q # key => pipes'[q] = pipes[q],
         pipes'[key][end] = None, pipes'[key].made,
         \A e \in Ends : e # end =>
           (pipes[key].made => pipes'[key][e] = pipes[key][e])
             /\ (~pipes[key].made => pipes'[key][e] # None)
  PROVE  PipesOK'
<1>1. key \in Key /\ end \in Ends /\ ~SomeTook(end, key)
  BY PipeEntryFacts
<1>2. PipesOK
  BY DEF IInv
<1>3. \A e, q : Takes(k, h, e, q) <=> e = end /\ q = key
  BY DEF Takes, PipeEntry
<1>4. \A e, q : SomeTook(e, q)' <=> SomeTook(e, q) \/ (e = end /\ q = key)
  BY <1>3, TookAdds
<1>5. ASSUME NEW q \in Key, q # key PROVE PipeOK(q)'
  <2>1. PipeOK(q) /\ pipes'[q] = pipes[q]
    BY <1>2, <1>5 DEF PipesOK
  <2> QED BY <2>1, <1>4, <1>5 DEF PipeOK
<1>6. PipeOK(key)'
  <2>1. PipeOK(key)
    BY <1>1, <1>2 DEF PipesOK
  <2>2. ASSUME NEW e \in Ends
        PROVE  pipes'[key].made /\ pipes'[key][e] = None <=> SomeTook(e, key)'
    <3>1. CASE e = end
      BY <3>1, <1>4
    <3>2. CASE e # end /\ pipes[key].made
      BY <3>2, <2>1, <1>4 DEF PipeOK
    <3>3. CASE e # end /\ ~pipes[key].made
      BY <3>3, <2>1, <1>4 DEF PipeOK
    <3> QED BY <3>1, <3>2, <3>3
  <2>3. pipes'[key].read = None \/ pipes'[key].write = None
    BY <1>1 DEF Ends
  <2> QED BY <2>2, <2>3 DEF PipeOK
<1> QED BY <1>5, <1>6 DEF PipesOK

\* ... when the first entry of a pipe makes it, which keeps the other end, ...
LEMMA FirstEndKeeps ==
  ASSUME IInv, NEW k, NEW type, NEW end, NEW key,
         PipeEntry(k, type, end, key), FirstEnd(k, type, end, key)
  PROVE  IInv'
<1> DEFINE fd == NumberAt(cur, k)
           t == table[Parent]
           u == table'[Parent]
<1>1. PICK read \in FdNum, write \in FdNum :
        LET pair == [read |-> read, write |-> write, made |-> TRUE]
        IN  /\ MakesHandler(k, type) /\ ~pipes[key].made /\ pc' = pc
            /\ OpenPipe(read, write, End("read", key), End("write", key))
            /\ AddHandler(k, type, pair[end], None)
            /\ pipes' = [pipes EXCEPT ![key] = Taken(pair, end)]
  BY DEF FirstEnd
<1> DEFINE pair == [read |-> read, write |-> write, made |-> TRUE]
           h == [type |-> type, fd |-> fd, from |-> pair[end], read |-> None]
<1>2. /\ TypeInv /\ cur \in Process /\ k \in Indices(cur) /\ pc = "handlers"
      /\ SpecAt(cur, k).type = type /\ fd \in Number /\ ParentBase /\ ParentKept
  BY <1>1, MakesFacts
<1>3. /\ key \in Key /\ end \in Ends /\ type \in Opens /\ type # "capture"
      /\ type \in Types /\ Wanted(cur, k) = End(end, key)
  BY <1>1, PipeEntryFacts
<1>4. End("read", key) \in Object /\ End("write", key) \in Object
  BY <1>3, EndObject DEF Ends
<1>5. /\ table' \in [Process \cup {Parent} -> [FdNum -> Cell]]
      /\ \A i \in Process : table'[i] = table[i]
      /\ read \notin Base /\ write \notin Base /\ read # write
      /\ u[read] = End("read", key) /\ u[write] = End("write", key)
      /\ \A f \in FdNum : f \notin {read, write} => u[f] = t[f]
      /\ \A f \in FdNum : t[f] # None => u[f] = t[f]
  <2>1. OpenPipe(read, write, End("read", key), End("write", key))
    BY <1>1
  <2> QED BY <2>1, <1>2, <1>4, OpenPipeFacts
<1>6. /\ pair \in Pair /\ pair.made
      /\ \A e \in Ends : pair[e] \in FdNum \ Base /\ u[pair[e]] = End(e, key)
      /\ \A f \in {read, write} : \E e \in Ends : f = pair[e]
  BY <1>5 DEF Pair, Ends
<1>7. pipes \in [Key -> Pair] /\ pipes' = [pipes EXCEPT ![key] = Taken(pair, end)]
  BY <1>1, <1>2 DEF TypeInv
<1>8. MakesHandler(k, type) /\ AddHandler(k, type, pair[end], None) /\ pc' = pc
      /\ ~pipes[key].made
  BY <1>1
<1> HIDE <1>1
<1> HIDE DEF pair
<1>9. /\ pipes' \in [Key -> Pair]
      /\ \A q \in Key : q # key => pipes'[q] = pipes[q]
      /\ pipes'[key][end] = None /\ pipes'[key].made = pair.made
      /\ \A e \in Ends : e # end => pipes'[key][e] = pair[e]
  <2>1. pair \in Pair /\ end \in Ends /\ key \in Key
    BY <1>3, <1>6
  <2> QED BY <2>1, <1>7, TakenEnd
<1>10. h.type = type /\ h.from = pair[end] /\ h.fd = fd /\ h \in Handler
  BY <1>2, <1>3, <1>6, NoneApart DEF Handler
<1>11. Adds(k, h)
  <2>1. handlers' = [handlers EXCEPT ![cur] = Append(@, h)]
    BY <1>8 DEF AddHandler
  <2> HIDE DEF h
  <2>2. HandlerFor(k, h)
    BY <1>2, <1>3, <1>6, <1>10 DEF HandlerFor, Opens
  <2> QED BY <2>1, <2>2, <1>2, <1>8 DEF Adds
<1> HIDE DEF h, fd
<1>12. PipesOK'
  <2>1. \A e \in Ends : e # end => pipes'[key][e] # None
    BY <1>6, <1>9, NoneApart
  <2>2. \A e \in Ends : e # end =>
          (pipes[key].made => pipes'[key][e] = pipes[key][e])
            /\ (~pipes[key].made => pipes'[key][e] # None)
    BY <2>1, <1>8
  <2>3. pipes'[key].made
    BY <1>6, <1>9
  <2> QED BY <2>2, <2>3, <1>8, <1>9, <1>10, <1>11, PipesTake
<1>13. ParentKept'
  <2> SUFFICES ASSUME NEW q \in Key, NEW e \in Ends, pipes'[q][e] # None
               PROVE  u[pipes'[q][e]] = End(e, q)
    BY DEF ParentKept
  <2>1. CASE q = key
    BY <2>1, <1>6, <1>9
  <2>2. CASE q # key
    <3>1. pipes'[q][e] = pipes[q][e]
      BY <2>2, <1>9
    <3> QED BY <3>1, <1>2, <1>5, KeptStays
  <2> QED BY <2>1, <2>2
<1>14. Supplies(k, h)
  <2>1. \A f : Kept(f) => Kept(f)' \/ f = None
    <3> SUFFICES ASSUME NEW q \in Key, NEW e \in Ends, NEW f, pipes[q][e] = f
                 PROVE  Kept(f)' \/ f = None
      BY DEF Kept
    <3>1. CASE q = key
      <4>1. pipes[key][e] = None
        BY <1>3, <1>8 DEF IInv, PipesOK, PipeOK, Ends
      <4> QED BY <3>1, <4>1
    <3>2. CASE q # key
      BY <3>2, <1>9 DEF Kept
    <3> QED BY <3>1, <3>2
  <2>2. ASSUME NEW f \in FdNum, u[f] # None, t[f] = None
        PROVE  f = h.from \/ Kept(f)'
    <3>1. f \in {read, write}
      BY <2>2, <1>5
    <3>2. PICK e \in Ends : f = pair[e]
      BY <3>1, <1>6
    <3>3. CASE e = end
      BY <3>2, <3>3, <1>10
    <3>4. CASE e # end
      BY <3>2, <3>4, <1>3, <1>9 DEF Kept
    <3> QED BY <3>3, <3>4
  <2>3. u[h.from] = Wanted(cur, k)
    BY <1>3, <1>6, <1>10
  <2> QED BY <2>1, <2>2, <2>3, <1>3, <1>5, <1>10, NoneApart DEF Supplies
<1> QED BY <1>5, <1>9, <1>11, <1>12, <1>13, <1>14, SuppliedKeeps

\* ... and when the second takes the end that was kept, which is there.
LEMMA SavedEndKeeps ==
  ASSUME IInv, NEW k, NEW type, NEW end, NEW key,
         PipeEntry(k, type, end, key), SavedEnd(k, type, end, key)
  PROVE  IInv'
<1> DEFINE fd == NumberAt(cur, k)
           from == pipes[key][end]
           h == [type |-> type, fd |-> fd, from |-> from, read |-> None]
<1>1. MakesHandler(k, type) /\ pipes[key].made /\ table' = table
  BY DEF SavedEnd
<1>2. /\ TypeInv /\ cur \in Process /\ k \in Indices(cur) /\ pc = "handlers"
      /\ SpecAt(cur, k).type = type /\ fd \in Number
      /\ PipesOK /\ ParentBase /\ ParentKept
  BY <1>1, MakesFacts
<1>3. /\ key \in Key /\ end \in Ends /\ type \in Opens /\ type # "capture"
      /\ type \in Types /\ Wanted(cur, k) = End(end, key) /\ ~SomeTook(end, key)
  BY <1>1, PipeEntryFacts
<1>4. from # None
  BY <1>1, <1>2, <1>3 DEF PipesOK, PipeOK
<1>5. from \in FdNum \ Base /\ table[Parent][from] = End(end, key)
  BY <1>2, <1>3, <1>4, KeptNotBase DEF ParentKept
<1>6. /\ AddHandler(k, type, from, None) /\ pc' = pc
      /\ pipes' = [pipes EXCEPT ![key] = Taken(@, end)]
  BY <1>4 DEF SavedEnd
<1>7. pipes \in [Key -> Pair] /\ pipes[key] \in Pair
  BY <1>2, <1>3 DEF TypeInv
<1>8. /\ pipes' \in [Key -> Pair]
      /\ \A q \in Key : q # key => pipes'[q] = pipes[q]
      /\ pipes'[key][end] = None /\ pipes'[key].made = pipes[key].made
      /\ \A e \in Ends : e # end => pipes'[key][e] = pipes[key][e]
  BY <1>3, <1>6, <1>7, TakenEnd
<1>9. h.type = type /\ h.from = from /\ h.fd = fd /\ h \in Handler
  BY <1>2, <1>3, <1>5, NoneApart DEF Handler
<1>10. Adds(k, h)
  <2>1. handlers' = [handlers EXCEPT ![cur] = Append(@, h)]
    BY <1>6 DEF AddHandler
  <2> HIDE DEF h
  <2>2. HandlerFor(k, h)
    BY <1>2, <1>3, <1>5, <1>9 DEF HandlerFor, Opens
  <2> QED BY <2>1, <2>2, <1>1, <1>2, <1>6 DEF Adds
<1> HIDE DEF h, fd
<1>11. PipesOK'
  <2>1. \A e \in Ends : e # end =>
          (pipes[key].made => pipes'[key][e] = pipes[key][e])
            /\ (~pipes[key].made => pipes'[key][e] # None)
    BY <1>1, <1>8
  <2>2. pipes'[key].made
    BY <1>1, <1>8
  <2> QED BY <2>1, <2>2, <1>1, <1>8, <1>9, <1>10, PipesTake
<1>12. ParentKept'
  <2> SUFFICES ASSUME NEW q \in Key, NEW e \in Ends, pipes'[q][e] # None
               PROVE  table[Parent][pipes'[q][e]] = End(e, q)
    BY <1>1 DEF ParentKept
  <2>1. pipes'[q][e] = pipes[q][e]
    BY <1>8
  <2> QED BY <2>1, <1>2 DEF ParentKept
<1>13. Supplies(k, h)
  <2>1. \A f : Kept(f) => Kept(f)' \/ f = from
    <3> SUFFICES ASSUME NEW q \in Key, NEW e \in Ends, NEW f, pipes[q][e] = f
                 PROVE  Kept(f)' \/ f = from
      BY DEF Kept
    <3>1. CASE q = key /\ e = end
      BY <3>1
    <3>2. CASE ~(q = key /\ e = end)
      BY <3>2, <1>8 DEF Kept
    <3> QED BY <3>1, <3>2
  <2> HIDE DEF from
  <2> QED BY <2>1, <1>1, <1>3, <1>5, <1>9 DEF Supplies
<1> QED BY <1>1, <1>2, <1>8, <1>10, <1>11, <1>12, <1>13, SuppliedKeeps DEF TypeInv

\* So make_fd_handler() keeps the invariant for every type of fd.
LEMMA MakeHandlerKeeps ==
  ASSUME IInv, MakeHandler
  PROVE  IInv'
<1>1. PICK k \in Indices(cur) :
        \/ \E type \in Types : MakePlain(k, type) \/ MakeError(k, type)
        \/ MakeTempFile(k) \/ MakeCaptureMemory(k)
        \/ MakePipeWrite(k) \/ MakePipeRead(k)
  BY DEF MakeHandler
<1>2. ASSUME NEW type \in Types, MakePlain(k, type) \/ MakeError(k, type)
      PROVE  IInv'
  BY <1>2, MakePlainKeeps
<1>3. CASE MakePipeWrite(k)
  <2> DEFINE key == <<cur, NumberAt(cur, k)>>
  <2>1. \/ FirstEnd(k, "pipe-write", "write", key)
        \/ SavedEnd(k, "pipe-write", "write", key)
    BY <1>3 DEF MakePipeWrite
  <2>2. PipeEntry(k, "pipe-write", "write", key)
    BY DEF PipeEntry
  <2> HIDE DEF key
  <2> QED BY <2>1, <2>2, FirstEndKeeps, SavedEndKeeps
<1>4. CASE MakePipeRead(k)
  <2> DEFINE key == KeyRead(SpecAt(cur, k))
  <2>1. \/ FirstEnd(k, "pipe-read", "read", key)
        \/ SavedEnd(k, "pipe-read", "read", key)
    BY <1>4 DEF MakePipeRead
  <2>2. PipeEntry(k, "pipe-read", "read", key)
    BY DEF PipeEntry
  <2> HIDE DEF key
  <2> QED BY <2>1, <2>2, FirstEndKeeps, SavedEndKeeps
<1> QED BY <1>1, <1>2, <1>3, <1>4, MakeTempFileKeeps, MakeCaptureKeeps

\* The invariant depends on the variables only.
LEMMA StutterKeeps ==
  ASSUME IInv, UNCHANGED vars
  PROVE  IInv'
<1>1. UNCHANGED <<batch, pc, cur, pipes, handlers, table, child, forked, childPipes, next, ok>>
  BY DEF vars
<1>2. TypeInv'
  BY <1>1 DEF IInv, TypeInv
<1>3. \A i \in Process : ProgressOK(i)'
  BY <1>1 DEF IInv, ProgressOK, Forked
<1>4. \A i \in Process : ChildOK(i)'
  BY <1>1, ChildrenFrame
<1>5. /\ Validated' /\ CurOK' /\ HandlersOK' /\ PipesOK'
      /\ ParentBase' /\ ParentKept' /\ ParentMade' /\ ParentAccounted' /\ NoPanic'
  BY <1>1, ParentFrame
<1> QED BY <1>2, <1>3, <1>4, <1>5 DEF IInv

-----------------------------------------------------------------------------
(* Theorems *)

\* start_procs() and the children it forks keep the tables, the handlers and
\* Pipes as IInv says, in every order of their steps.
THEOREM Invariance == Spec => []IInv
<1>1. Init => IInv
  BY InitInv
<1>2. IInv /\ [Next]_vars => IInv'
  <2> SUFFICES ASSUME IInv, [Next]_vars PROVE IInv'
    OBVIOUS
  <2>1. ASSUME NEW i \in Process, ChildStep(i) PROVE IInv'
    BY <2>1, InChildKeeps, ChildReadyKeeps, ExecKeeps DEF ChildStep
  <2>2. CASE ParentStep
    BY <2>2, ValidateKeeps, MakeHandlerKeeps, ForkChildKeeps, SetUpSliceFailsKeeps,
       InParentKeeps, ClosePipesKeeps DEF ParentStep
  <2> QED BY <2>1, <2>2, StutterKeeps DEF Next
<1> QED BY <1>1, <1>2, PTL DEF Spec

\* The variables have the values the code gives them, and an end that Pipes
\* keeps for a later process is that end of that pipe in Procstar.
THEOREM TypeCorrect == Spec => []TypeOK
<1>1. IInv => TypeOK
  BY DEF IInv, TypeInv, ParentKept, TypeOK, Cell, Ends, ChildState
<1> QED BY <1>1, Invariance, PTL

\* In every batch that validate_procs_fds() lets through, take().unwrap() finds
\* the end it takes, and the assertion after the loop fails only if pipe() did.
THEOREM PipesNeverPanic == Spec => []NoPanic
<1>1. IInv => NoPanic
  BY DEF IInv
<1> QED BY <1>1, Invariance, PTL

\* Every program whose spec names numbers that were free when it was forked starts
\* with every fd as its spec says: the fds that in_child() dups and closes are none
\* that another handler has set or needs.
THEOREM FdsWired == Spec => []WiredAsSpecified
<1>1. IInv => WiredAsSpecified
  BY DEF IInv, ChildOK, ReadyOK, WiredAsSpecified
<1> QED BY <1>1, Invariance, PTL

\* No such program holds an end of another's pipe or the read end of its own capture,
\* and Procstar keeps no end of a pipe between processes.
THEOREM EndsNotLeaked == Spec => []NoStrayEnds
<1>1. IInv => OnlyOwnEnds
  <2> SUFFICES ASSUME IInv, NEW i \in Process, child[i] = "running", NumbersFree(i),
                      NEW f \in FdNum, table[i][f] # None
               PROVE  LET o == table[i][f]
                      IN  /\ o.end \in {"write", "capture write"} => o.of[1] = i
                          /\ o.end = "read" => \E x \in Readers : x[1] = i /\ ReadKey(x) = o.of
                          /\ o.end = "capture read" => o.of[1] # i
    BY DEF OnlyOwnEnds
  <2>1. ReadyOK(i)
    BY DEF IInv, ChildOK
  <2> QED BY <2>1 DEF ReadyOK, Own
<1>2. IInv => NoLeak
  <2> SUFFICES ASSUME IInv, pc = "done", NEW f \in FdNum \ Base, table[Parent][f] # None
               PROVE  table[Parent][f].end \in {"capture read", "tempfile"}
    BY DEF NoLeak
  <2>1. Accounted(f)
    BY DEF IInv, ParentAccounted
  <2> QED BY <2>1 DEF Accounted
<1>3. IInv => NoStrayEnds
  BY <1>1, <1>2 DEF NoStrayEnds
<1> QED BY <1>3, Invariance, PTL
=============================================================================
