-------------------------------- MODULE Fds ---------------------------------
(***************************************************************************)
(* The file descriptors of a batch of processes: validate_procs_fds() of   *)
(* spec.rs, the Pipes and the fd handlers of fd.rs, and the loop of        *)
(* start_procs() around them.  The kernel is a table of open fds for each  *)
(* process, copied by fork().  A child sets its fds up while the parent    *)
(* goes on.  The table holds stdin, stdout, stderr and what the batch      *)
(* opens.  Procstar's other fds are left out: the sockets, the error pipe  *)
(* and the eventfd are CLOEXEC, and a spec that names the number of one of *)
(* them in a child is outside this model.                                  *)
(***************************************************************************)
EXTENDS Integers, Functions, Sequences

CONSTANTS
  N,        \* the processes of the batch are 1..N, in the order of the map
  FdName,   \* the names of fds that specs use
  Numeral,  \* the integers that some of them are numerals of
  Lists,    \* the lists of fds a spec may have, of <<name, spec>> records
  MaxFd,    \* the largest fd number (a bound: the limit of open files)
  None

\* parse_fd(): any integer is taken; a bad name has no number.
parse_fd(name) ==
  CASE name = "stdin"  -> 0
    [] name = "stdout" -> 1
    [] name = "stderr" -> 2
    [] name \in DOMAIN Numeral -> Numeral[name]
    [] OTHER -> None

Process == 1..N
Parent == 0
FdNum == 0..MaxFd
Base == 0..2    \* stdin, stdout and stderr, all open in Procstar
Number == Base \cup Range(Numeral)
Key == Process \X Number

\* enum Fd.  Null and File open a file; dup names the fd to be dup'ed.
FdSpec ==
  [type : {"inherit", "close", "file", "tempfile", "capture", "pipe-write"}]
    \cup [type : {"dup"}, fd : Int]
    \cup [type : {"pipe-read"}, proc : Process, fd : FdName]

\* What an fd may refer to
End(end, key) == [end |-> end, of |-> key]
Object == [end : {"read", "write", "capture read", "capture write", "tempfile"},
           of : Key]
Inherited == End("inherited", None)
Opened == End("opened", None)

ASSUME FdsAssumption ==
  /\ N \in Nat \ {0}
  /\ MaxFd \in Nat /\ Base \subseteq FdNum
  /\ DOMAIN Numeral \subseteq FdName \ {"stdin", "stdout", "stderr"}
  /\ Numeral \in [DOMAIN Numeral -> Int]
  /\ None \notin Int /\ None \notin Object \cup {Inherited, Opened}
  /\ \A list \in Lists : list \in Seq([name : FdName, spec : FdSpec])

VARIABLES
  batch,       \* the fds of each process's spec, in order
  pc,          \* where start_procs() is
  cur,         \* the process it is at
  pipes,       \* struct Pipes: the ends of each pipe not handed out yet
  handlers,    \* the fd handlers of each process
  table,       \* the open fds of the parent and of each child
  child,       \* where each child is
  forked,      \* the open fds of each child as fork() made it (history)
  childPipes,  \* the child's copy of pipes
  next,        \* the handler each child is at
  ok           \* ok_to_exec of each child

vars == <<batch, pc, cur, pipes, handlers, table, child, forked, childPipes, next,
          ok>>

Pair == [read : FdNum \cup {None}, write : FdNum \cup {None}, made : BOOLEAN]
NoPipe == [read |-> None, write |-> None, made |-> FALSE]
NoPipes == [key \in Key |-> NoPipe]
NoFds == [f \in FdNum |-> None]

Init ==
  /\ batch \in [Process -> Lists]
  /\ pc = "validate"
  /\ cur = 1
  /\ pipes = NoPipes
  /\ handlers = [i \in Process |-> <<>>]
  /\ table = [i \in Process \cup {Parent} |->
                IF i = Parent
                THEN [f \in FdNum |-> IF f \in Base THEN Inherited ELSE None]
                ELSE NoFds]
  /\ child = [i \in Process |-> "none"]
  /\ forked = [i \in Process |-> NoFds]
  /\ childPipes = [i \in Process |-> NoPipes]
  /\ next = [i \in Process |-> 1]
  /\ ok = [i \in Process |-> TRUE]

\* f is the fd that the next open() gets; it fails if there is none.
Lowest(t, f) == t[f] = None /\ \A g \in FdNum : g < f => t[g] # None
Without(t, F) == [f \in FdNum |-> IF f \in F THEN None ELSE t[f]]

-----------------------------------------------------------------------------
(* validate_procs_fds() *)

Indices(i) == DOMAIN batch[i]
NumberAt(i, k) == parse_fd(batch[i][k].name)
SpecAt(i, k) == batch[i][k].spec

\* The entries of the batch that write to and read from pipes
Entries(type) ==
  UNION {{<<i, k>> : k \in {k \in Indices(i) : SpecAt(i, k).type = type}} :
           i \in Process}
Writers == Entries("pipe-write")
Readers == Entries("pipe-read")
KeyRead(spec) == <<spec.proc, parse_fd(spec.fd)>>
WriteKey(x) == <<x[1], NumberAt(x[1], x[2])>>
ReadKey(x) == KeyRead(SpecAt(x[1], x[2]))

GoodNames ==
  /\ \A i \in Process : \A k \in Indices(i) : NumberAt(i, k) # None
  /\ \A x \in Readers : ReadKey(x)[2] # None

DistinctNames ==
  \A i \in Process : \A k, m \in Indices(i) :
    k # m => batch[i][k].name # batch[i][m].name
DistinctFds ==
  \A i \in Process : \A k, m \in Indices(i) :
    k # m => NumberAt(i, k) # NumberAt(i, m)

ReadsAWriter == \A x \in Readers : \E w \in Writers : WriteKey(w) = ReadKey(x)
\* Each read pipe takes a write pipe of its own out of unmatched_pipes.
ReadsMatched ==
  /\ ReadsAWriter
  /\ \A x, y \in Readers : x # y => ReadKey(x) # ReadKey(y)
\* No write pipe is left over.
WritesMatched == \A w \in Writers : \E x \in Readers : WriteKey(w) = ReadKey(x)

validate_procs_fds == GoodNames /\ DistinctFds /\ ReadsMatched /\ WritesMatched

Validate ==
  /\ pc = "validate"
  /\ pc' = IF validate_procs_fds THEN "handlers" ELSE "rejected"
  /\ UNCHANGED <<batch, cur, pipes, handlers, table, child, forked, childPipes,
                 next, ok>>

-----------------------------------------------------------------------------
(* make_fd_handler(), in the parent before fork() *)

\* start_procs() makes a handler for entry k of process cur, of the given type.
MakesHandler(k, type) ==
  /\ pc = "handlers"
  /\ k = Len(handlers[cur]) + 1
  /\ k \in Indices(cur)
  /\ SpecAt(cur, k).type = type
  /\ UNCHANGED <<batch, cur, child, forked, childPipes, next, ok>>

\* from: what in_child() dups to fd; read: what it closes before
AddHandler(k, type, from, read) ==
  handlers' = [handlers EXCEPT ![cur] =
                 Append(@, [type |-> type, fd |-> NumberAt(cur, k),
                            from |-> from, read |-> read])]

\* pipe(): the two ends become two fds of the parent.
OpenPipe(read, write, readEnd, writeEnd) ==
  LET half == [table[Parent] EXCEPT ![read] = readEnd]
  IN  /\ Lowest(table[Parent], read)
      /\ Lowest(half, write)
      /\ table' = [table EXCEPT ![Parent] = [half EXCEPT ![write] = writeEnd]]

\* Handlers that need nothing in the parent
MakePlain(k, type) ==
  /\ type \in {"inherit", "close", "file", "dup"}
  /\ MakesHandler(k, type)
  /\ AddHandler(k, type, IF type = "dup" THEN SpecAt(cur, k).fd ELSE None, None)
  /\ UNCHANGED <<pc, pipes, table>>

MakeTempFile(k) ==
  /\ MakesHandler(k, "tempfile")
  /\ LET file == End("tempfile", <<cur, NumberAt(cur, k)>>)
     IN  \E f \in FdNum : /\ Lowest(table[Parent], f)
                          /\ table' = [table EXCEPT ![Parent][f] = file]
                          /\ AddHandler(k, "tempfile", f, None)
  /\ UNCHANGED <<pc, pipes>>

MakeCaptureMemory(k) ==
  /\ MakesHandler(k, "capture")
  /\ LET key == <<cur, NumberAt(cur, k)>>
     IN  \E read, write \in FdNum :
           /\ OpenPipe(read, write, End("capture read", key),
                       End("capture write", key))
           /\ AddHandler(k, "capture", write, read)
  /\ UNCHANGED <<pc, pipes>>

\* Pipes without the end that get_read_fd() or get_write_fd() takes
LeaveTaken(pair, end) == pair
Taken(pair, end) == [pair EXCEPT ![end] = None]

\* get_write_fd() or get_read_fd() for the end of the pipe of key: the first of
\* the two makes the pipe and saves the other end, ...
FirstEnd(k, type, end, key) ==
  /\ MakesHandler(k, type)
  /\ ~pipes[key].made
  /\ \E read, write \in FdNum :
       LET pair == [read |-> read, write |-> write, made |-> TRUE]
       IN  /\ OpenPipe(read, write, End("read", key), End("write", key))
           /\ AddHandler(k, type, pair[end], None)
           /\ pipes' = [pipes EXCEPT ![key] = Taken(pair, end)]
  /\ UNCHANGED pc

\* ... and the second takes it.  A third finds nothing: take().unwrap() panics.
SavedEnd(k, type, end, key) ==
  /\ MakesHandler(k, type)
  /\ pipes[key].made
  /\ IF pipes[key][end] # None
     THEN /\ AddHandler(k, type, pipes[key][end], None)
          /\ pipes' = [pipes EXCEPT ![key] = Taken(@, end)]
          /\ UNCHANGED pc
     ELSE pc' = "panic" /\ UNCHANGED <<pipes, handlers>>
  /\ UNCHANGED table

MakePipeWrite(k) ==
  LET key == <<cur, NumberAt(cur, k)>>
  IN  FirstEnd(k, "pipe-write", "write", key)
        \/ SavedEnd(k, "pipe-write", "write", key)
MakePipeRead(k) ==
  LET key == KeyRead(SpecAt(cur, k))
  IN  FirstEnd(k, "pipe-read", "read", key)
        \/ SavedEnd(k, "pipe-read", "read", key)

\* mkstemp() or pipe() fails.  The failure becomes a handler.
MakeError(k, type) ==
  /\ type \in {"tempfile", "capture", "pipe-write", "pipe-read"}
  /\ MakesHandler(k, type)
  /\ type = "pipe-write" => ~pipes[<<cur, NumberAt(cur, k)>>].made
  /\ type = "pipe-read" => ~pipes[KeyRead(SpecAt(cur, k))].made
  /\ AddHandler(k, "error", None, None)
  /\ UNCHANGED <<pc, pipes, table>>

Types == {"inherit", "close", "file", "tempfile", "capture", "pipe-write", "dup",
          "pipe-read"}

MakeHandler ==
  \E k \in Indices(cur) :
    \/ \E type \in Types : MakePlain(k, type) \/ MakeError(k, type)
    \/ MakeTempFile(k) \/ MakeCaptureMemory(k)
    \/ MakePipeWrite(k) \/ MakePipeRead(k)

-----------------------------------------------------------------------------
(* The loop of start_procs() *)

ForkChild ==
  /\ pc = "handlers"
  /\ Len(handlers[cur]) = Len(batch[cur])
  /\ table' = [table EXCEPT ![cur] = table[Parent]]
  /\ forked' = [forked EXCEPT ![cur] = table[Parent]]
  /\ childPipes' = [childPipes EXCEPT ![cur] = pipes]
  /\ child' = [child EXCEPT ![cur] = "setup"]
  /\ pc' = "slice"
  /\ UNCHANGED <<batch, cur, pipes, handlers, next, ok>>

\* set_up_slice() fails and start_procs() returns.  Dropping the handlers closes
\* the temporary files; nothing closes the ends of pipes.
SetUpSliceFails ==
  /\ pc = "slice"
  /\ pc' = "failed"
  /\ LET files == {h \in Range(handlers[cur]) : h.type = "tempfile"}
     IN  table' = [table EXCEPT ![Parent] = Without(@, {h.from : h \in files})]
  /\ UNCHANGED <<batch, cur, pipes, handlers, child, forked, childPipes, next,
                 ok>>

\* What in_parent() closes
ClosesPipesOnly(h) == IF h.type \in {"pipe-write", "pipe-read"} THEN {h.from} ELSE {}
ClosesInParent(h) ==
  IF h.type \in {"pipe-write", "pipe-read", "capture"} THEN {h.from} ELSE {}

\* The eventfd is written, in_parent() run, and the next process taken up.
InParent ==
  /\ pc = "slice"
  /\ LET closed == UNION {ClosesInParent(h) : h \in Range(handlers[cur])}
     IN  table' = [table EXCEPT ![Parent] = Without(@, closed)]
  /\ pc' = IF cur = N THEN "close" ELSE "handlers"
  /\ cur' = IF cur = N THEN cur ELSE cur + 1
  /\ UNCHANGED <<batch, pipes, handlers, child, forked, childPipes, next, ok>>

\* The ends that Pipes still has
Remaining(p) == (UNION {{p[key].read, p[key].write} : key \in Key}) \ {None}

\* assert!(pipes.close().unwrap() == 0)
ClosePipes ==
  /\ pc = "close"
  /\ pc' = IF Remaining(pipes) = {} THEN "done" ELSE "panic"
  /\ table' = [table EXCEPT ![Parent] = Without(@, Remaining(pipes))]
  /\ UNCHANGED <<batch, cur, pipes, handlers, child, forked, childPipes, next,
                 ok>>

-----------------------------------------------------------------------------
(* The child, from fork() to execve() *)

Open(t, f) == f \in FdNum /\ t[f] # None
At(t, f) == IF f \in FdNum THEN t[f] ELSE None

\* A child's fds t and whether every call has succeeded.  None is made after one
\* that has failed.
Failed(s) == [s EXCEPT !.ok = FALSE]
close(s, f) ==
  IF s.ok /\ Open(s.t, f) THEN [s EXCEPT !.t = Without(@, {f})] ELSE Failed(s)
dup2(s, f, g) ==
  IF s.ok /\ Open(s.t, f) /\ g \in FdNum
  THEN [s EXCEPT !.t = [@ EXCEPT ![g] = s.t[f]]]
  ELSE Failed(s)

\* The arguments of dup2() the wrong way round
SwappedDup(s, from, fd) == close(dup2(s, fd, from), from)
DupThenClose(s, from, fd) == close(dup2(s, from, fd), from)

\* FdHandler::drop() closes a temporary file at the end of in_child(), whatever
\* happened before.
Dropped(s, f) == [s EXCEPT !.t = Without(@, {f})]

\* open(), which may fail, and dup2() if the file has not got the right fd
OpenFile(s, fd) ==
  {Failed(s)} \cup
    {LET o == [s EXCEPT !.t = [@ EXCEPT ![f] = Opened]]
     IN  IF f = fd THEN o ELSE DupThenClose(o, f, fd) :
       f \in {f \in FdNum : Lowest(s.t, f)}}

\* The outcomes of in_child() of the handler h
in_child(s, h) ==
  CASE h.type = "inherit" -> {s}
    [] h.type = "error" -> {Failed(s)}
    [] h.type = "close" -> {close(s, h.fd)}
    [] h.type = "dup" -> {IF h.from = h.fd THEN s ELSE dup2(s, h.from, h.fd)}
    [] h.type = "file" -> OpenFile(s, h.fd)
    [] h.type = "tempfile" ->
         {Dropped(IF h.from = h.fd THEN s ELSE dup2(s, h.from, h.fd), h.from)}
    [] h.type = "capture" -> {DupThenClose(close(s, h.read), h.from, h.fd)}
    [] h.type \in {"pipe-write", "pipe-read"} -> {DupThenClose(s, h.from, h.fd)}

InChild(i) ==
  /\ child[i] = "setup"
  /\ next[i] \in DOMAIN handlers[i]
  /\ \E s \in in_child([t |-> table[i], ok |-> TRUE], handlers[i][next[i]]) :
       /\ table' = [table EXCEPT ![i] = s.t]
       /\ ok' = [ok EXCEPT ![i] = @ /\ s.ok]
  /\ next' = [next EXCEPT ![i] = @ + 1]
  /\ UNCHANGED <<batch, pc, cur, pipes, handlers, child, forked, childPipes>>

\* pipes.close().unwrap(), in the child: it panics, with some of the ends closed,
\* at an end that is not open any more.
ChildReady(i) ==
  /\ child[i] = "setup"
  /\ next[i] = Len(handlers[i]) + 1
  /\ LET ends == Remaining(childPipes[i])
         open == {f \in ends : Open(table[i], f)}
     IN  \/ /\ open = ends
            /\ table' = [table EXCEPT ![i] = Without(@, ends)]
            /\ child' = [child EXCEPT ![i] = "ready"]
         \/ /\ open # ends
            /\ \E closed \in SUBSET open :
                 table' = [table EXCEPT ![i] = Without(@, closed)]
            /\ child' = [child EXCEPT ![i] = "panic"]
  /\ UNCHANGED <<batch, pc, cur, pipes, handlers, forked, childPipes, next, ok>>

\* The parent has written the child's eventfd.
ExecReady(i) == i < cur \/ (i = cur /\ pc \in {"close", "done", "panic"})

Exec(i) ==
  /\ child[i] = "ready" /\ ExecReady(i)
  /\ child' = [child EXCEPT ![i] = IF ok[i] THEN "running" ELSE "exited"]
  /\ table' = IF ok[i] THEN table ELSE [table EXCEPT ![i] = NoFds]
  /\ UNCHANGED <<batch, pc, cur, pipes, handlers, forked, childPipes, next, ok>>

\* The program ends.
ProgramEnds(i) ==
  /\ child[i] = "running"
  /\ child' = [child EXCEPT ![i] = "exited"]
  /\ table' = [table EXCEPT ![i] = NoFds]
  /\ UNCHANGED <<batch, pc, cur, pipes, handlers, forked, childPipes, next, ok>>

-----------------------------------------------------------------------------
ParentStep ==
  Validate \/ MakeHandler \/ ForkChild \/ SetUpSliceFails \/ InParent \/ ClosePipes
ChildStep(i) == InChild(i) \/ ChildReady(i) \/ Exec(i) \/ ProgramEnds(i)
Next == ParentStep \/ \E i \in Process : ChildStep(i)

Spec == Init /\ [][Next]_vars

-----------------------------------------------------------------------------
(* Properties *)

Handler == [type : Types \cup {"error"}, fd : Number, from : Int \cup {None}, read : FdNum \cup {None}]

\* The variables have the values the code gives them, and an end that Pipes
\* keeps for a later process is that end of that pipe in the parent.
TypeOK ==
  /\ batch \in [Process -> Lists]
  /\ pc \in {"validate", "rejected", "handlers", "slice", "failed", "close", "done",
             "panic"}
  /\ cur \in Process
  /\ pipes \in [Key -> Pair]
  /\ handlers \in [Process -> Seq(Handler)]
  /\ table \in [Process \cup {Parent} ->
                  [FdNum -> Object \cup {Inherited, Opened, None}]]
  /\ child \in [Process -> {"none", "setup", "ready", "panic", "running", "exited"}]
  /\ forked \in [Process -> [FdNum -> Object \cup {Inherited, Opened, None}]]
  /\ childPipes \in [Process -> [Key -> Pair]]
  /\ next \in [Process -> Nat]
  /\ ok \in [Process -> BOOLEAN]
  /\ pc \in {"handlers", "slice"} =>
       \A key \in Key, end \in {"read", "write"} :
         pipes[key][end] # None => table[Parent][pipes[key][end]] = End(end, key)

\* validate_procs_fds() lets through only batches whose pipes start_procs() can
\* wire up: in whichever order the two processes of a pipe come, no end is
\* asked for twice and none is left at the assertion, unless a pipe could not be
\* made.
NoPanic ==
  pc = "panic" =>
    \E x \in Writers \cup Readers :
      /\ x[2] \in DOMAIN handlers[x[1]]
      /\ handlers[x[1]][x[2]].type = "error"

\* What the entry k of process i asks for
Wanted(i, k) ==
  LET type == SpecAt(i, k).type
      own == <<i, NumberAt(i, k)>>
  IN  CASE type = "pipe-write" -> End("write", own)
        [] type = "pipe-read" -> End("read", ReadKey(<<i, k>>))
        [] type = "capture" -> End("capture write", own)
        [] type = "tempfile" -> End("tempfile", own)
        [] type = "file" -> Opened
        [] type = "inherit" -> At(forked[i], NumberAt(i, k))
        [] type = "close" -> None

\* The fd numbers that a spec names, its own and those it dups
Named(i) ==
  {NumberAt(i, k) : k \in Indices(i)}
    \cup {SpecAt(i, k).fd : k \in {k \in Indices(i) : SpecAt(i, k).type = "dup"}}

\* None of them, other than stdin, stdout and stderr, is a number that Procstar
\* has given to something it opened when it forks the process.
NumbersFree(i) == \A n \in Named(i) : n \in Base \/ ~Open(forked[i], n)

\* A program whose spec names free numbers starts with every fd as its spec says,
\* whatever was opened, dup'ed and closed to set up the others.
WiredAsSpecified ==
  \A i \in Process : child[i] = "running" /\ NumbersFree(i) =>
    \A k \in Indices(i) :
      SpecAt(i, k).type # "dup" => At(table[i], NumberAt(i, k)) = Wanted(i, k)

\* Such a program holds the write ends of its own pipes only, the read ends of the
\* pipes it reads only, and never the read end of its own capture.
OnlyOwnEnds ==
  \A i \in Process : child[i] = "running" /\ NumbersFree(i) =>
    \A f \in FdNum : table[i][f] # None =>
      LET o == table[i][f]
      IN  /\ o.end \in {"write", "capture write"} => o.of[1] = i
          /\ o.end = "read" => \E x \in Readers : x[1] = i /\ ReadKey(x) = o.of
          /\ o.end = "capture read" => o.of[1] # i

\* When start_procs() has returned, what Procstar has opened for the batch and
\* still holds are the read ends of the captures and the temporary files.
NoLeak ==
  pc = "done" =>
    \A f \in FdNum \ Base :
      table[Parent][f] # None =>
        table[Parent][f].end \in {"capture read", "tempfile"}

\* No program whose spec names free numbers, and not Procstar, keeps an end of
\* somebody else's pipe: a reader sees the end of file when its writer ends,
\* whoever was forked meanwhile.
NoStrayEnds == OnlyOwnEnds /\ NoLeak
=============================================================================
