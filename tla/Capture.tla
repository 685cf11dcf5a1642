------------------------------ MODULE Capture -------------------------------
(***************************************************************************)
(* The captured output of processes, from their writes to what a client    *)
(* reads: the two kinds of capture of fd.rs (UnlinkedFile, CaptureMemory), *)
(* get_data(), get_result() and to_result(), and sys::read_from_file().    *)
(* A process has one captured fd; its nth byte is the number n.            *)
(*                                                                         *)
(* An unlinked temporary file is one open file description: the program    *)
(* and Procstar share its offset.  Procstar runs one thread and does not   *)
(* await within a request, but a read of a file is several system calls,   *)
(* and programs write in between.                                          *)
(*                                                                         *)
(* A handler keeps the number of an fd, and nothing else.  A read that     *)
(* fails closes the fd and leaves the handler its number, which the next   *)
(* capture may get: what "open" says of a number, not the handler, decides *)
(* whose file a later request seeks, reads or closes.                      *)
(***************************************************************************)
EXTENDS Registry, Integers

CONSTANTS
  Loads,        \* the proc ID and the captured fd of each process, and how much
                \* its program writes; "none" is a process that is not started
  MaxBytes,     \* a bound on that
  Number,       \* the numbers of Procstar's fds that captures may get
  Limit         \* 2^63: a position is an i64 in a message, a usize (modulo
                \* 2 * Limit) in the code, and again an off_t for the kernel

CaptureSpec ==
  [id : ProcId, mode : {"tempfile", "memory", "none"}, attached : BOOLEAN,
   bytes : 0..MaxBytes]

ASSUME CaptureAssumption ==
  /\ None \notin Number
  /\ Loads \subseteq [Proc -> CaptureSpec]
  /\ MaxBytes \in Nat
  /\ Limit \in Nat /\ MaxBytes < Limit

VARIABLES
  spec,         \* the load: what each process is to capture
  prog,         \* the program: whether it may still write, and its bytes
  file,         \* tempfile: contents and shared offset
  mem,          \* memory: the pipe, buf, and the capture task
  num,          \* the number of Procstar's fd for each capture (file_fd, read_fd)
  open,         \* the capture that a number refers to now; None: no capture
  job,          \* the request being served
  known,        \* the length a client was told (history)
  careful,      \* no client asked beyond what it was told (history)
  clash,        \* a read and the program disturbed each other (history)
  lost          \* a read failed and closed an fd (history)

tableVars == <<num, open, lost>>
captureVars == <<spec, prog, file, mem, job, known, careful, clash, tableVars>>
allVars == <<vars, captureVars>>

Position == -Limit..Limit - 1
Signed(i) == i
Unsigned(i) == i % (2 * Limit)

NoAsk == [what |-> "none", start |-> 0, stop |-> None]
Idle == [phase |-> "idle", ask |-> NoAsk, todo |-> <<>>, got |-> <<>>,
         items |-> {}, outcome |-> "none"]

CaptureInit ==
  /\ Init
  /\ spec \in Loads
  /\ prog = [c \in Proc |-> [alive |-> FALSE, n |-> 0]]
  /\ file = [c \in Proc |-> [data |-> <<>>, offset |-> 0]]
  /\ mem = [c \in Proc |-> [pipe |-> <<>>, buf |-> <<>>, task |-> "none"]]
  /\ num = [c \in Proc |-> None]
  /\ open = [n \in Number |-> None]
  /\ job = Idle
  /\ known = [c \in Proc |-> 0]
  /\ careful = [c \in Proc |-> TRUE]
  /\ clash = [c \in Proc |-> FALSE]
  /\ lost = FALSE

\* All that the program of c has written.
Output(c) == [i \in 1..prog[c].n |-> i]

\* The capture that the number of c's handler refers to now
Opened(c) == IF num[c] = None THEN None ELSE open[num[c]]

\* close() of that number, whatever it refers to
Close(c) == open' = [n \in Number |-> IF n = num[c] THEN None ELSE open[n]]

-----------------------------------------------------------------------------
(* The program *)

\* write() to a file at offset o; a gap reads as zeros.
Overwrite(data, o, b) ==
  [i \in 1..(IF o < Len(data) THEN Len(data) ELSE o + 1) |->
     IF i = o + 1 THEN b ELSE IF i <= Len(data) THEN data[i] ELSE 0]

OwnOffset(f, b) == [f EXCEPT !.data = Append(@, b)]
WriteFile(f, b) ==
  [f EXCEPT !.data = Overwrite(@, f.offset, b), !.offset = @ + 1]

\* The request being served reads the file of c.
Reads(c) == job.phase = "reading" /\ Opened(job.todo[1]) = c

Write(c) ==
  /\ prog[c].alive
  /\ prog[c].n < spec[c].bytes
  /\ prog' = [prog EXCEPT ![c].n = @ + 1]
  /\ \/ /\ spec[c].mode = "tempfile"
        /\ file' = [file EXCEPT ![c] = WriteFile(@, prog[c].n + 1)]
        /\ clash' = [clash EXCEPT ![c] = @ \/ Reads(c)]
        /\ UNCHANGED mem
     \/ /\ spec[c].mode = "memory"
        /\ mem' = [mem EXCEPT ![c].pipe = Append(@, prog[c].n + 1)]
        /\ UNCHANGED <<file, clash>>
  /\ UNCHANGED <<vars, spec, job, known, careful, tableVars>>

\* The program ends; no descendant of it keeps the fd.
ProgramEnds(c) ==
  /\ prog[c].alive
  /\ prog' = [prog EXCEPT ![c].alive = FALSE]
  /\ UNCHANGED <<vars, spec, file, mem, job, known, careful, clash, tableVars>>

-----------------------------------------------------------------------------
(* The tasks of Procstar, which run while no request is served *)

Free == job.phase = "idle"

ProcOver(c) ==
  /\ Free
  /\ ~prog[c].alive
  /\ StopProc(c, "terminated") \/ TellNotRunning(c)
  /\ UNCHANGED captureVars

\* run_capture_memory(): a read of the pipe returns some of what is in it.
CaptureRead(c) ==
  /\ Free
  /\ mem[c].task = "reading"
  /\ Opened(c) = c
  /\ \E k \in 1..Len(mem[c].pipe) :
       mem' = [mem EXCEPT ![c].buf = @ \o SubSeq(mem[c].pipe, 1, k),
                          ![c].pipe = SubSeq(@, k + 1, Len(@))]
  /\ UNCHANGED <<vars, spec, prog, file, job, known, careful, clash, tableVars>>

\* A read that finds no data, and no writer, ends the task, whose end closes
\* the fd.
NoWriter(c) == ~prog[c].alive
EndOfPipe(c) == mem[c].pipe = <<>> /\ ~prog[c].alive

CaptureEOF(c) ==
  /\ Free
  /\ mem[c].task = "reading"
  /\ Opened(c) = c
  /\ EndOfPipe(c)
  /\ mem' = [mem EXCEPT ![c].task = "done"]
  /\ Close(c)
  /\ UNCHANGED <<vars, spec, prog, file, job, known, careful, clash, num, lost>>

\* The fd was closed under the task: its read fails, and its end closes
\* whatever has the number by now.
CaptureFails(c) ==
  /\ Free
  /\ mem[c].task = "reading"
  /\ Opened(c) # c
  /\ mem' = [mem EXCEPT ![c].task = "failed"]
  /\ Close(c)
  /\ UNCHANGED <<vars, spec, prog, file, job, known, careful, clash, num, lost>>

-----------------------------------------------------------------------------
(* Reading: a job has the processes left to look at, and the items it has  *)
(* for its answer.                                                         *)

\* The answer for c: bytes, which are those of the capture d
Bytes(c, d, start, data) ==
  [c |-> c, type |-> "bytes", from |-> d, start |-> start, data |-> data]
Detached(c, n) == [c |-> c, type |-> "detached", length |-> n]
FdError(c) == [c |-> c, type |-> "error"]
Foreign(c) == [c |-> c, type |-> "foreign"]

Ask(what, todo, start, stop) ==
  [Idle EXCEPT !.phase = IF todo = <<>> THEN "answered" ELSE "look",
               !.ask = [what |-> what, start |-> start, stop |-> stop],
               !.todo = todo,
               !.outcome = "ok"]

\* The length of the captured data that an item tells its client.
Tells(item) ==
  IF item.type = "detached" THEN item.length
  ELSE IF item.type = "bytes" /\ item.data # <<>>
    THEN item.start + Len(item.data) ELSE 0

\* The item of the process looked at is there; on to the next one.  An error
\* is the answer to a request for data, but only an item of a result.
ItemDone(item) ==
  /\ job' = [job EXCEPT
       !.phase = IF Len(job.todo) = 1 THEN "answered" ELSE "look",
       !.todo = Tail(@),
       !.got = <<>>,
       !.items = @ \cup {item},
       !.outcome = IF item.type = "error" /\ job.ask.what = "data"
                     THEN "error" ELSE @]
  /\ known' = [known EXCEPT ![item.c] =
                 IF Tells(item) > @ THEN Tells(item) ELSE @]
  /\ UNCHANGED <<vars, spec, prog, mem, careful, num>>

\* A panic in a request is one in main()'s join, and ends Procstar.
Panic ==
  /\ job' = [job EXCEPT !.phase = "panicked"]
  /\ UNCHANGED <<vars, spec, prog, file, mem, known, careful, clash, tableVars>>

\* to_result() asks for the data of an attached fd only.
WantsLength(c) == job.ask.what = "result" /\ ~spec[c].attached

Looks(c, mode) ==
  /\ job.phase = "look"
  /\ job.todo[1] = c
  /\ spec[c].mode = mode

IsFile(d) == d # None /\ spec[d].mode = "tempfile"

\* get_file_length(), which is 0 for a pipe, and buf.len()
FileLength(d) == IF IsFile(d) THEN Len(file[d].data) ELSE 0
LengthWithPipe(c) ==
  IF spec[c].mode = "tempfile" THEN FileLength(Opened(c))
  ELSE Len(mem[c].buf) + Len(mem[c].pipe)
CapturedLength(c) ==
  IF spec[c].mode = "tempfile" THEN FileLength(Opened(c)) ELSE Len(mem[c].buf)

LookLength(c) ==
  /\ Looks(c, "memory") \/ (Looks(c, "tempfile") /\ Opened(c) # None)
  /\ WantsLength(c)
  /\ ItemDone(Detached(c, CapturedLength(c)))
  /\ UNCHANGED <<file, clash, open, lost>>

AskStart == Unsigned(job.ask.start)
AskStop(end) == IF job.ask.stop = None THEN end ELSE Unsigned(job.ask.stop)

Slice(buf, start, stop) == SubSeq(buf, start + 1, stop)

\* buf[start..stop] is checked against the length of buf.
LookMemory(c) ==
  LET buf == mem[c].buf
      stop == AskStop(Len(buf))
  IN /\ Looks(c, "memory")
     /\ ~WantsLength(c)
     /\ IF AskStart \in 0..stop /\ stop <= Len(buf)
          THEN /\ ItemDone(Bytes(c, c, AskStart, Slice(buf, AskStart, stop)))
               /\ UNCHANGED <<file, clash, open, lost>>
          ELSE Panic

-----------------------------------------------------------------------------
(* read_from_file() *)

\* What read_exact() is to read: stop.saturating_sub(start)
Exact == IF AskStart < Unsigned(job.ask.stop)
           THEN Unsigned(job.ask.stop) - AskStart ELSE 0
ToEnd == job.ask.stop = None

\* An error drops the File, which closes the fd.
CloseOnError(c) ==
  /\ Close(c)
  /\ lost' = TRUE
  /\ ItemDone(FdError(c))
  /\ UNCHANGED <<file, clash>>

NoSeek(d) == UNCHANGED file
SeekStart(d) == file' = [file EXCEPT ![d].offset = AskStart]

\* lseek() refuses a pipe and an offset that is negative as an off_t, and vec!
\* panics on a length that is negative as an isize.
Seek(c) ==
  LET d == Opened(c)
  IN /\ Looks(c, "tempfile")
     /\ d # None
     /\ ~WantsLength(c)
     /\ \/ /\ ~IsFile(d) \/ AskStart >= Limit
           /\ CloseOnError(c)
        \/ /\ IsFile(d) /\ AskStart < Limit
           /\ ~ToEnd /\ Exact >= Limit
           /\ Panic
        \/ /\ IsFile(d) /\ AskStart < Limit
           /\ ~ToEnd => Exact < Limit
           /\ SeekStart(d)
           /\ clash' = [clash EXCEPT ![d] =
                @ \/ (prog[d].alive /\ (~ToEnd \/ AskStart > Len(file[d].data)))]
           /\ job' = [job EXCEPT !.phase = "reading"]
           /\ UNCHANGED <<vars, spec, prog, mem, known, careful, tableVars>>

Left(d) == Len(file[d].data) - file[d].offset

Reading(c) == job.phase = "reading" /\ job.todo[1] = c

\* A read() returns some of what there is from the offset on.
ReadSome(c) ==
  LET d == Opened(c)
  IN /\ Reading(c)
     /\ \E k \in 1..Left(d) :
          /\ ~ToEnd => k <= Exact - Len(job.got)
          /\ job' = [job EXCEPT !.got = @ \o
               Slice(file[d].data, file[d].offset, file[d].offset + k)]
          /\ file' = [file EXCEPT ![d].offset = @ + k]
     /\ UNCHANGED <<vars, spec, prog, mem, known, careful, clash, tableVars>>

ReadEnd(c) ==
  /\ Reading(c)
  /\ IF ToEnd THEN Left(Opened(c)) <= 0 ELSE Len(job.got) = Exact
  /\ ItemDone(Bytes(c, Opened(c), AskStart, job.got))
  /\ UNCHANGED <<file, clash, open, lost>>

\* read_exact() meets the end of the file.
ReadShort(c) ==
  /\ Reading(c)
  /\ ~ToEnd /\ Len(job.got) < Exact /\ Left(Opened(c)) <= 0
  /\ CloseOnError(c)

\* The number refers to no capture: an error, or the length of something else
\* of Procstar's that has it by now.
LookLost(c) ==
  /\ Looks(c, "tempfile")
  /\ Opened(c) = None
  /\ \/ ItemDone(FdError(c))
     \/ WantsLength(c) /\ ItemDone(Foreign(c))
  /\ UNCHANGED <<file, clash, open, lost>>

JobStep(c) ==
  \/ LookLength(c) \/ LookMemory(c) \/ LookLost(c)
  \/ Seek(c) \/ ReadSome(c) \/ ReadEnd(c) \/ ReadShort(c)

-----------------------------------------------------------------------------
Step(c) ==
  \/ Write(c) \/ ProgramEnds(c) \/ ProcOver(c)
  \/ CaptureRead(c) \/ CaptureEOF(c) \/ CaptureFails(c) \/ JobStep(c)
=============================================================================
