-------------------------------- MODULE MCFds -------------------------------
(* Fds.tla on two processes, with up to two fds each. *)
EXTENDS Fds

Simple(types) == [type : types]
PipeRead(procs, fds) == [type : {"pipe-read"}, proc : procs, fd : fds]
Dup(fds) == [type : {"dup"}, fd : fds]

\* stdin by two names, stdout, the first fd that Procstar opens, which a process
\* may find in use or free, and one that is always free
Stdin == [name : {"stdin"}, spec : Simple({"pipe-write", "close"})
                                     \cup PipeRead({1, 2}, {"1"})
                                     \cup PipeRead({2}, {"stdin"})]
Zero == [name : {"0"}, spec : Simple({"inherit"})]
Stdout == [name : {"1"}, spec : Simple({"pipe-write", "capture", "file"})
                                  \cup Dup({3, 9})
                                  \cup PipeRead({1}, {"1"})]
Three == [name : {"3"}, spec : Simple({"pipe-write", "tempfile", "close"})]
Nine == [name : {"9"}, spec : Simple({"capture"}) \cup PipeRead({1}, {"3"})]
Good == Stdin \cup Zero \cup Stdout \cup Three \cup Nine

\* A name, and the name of a pipe, that are no numerals, and a number that no fd has
Bad == [name : {"out"}, spec : Simple({"capture"})]
         \cup [name : {"1"}, spec : PipeRead({1}, {"out"})]
         \cup [name : {"-1"}, spec : Simple({"file"})]

FdLists == {<<>>} \cup {<<e>> : e \in Good \cup Bad} \cup (Good \X Good)

Numerals ==
  [name \in {"0", "1", "3", "9", "-1"} |->
     CASE name = "0" -> 0 [] name = "1" -> 1 [] name = "3" -> 3 [] name = "9" -> 9
       [] name = "-1" -> -1]
=============================================================================
