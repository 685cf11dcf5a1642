---------------------------- MODULE MCRequests ------------------------------
(* Requests.tla on one process that writes twice, or on two, whose fds may  *)
(* get each other's numbers, that write nothing.                            *)
EXTENDS Requests, TLC

CONSTANTS c1, c2, i1, i2

\* A capture spec under a proc ID, and a program that writes n bytes.
Capture(id, mode, attached, n) ==
  [id |-> id, mode |-> mode, attached |-> attached, bytes |-> n]

NotStarted == Capture(i2, "none", FALSE, 0)

SomeLoads ==
  {c1 :> Capture(i1, mode, attached, 2) @@ c2 :> NotStarted :
     mode \in {"tempfile", "memory"}, attached \in BOOLEAN}
  \cup {c1 :> Capture(i1, "tempfile", TRUE, 0) @@ c2 :> Capture(i2, mode, FALSE, 0) :
          mode \in {"tempfile", "memory"}}
FileLoads == {c1 :> Capture(i1, "tempfile", TRUE, 2) @@ c2 :> NotStarted}
SomePositions == {-1, 0, 1}
=============================================================================
