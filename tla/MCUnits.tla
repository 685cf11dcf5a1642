------------------------------ MODULE MCUnits -------------------------------
(* The instance of Units for TLC: MaxTries is 2 in the code. *)
EXTENDS Units

\* Kernels with and without each controller, and with or without some files.
\* One resource is in use at a time: the properties treat each alone.
SomeKernels ==
  [controllers : {{"pids", "memory"}},
   missing : {{}, {"memory.events.local"}, {"memory.swap.current"}},
   used : {{"pids"}, {"memory"}, {"swap"}}]
    \cup
  [controllers : {{}, {"memory"}}, missing : {{}}, used : {{"memory"}}]
=============================================================================
