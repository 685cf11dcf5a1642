----------------------------- MODULE MCShutdown -----------------------------
(* Shutdown.tla on a few processes. *)
EXTENDS Shutdown

Tasks == Task

\* A command line with the options opts, sent some of the signals sigs.
Mode(opts, sigs, cs) ==
  [serve |-> "serve" \in opts, agent |-> "agent" \in opts,
   exit |-> "exit" \in opts, wait |-> "wait" \in opts, signals |-> sigs,
   procs |-> cs]

One == {CHOOSE c \in Proc : TRUE}

SomeModes == {Mode({"serve"}, {"TERM"}, Proc),
              Mode({"exit"}, {"QUIT"}, Proc),
              Mode({"serve", "exit"}, {"USR1"}, Proc),
              Mode({"agent", "wait"}, {"USR1"}, One),
              Mode({"agent"}, {"TERM"}, One)}
=============================================================================
