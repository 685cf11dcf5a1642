SPECIFICATION SystemSpec
CONSTANTS
  ProcId = {i1}
  Proc = {c1}
  None = None
  Sub <- Agents
  Ws = {w1, w2}
  Late = FALSE
  CountMax = 2
  Others = TRUE
  ShutdownTo = {"idling"}
  ReconnectTimeout = FALSE
  Backpressure = FALSE
SYMMETRY Symmetry
INVARIANTS TypeOK ConnectionIsCurrent NoGhost NoneForgotten SameConnection PopNeverFails
CHECK_DEADLOCK FALSE
