SPECIFICATION FairSystemSpec
CONSTANTS
  ProcId = {i1}
  Proc = {c1}
  None = None
  Sub <- Agents
  Ws = {w1}
  Late = FALSE
  CountMax = 2
  Others = FALSE
  ShutdownTo = {"idling"}
  ReconnectTimeout = FALSE
  Backpressure = FALSE
PROPERTY DeleteReturns
CHECK_DEADLOCK FALSE
