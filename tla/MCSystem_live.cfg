SPECIFICATION FairSystemSpec
CONSTANTS
  ProcId = {i1}
  Proc = {c1}
  None = None
  Sub <- Agents
  Ws = {w1, w2}
  Late = FALSE
  CountMax = 2
  Others = FALSE
  ShutdownTo = {"done"}
  ReconnectTimeout = TRUE
  Backpressure = TRUE
PROPERTIES ResultArrives AgentEndsUnlessMissed
CHECK_DEADLOCK FALSE
