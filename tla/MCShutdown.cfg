SPECIFICATION FairSpec
CONSTANTS
  ProcId = {i1, i2}
  Proc = {c1, c2}
  None = None
  Sub <- Tasks
  Modes <- SomeModes
INVARIANTS TypeOK WaitIsWoken StragglersKilled
PROPERTIES SignalEndsProgram IdlingEndsProgram
CHECK_DEADLOCK FALSE
