SPECIFICATION RequestsSpec
CONSTANTS
  c1 = c1
  c2 = c2
  i1 = i1
  i2 = i2
  ProcId = {i1, i2}
  Proc = {c1, c2}
  None = None
  Sub = {}
  Loads <- SomeLoads
  MaxBytes = 2
  Number = {n1, n2}
  Limit = 8
  Positions <- SomePositions
INVARIANTS TypeOK AnswersAreOutput KnownRangeIsServed
PROPERTIES WritesLeaveNoMoreToRead CaptureCompletes
CHECK_DEADLOCK FALSE
