SPECIFICATION Spec
CONSTANTS
  N = 2
  FdName = {"stdin", "0", "1", "3", "9", "-1", "out"}
  Numeral <- Numerals
  Lists <- FdLists
  MaxFd = 9
  None = None
INVARIANTS TypeOK NoPanic WiredAsSpecified NoStrayEnds
CHECK_DEADLOCK FALSE
