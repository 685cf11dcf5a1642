SPECIFICATION FairSpec
CONSTANTS
  ProcId = {i1, i2}
  Child = {c1, c2}
  Starter = {s1}
  None = None
  Sub = {}
  Signum = {"KILL"}
  Systemd = FALSE
  ExitMode = FALSE
  FdErr = {FALSE}
PROPERTIES ExitIsRecorded TerminationIsTold
CHECK_DEADLOCK FALSE
