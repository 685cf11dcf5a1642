SPECIFICATION Spec
CONSTANTS
  ProcId = {i1, i2}
  Child = {c1, c2}
  Starter = {s1, s2}
  None = None
  Sub = {}
  Signum = {"KILL"}
  Systemd = TRUE
  ExitMode = FALSE
  FdErr = {FALSE}
PROPERTY NoOverwrite
CHECK_DEADLOCK FALSE
