SPECIFICATION Spec
CONSTANTS
  ProcId = {i1, i2}
  Child = {c1, c2}
  Starter = {s1}
  None = None
  Sub = {u1}
  Signum = {}
  Systemd = FALSE
  ExitMode = TRUE
  FdErr = {FALSE}
SYMMETRY Symmetry
INVARIANTS TypeOK LiveIsTracked IdlingTracksSomething ErrorsComplete
PROPERTY ImplementsRegistry
CHECK_DEADLOCK FALSE
