SPECIFICATION Spec
CONSTANTS
  MaxTries = 2
  Kernels <- SomeKernels
  MaxUse = 1
INVARIANTS TypeOK CleanIfNotIncomplete FailureRecordedBeforeReset
  AbsentIsNotOffered PeakCoversCurrent
PROPERTIES EvidenceKept Terminates
CHECK_DEADLOCK FALSE
