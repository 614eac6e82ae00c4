CONSTANTS
  PromiseIds = {p1, p2}
  MaxCalls = 2
  ChanCap = 1
  CloseOnContextDone = TRUE
  MayCancel = FALSE
  MayInterrupt = TRUE
  Sharing = TRUE
SPECIFICATION InstanceSpec
SYMMETRY PromiseSymmetry
INVARIANTS
  UnsharedReport
CHECK_DEADLOCK FALSE
