CONSTANTS
  PromiseIds = {p1, p2}
  MaxCalls = 2
  ChanCap = 1
  CloseOnContextDone = TRUE
  MayCancel = TRUE
  MayInterrupt = FALSE
  Sharing = TRUE
SPECIFICATION InstanceSpec
SYMMETRY PromiseSymmetry
INVARIANTS
  InstanceTypeOK
  MapIsCurrent
  PromiseHasAnswer
  PromisesSettled
  Quiescent
CHECK_DEADLOCK FALSE
