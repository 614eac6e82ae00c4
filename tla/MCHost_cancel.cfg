CONSTANTS
  PromiseIds = {p1, p2}
  MaxCalls = 1
  ChanCap = 2
  CloseOnContextDone = TRUE
  MayCancel = TRUE
  MayInterrupt = FALSE
SPECIFICATION FairSpec
PROPERTIES
  LoopDrains
CHECK_DEADLOCK FALSE
