CONSTANTS
  PromiseIds = {p1, p2}
  MaxCalls = 2
  ChanCap = 1
  CloseOnContextDone = TRUE
  MayCancel = FALSE
  MayInterrupt = FALSE
  Sharing = FALSE
SPECIFICATION InstanceSpec
PROPERTIES
  StaleJobsInert
CHECK_DEADLOCK FALSE
