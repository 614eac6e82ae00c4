CONSTANTS
  PromiseIds = {p1, p2, p3}
  MaxCalls = 2
  ChanCap = 1
  CloseOnContextDone = TRUE
  MayCancel = TRUE
  MayInterrupt = TRUE
SPECIFICATION FairSpec
INVARIANTS
  TypeOK
  StoppedWasAsked
  Accounted
  LoopHasSource
  NoForeignService
  OwnOutcome
PROPERTIES
  ImplementsContract
  CallReturns
  GoroutinesEnd
CHECK_DEADLOCK FALSE
