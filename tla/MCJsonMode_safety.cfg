CONSTANTS
  MaxLines = 3
  MaxForwards = 2
  Pipelining = TRUE
  Duplicates = TRUE
SPECIFICATION FairSpec
INVARIANTS
  TypeOK
  OwnAnswer
  PendingIsLive

  
  
  
CHECK_DEADLOCK FALSE
