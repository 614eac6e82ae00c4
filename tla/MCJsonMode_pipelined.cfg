CONSTANTS
  MaxLines = 2
  MaxForwards = 1
  Pipelining = TRUE
  Duplicates = FALSE
SPECIFICATION FairSpec
PROPERTIES
  ResponseReaches
CHECK_DEADLOCK FALSE
