CONSTANTS
  MaxOpcodes = 0
  MaxInstances = 2
  MaxPolls = 0
  MaxText = 1
  MaxRPCs = 2
  Pieces <- PiecesSmall
SPECIFICATION InteractiveSpec
INVARIANTS
  ReadsWhilePaused
CHECK_DEADLOCK FALSE
