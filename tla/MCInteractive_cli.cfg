CONSTANTS
  MaxOpcodes = 1
  MaxInstances = 3
  MaxPolls = 2
  MaxText = 4
  MaxRPCs = 2
  Pieces <- PiecesSmall
SPECIFICATION InteractiveSpec
INVARIANTS
  InteractiveTypeOK
  OneInstance
  ClosedAtReturn
  FallbackWired
  BudgetIsOwn
  ReadsBrackets
  OneDecision
  
  
CHECK_DEADLOCK FALSE
