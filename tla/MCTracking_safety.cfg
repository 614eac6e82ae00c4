CONSTANTS
  MaxOpcodes = 20000
  MaxCPU = 1
  MaxUnits = 2
  MaxPolls = 3
  MaxTime = 2
SPECIFICATION TrackingSpec
INVARIANTS
  TrackingTypeOK
  OpcodesExact
  OpcodeBudgetKept
  
  ForceIsOfUnit
CHECK_DEADLOCK FALSE
