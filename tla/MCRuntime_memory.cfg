SPECIFICATION RuntimeSpec
CONSTANTS
  Guests = {c, i1, i2}
  Compiler = c
  Addrs = {a1, a2, a3}
  MaxLen = 1
SYMMETRY Symmetry
INVARIANTS
  RuntimeTypeOK
  NoFault
  NothingLeft
  OnlyHandlesOpen
  CacheIsOwners
CHECK_DEADLOCK FALSE
