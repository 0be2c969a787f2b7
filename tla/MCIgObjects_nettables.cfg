CONSTANTS
  Addr = {0, 1, 2, 3, 4, 5, 6, 7}
  ModName = {a, b}
  Local = {x}
  Code = {}
  Reg = {}
  Net = {s}
  DB = DB
  NULL = NULL
SPECIFICATION ObjectSpec
SYMMETRY Symmetry
INVARIANTS
  NetTablesHoldNets
CHECK_DEADLOCK FALSE
