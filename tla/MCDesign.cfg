CONSTANTS
  Name = {a, b, c, d}
  NULL = NULL
  Addr = {0, 1, 2, 3, 4, 5, 6, 7}
  ModName = {a, b}
  Local = {x}
  Code = {c1}
  Reg = {r1}
  Net = {s1}
  DB = DB
  head = head
  foot = foot
  code = code
  Id = {head, foot}
  UserCode = {code, other}
  Orphans = Orphans
  Templates <- DesignTemplates
  Default <- DesignDefault
  MixForms = FALSE
  MaxFile = 6
  EntryName = {a, b, c}
  Address = {0, 3, 4}
  Offset = {0, 6}
  Protect = {}
  Blank = Blank
  AddrAlign = 2
  RegisterAlign = {1, 2}
  MaxRows = 2
  MaxAddress = 11
  MaxLevel = 4
  MaxLines = 6
  LogId = {"Gen", "Tcl"}
  NoLevel = NoLevel
  MaxMessages = 2
  MaxSettings = 2
SPECIFICATION DesignSpec
SYMMETRY Symmetry
CONSTRAINT PartsApart
ACTION_CONSTRAINT ResetsWorthwhile
INVARIANTS
  DatabaseInv
  ClimbEnds
  TablesAgree
  RefcountExact
  NoDanglingReference
  BackReferencesLive
  QueuesMatchBackReferences
  FreedOnce
  NothingLeaksButOrphans
  AscendingApart
  OverlapsReported
  ParentsAsWritten
  QueriesAgree
  ExitCodeTells
PROPERTIES
  ImplementsForest
  HeapImplementsForest
  UserCodeKept
  RegenerateSettles
CHECK_DEADLOCK FALSE
