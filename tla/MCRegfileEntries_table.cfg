CONSTANTS
  EntryName = {p, q, r, s}
  Address = {0, 3, 4}
  Offset = {0, 6}
  Protect = {TRUE}
  Blank = Blank
  AddrAlign = 2
  RegisterAlign = {1, 2}
  MaxRows = 2
  MaxAddress = 13
SPECIFICATION EntriesSpec
SYMMETRY Symmetry
INVARIANTS
  ProtectedAsAsked
CHECK_DEADLOCK FALSE
