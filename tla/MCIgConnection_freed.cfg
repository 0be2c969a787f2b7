CONSTANTS
  a = a
  b = b
  c = c
  mem = mem
  mem_i = mem_i
  nm = nm
  MaxLoose = 2
  Name = {a, b, c, mem, mem_i}
  NULL = NULL
  First = s
  Second = t
  Signal = {s, t}
  Writing <- Writings
  MaxTargets = 2
  MaxEnds = 2
SPECIFICATION MCSpec
INVARIANT CommandsAnswer
CHECK_DEADLOCK FALSE
