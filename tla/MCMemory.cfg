SPECIFICATION Spec
CONSTANTS
  Proc = {p1, p2}
  First = p1
  Memories = {16, 23}
  R = 2
  PGSIZE = 2
  USERSTACK = 1
  Program <- MCProgram
  Increments <- MCIncrements
  Addr = {0, 5, 7, 8}
  Argc = {1}
  MaxCalls = 4
INVARIANTS NoPanic PagesAccounted MemoryIsImage
CHECK_DEADLOCK FALSE
