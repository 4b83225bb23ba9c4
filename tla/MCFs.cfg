SPECIFICATION Spec
CONSTANTS
  Proc = {p1, p2}
  initproc = init
  NInodes = 3
  NINODE = 3
  NLINK_MAX = 2
  Name = {"a", "b"}
  Image <- MCImage
  Call <- MCCall
  MaxCalls = 4
  MaxCrashes = 1
SYMMETRY Symmetric
CHECK_DEADLOCK FALSE
INVARIANTS NoPanic NoCircularWait TableConsistent LinksSound
