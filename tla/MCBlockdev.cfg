SPECIFICATION Spec
CONSTANTS
  Proc = {p1, p2, p3, p4}
  k1 = k1
  v1 = v1
  Block = {k1, k2, k3, k4}
  Val = {v0, v1}
  Request <- MCRequest
  InitVal = v0
  None = None
  NBUF = 3
  NUM = 7
  IDX = 7
  MaxOps = 4
VIEW View
SYMMETRY Symmetric
INVARIANTS CacheCoherent RingsSound NothingMissed
CHECK_DEADLOCK FALSE
