SPECIFICATION Spec
CONSTANTS
  Proc = {p1, p2}
  None = None
  Reader = {p1}
  Writer = {p2}
  INPUT_BUF_SIZE = 2
  UINT = 4
  FIFO = 2
  BATCH = 1
  MaxRx = 1
  MaxTyped = 5
  MaxCalls = 2
  MaxLen = 2
INVARIANTS EofReturnedOnce LineDiscipline NoByteLost NobodyStuck
CHECK_DEADLOCK FALSE
