SPECIFICATION FairSpec
CONSTANTS
  Byte = {a, b}
  Writer = {w1, w2}
  Caller = {w1, r1}
  Reader = {r1}
  Killable = {w1, r1}
  Nil = Nil
  PIPESIZE = 2
  Wrap = 4
  MaxN = 2
  MaxKills = 1
INVARIANTS SleepersHaveReason
PROPERTIES IsFifo CallsEnd
CHECK_DEADLOCK FALSE
