SPECIFICATION FairSpec
CONSTANTS
  Block = {b1, b2}
  Val = {0, 1}
  InitVal = 0
  NoVal = NoVal
  Thread = {t1, t2, t3}
  LOGBLOCKS = 5
  MAXOPBLOCKS = 2
  OpBlocks = 1
INVARIANTS PinsMatchLog NoLogPanic SyncDurable
PROPERTIES Atomic SleepersWoken
