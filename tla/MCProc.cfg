SPECIFICATION FairSpec
CONSTANTS
  Procs = {init, p1, p2}
  initproc = init
  Nil = Nil
  MaxPid = 4
  MaxPause = 1
PROPERTIES OrphansReaped KilledExits
INVARIANTS HasReaper NoMissedWakeup
