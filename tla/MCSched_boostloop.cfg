SPECIFICATION FairSpec
CONSTANTS
  NPROC = 2
  MaxLive = 2
  NLevel = 2
  Quantum <- MCQuantum
  NCPU = 1
  Chan = {"ticks"}
  BoostPeriod = 2
  TickMod = 4
PROPERTIES
  BoostTerminates
