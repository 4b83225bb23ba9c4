SPECIFICATION FairSpec
CONSTANTS
  NPROC = 2
  MaxLive = 2
  NLevel = 3
  Quantum <- MCQuantum
  NCPU = 1
  Chan = {"ticks"}
  BoostPeriod = 1
  TickMod = 2
PROPERTIES
  NoStarvation
