SPECIFICATION Spec
CONSTANTS
  NPROC = 3
  MaxLive = 2
  NLevel = 2
  Quantum <- MCQuantum
  NCPU = 2
  Chan = {"ticks"}
  BoostPeriod = 1
  TickMod = 2
INVARIANTS
  OneCpu
  QueuesMatchStates
  SliceBound
PROPERTY BoostLiftsQueued
