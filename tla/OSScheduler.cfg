SPECIFICATION FairSpec
CONSTANTS
  N = 3
  Jobs <- MCJobs
  Quantum = 2
  MaxTicks = 20
  Sim = Sim
  NoThread = NoThread
  MaxOrder = 2
  BlockSize <- MCBlockSize
  Base = 8
INVARIANTS MemoryMatchesState
PROPERTIES EveryoneFinishes
