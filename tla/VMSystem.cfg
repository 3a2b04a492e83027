SPECIFICATION Spec
CONSTANTS
  Trace <- MCTrace
  Pids = {1, 2}
  Vpns = {0, 1}
  Frames = 3
  TlbCap = 2
  MaxFaults = 7
INVARIANTS FramesExact HoldsMostRecent TlbCoherent
PROPERTIES WritesBack SecondChance PagingSpec
