SPECIFICATION FairSpec
CONSTANTS
  Threads = {t1, t2}
  NoThread = NoThread
  MaxOrder = 3
  BlockSize <- MCBlockSize
  Base = 16
  Sizes = {0, 8, 17}
INVARIANTS NoOverlap NoLeak Coalesced
PROPERTIES HeapSpec NullOnlyWhenFull MutexReleased
