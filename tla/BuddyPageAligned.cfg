SPECIFICATION Spec
CONSTANTS
  Threads = {t1}
  NoThread = NoThread
  MaxOrder = 2
  BlockSize <- MCBlockSize
  Base = 4
  Sizes = {0, 3, 8}
PROPERTIES MergesToLowerAddress
