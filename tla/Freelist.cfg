SPECIFICATION FairSpec
CONSTANTS
  Threads = {t1, t2}
  Nodes = {n1, n2}
  Null = Null
  Junk = Junk
  MaxTag = 8
INVARIANTS OneOwner Linked
PROPERTIES StackSpec CallsReturn
CHECK_DEADLOCK FALSE
