SPECIFICATION Spec
CONSTANTS
  Threads = {t1, t2}
  Caches = {c1}
  PerSlab = 2
  MagazineSize = 1
  MaxSlabs = 2
  Clobbers = TRUE
  Null = Null
  Wild = Wild
SYMMETRY Symmetry
INVARIANTS AllocateSucceeds
CHECK_DEADLOCK FALSE
