SPECIFICATION Spec
CONSTANTS
  Threads = {t1, t2}
  Caches = {c1, c2}
  PerSlab = 2
  MagazineSize = 1
  MaxSlabs = 2
  Clobbers = FALSE
  Null = Null
  Wild = Wild
SYMMETRY Symmetry
INVARIANTS SlotsAccounted FreeSlotsExact
PROPERTIES FreeReturnsToSlab
CHECK_DEADLOCK FALSE
