CONSTANTS
  t1 = t1
  t2 = t2
  p1 = p1
  p2 = p2
  Nil = Nil
  Threads = {t1, t2}
  Ptrs = {p1, p2}
  LOCKS = 2
  Mutexes = {1}
  CSCOUNT = 2
  DEPTH <- Depths
  POOLMAX <- Pools
  REFMAX = 2
SYMMETRY Symmetry
SPECIFICATION Spec
CHECK_DEADLOCK FALSE
INVARIANTS SectionsExclusive HandlersLive RecordsExact RefsExact
