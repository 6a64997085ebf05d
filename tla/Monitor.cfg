CONSTANTS
  Threads = {t1, t2, t3}
  Objs = {o1, o2, o3, o4}
  Null = Null
  None = None
  DEPTH = 2
  TIMED = FALSE
SPECIFICATION Spec
CHECK_DEADLOCK FALSE
INVARIANTS
  NothingLeaked
  OneInside
PROPERTIES
  ImplementsMonitor
