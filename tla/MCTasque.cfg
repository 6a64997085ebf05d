SPECIFICATION Spec
CONSTANTS
  Tasks = {t1, t2, t3}
  Procs = {p1, p2, p3, p4}
  Alerts = {a1}
  NoTask = NoTask
  NoProc = NoProc
  List = List
  MAX0 = 3
  RESERVE0 = 0
  BATCH = 2
  Timed = TRUE
  Worktime = TRUE
  AutoReset = TRUE
  Shutdown = {"terminate"}
INVARIANTS
  CountersExact
  ProcsBounded
  ProcListSound
  StartHandshake
  OnePlace
  ZeroMeansDone
SYMMETRY Symmetry
CHECK_DEADLOCK FALSE
