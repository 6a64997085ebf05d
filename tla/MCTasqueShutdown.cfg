SPECIFICATION BlockingSpec
CONSTANTS
  Tasks = {t1, t2}
  Procs = {p1, p2}
  Alerts = {a1}
  NoTask = NoTask
  NoProc = NoProc
  List = List
  MAX0 = 2
  RESERVE0 = 1
  BATCH = 1
  Timed = TRUE
  Worktime = FALSE
  AutoReset = FALSE
  Shutdown = {"stop", "terminate"}
INVARIANTS
  TerminateSettles
PROPERTIES
  KillsOnlyRunning
  ImplementsService
  NoHeadOfLine
  ShutdownEnds
CHECK_DEADLOCK FALSE
