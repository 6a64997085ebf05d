SPECIFICATION FairSpec
CONSTANTS
  Tasks = {t1, t2}
  Procs = {p1, p2}
  Alerts = {}
  NoTask = NoTask
  NoProc = NoProc
  List = List
  MAX0 = 2
  RESERVE0 = 1
  BATCH = 1
  Timed = FALSE
  Worktime = FALSE
  AutoReset = TRUE
  Shutdown = {}
INVARIANTS
  WaitIsWoken
PROPERTIES
  AllUpdated
