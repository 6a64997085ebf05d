CONSTANTS
  r1 = r1
  r2 = r2
  Rqsts = {r1, r2}
  Wires <- AllWires
  Bodies <- AllBodies
  STRAYS <- Clean
  MAXBUF = 6
  MAXREQ = 6
  MAXPOST = 6
  GROW = 2
  HDR = 2
  PREFIX = 2
SPECIFICATION FairSpec
INVARIANTS NotForgotten InBuffer PostWhole BodyWhole ServerSound
PROPERTIES ImplementsExchange MovesOn AllAnswered ServerEnds
CHECK_DEADLOCK FALSE
