CONSTANTS
  r1 = r1
  r2 = r2
  Rqsts = {r1}
  Wires <- GetWires
  Bodies <- ChunkBody
  STRAYS <- Clean
  MAXBUF = 6
  MAXREQ = 6
  MAXPOST = 6
  GROW = 2
  HDR = 2
  PREFIX = 2
SPECIFICATION Spec
INVARIANTS ChunkFramed
CHECK_DEADLOCK FALSE
