CONSTANTS
  s1 = s1
  s2 = s2
  b1 = b1
  b2 = b2
  t1 = t1
  t2 = t2
  t3 = t3
  x1 = x1
  x2 = x2
  x3 = x3
  Null = Null
  NoSlot = NoSlot
  Blocks <- TwoBlocks
  PIECES = 2
  RCWRAP = 8
  Threads <- ThreeThreads
  Slots <- TwoSlots
  Refs <- ThreeRefs
SYMMETRY Symmetry
SPECIFICATION Spec
INVARIANTS
  FreeListsSound
  Exclusive
  CountsExact
  NoPieceLost
PROPERTIES
  ImplementsLife
