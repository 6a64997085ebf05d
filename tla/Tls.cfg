CONSTANTS
  Threads = {t1, t2, t3}
  Keys = {k1, k2, k3}
  Values = {v1, v2}
  INVALID = INVALID
  Nil = Nil
SPECIFICATION Spec
INVARIANTS
  ReadsOwn
  KeysExact
