CONSTANTS
  o1 = o1
  o2 = o2
  o3 = o3
  o4 = o4
  s1 = s1
  s2 = s2
  s3 = s3
  c1 = c1
  c2 = c2
  Ops = {o1, o2, o3}
  Socks = {s1, s2, s3}
  Conns = {c1, c2}
  MAXFD = 2
  MAXLEN = 1
  MAXIN = 0
  CALLS = {"send", "accept"}
SPECIFICATION Spec
SYMMETRY Symmetric
INVARIANTS StraysOnlyAfterClose DescriptorsHeld
CHECK_DEADLOCK FALSE
