CONSTANTS
  o1 = o1
  o2 = o2
  o3 = o3
  o4 = o4
  s1 = s1
  s2 = s2
  s3 = s3
  c1 = c1
  c2 = c2
  Ops = {o1, o2, o3}
  Socks = {s1}
  Conns = {c1}
  MAXFD = 1
  MAXLEN = 2
  MAXIN = 1
  CALLS = {"recv", "connect"}
SPECIFICATION FairSpec
PROPERTIES ImplementsContract AllAnswered
CHECK_DEADLOCK FALSE
