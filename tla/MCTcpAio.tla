------------------------------ MODULE MCTcpAio ------------------------------
EXTENDS TcpAio, TLC

CONSTANTS o1, o2, o3, o4, s1, s2, s3, c1, c2

Symmetric == Permutations(Ops) \cup Permutations(Socks) \cup Permutations(Conns)
=============================================================================
