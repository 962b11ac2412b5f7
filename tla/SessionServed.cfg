SPECIFICATION FairSpec
CONSTANTS
  N = 2
  ThreadArg <- OneOrTwo
  c1 = c1
  c2 = c2
  Client = {c1, c2}
  k1 = k1
  k2 = k2
  k3 = k3
  Key = {k1, k2, k3}
  IntSize = 4
  SemSize = 32
  Backlog = 1
  SegId = {1, 2, 3, 4, 5, 6}
  MaxFaults = 0
INVARIANTS
  NoLeak
  AttachesInTime
  PlaysWithServer
  Isolation
PROPERTIES
  Served
