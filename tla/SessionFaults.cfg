SPECIFICATION Spec
CONSTANTS
  N = 1
  ThreadArg <- AnyArgument
  c1 = c1
  c2 = c2
  Client = {c1, c2}
  k1 = k1
  k2 = k2
  k3 = k3
  Key = {k1, k2, k3}
  IntSize = 4
  SemSize = 32
  Backlog = 1
  SegId = {1, 2, 3, 4, 5, 6}
  MaxFaults = 1
SYMMETRY Symmetric
INVARIANTS
  TypeOK
  Matched
CHECK_DEADLOCK FALSE
