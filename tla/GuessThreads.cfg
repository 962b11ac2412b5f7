SPECIFICATION FairSpec
CONSTANTS
  N = 4
  M = 2
  CharMin = 0
  CharMax = 3
  Blank = 0
  First = 1
  Alphabet <- MCAlphabet
INVARIANTS
  TypeOK
  IInv
  NoDataRace
  NeverOvershoots
  VerdictStands
  VerdictIsFresh
  OneToken
  NoLostWakeup
  ClientFoundTheString
PROPERTIES
  SearchSpec
  Termination
  SearchProgress
