SPECIFICATION FairTests
CONSTANTS
  Task <- Three
  Caller <- Second
  Limits <- OneLimit
  Argument <- Arguments
  MaxTime = 1
  ULong = 3
  SetNumber = 341
  GetNumber = 342
CHECK_DEADLOCK FALSE
INVARIANTS
  TypeOK
  ReadsBack
PROPERTIES
  Growing
  Total
  Extremes
  PrintsThree
