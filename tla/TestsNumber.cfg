SPECIFICATION FairTests
CONSTANTS
  Task <- Three
  Caller <- Second
  Limits <- OneLimit
  Argument <- Arguments
  MaxTime = 1
  ULong = 3
  SetNumber = 342
  GetNumber = 342
CHECK_DEADLOCK FALSE
PROPERTY PrintsThree
