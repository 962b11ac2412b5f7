SPECIFICATION TestsSpec
CONSTANTS
  Task <- Three
  Caller <- Second
  Limits <- OneLimit
  Argument <- Arguments
  MaxTime = 1
  ULong = 3
  SetNumber = 341
  GetNumber = 342
CHECK_DEADLOCK FALSE
INVARIANT MinBelowMax
