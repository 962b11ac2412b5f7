SPECIFICATION FairSpec
CONSTANTS
  Task <- Four
  init = 1
  Caller = {2}
  Value <- OneValue
INVARIANTS
  TypeOK
PROPERTIES
  SetsMembers
  StaysBelow
  Ends
CHECK_DEADLOCK FALSE
