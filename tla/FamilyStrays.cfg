SPECIFICATION Spec
CONSTANTS
  Task <- Five
  init = 1
  Caller = {2}
  Value <- OneValue
PROPERTIES
  OnlyBelow
CHECK_DEADLOCK FALSE
