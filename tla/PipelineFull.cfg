SPECIFICATION FairSpec
CONSTANTS
  SIZE = 8
  Line <- Pipes
  MaxStages = 2
  Leftover <- Arrays
  Command = {"a", "b", "c"}
  File = {"f"}
  MaxUnits = 2
  Capacity = 1
  MaxFaults = 0
PROPERTIES
  Finishes
