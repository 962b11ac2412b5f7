SPECIFICATION FairSpec
CONSTANTS
  SIZE = 8
  Line <- Lines
  MaxStages = 3
  Leftover <- Arrays
  Command = {"a", "b", "c"}
  File = {"f"}
  MaxUnits = 2
  Capacity = 2
  MaxFaults = 2
INVARIANTS
  TypeOK
  AsWritten
  OnlyItsWriter
PROPERTIES
  PipelineSpec
  Finishes
