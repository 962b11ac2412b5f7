SPECIFICATION FairSpec
CONSTANTS
  SIZE = 2
  Pid <- TwoPids
  MaxPipes = 1
  MaxLines = 4
  MaxEvents = 2
INVARIANTS
  TypeOK
  Recent
  PromptIsClean
PROPERTIES
  PassedOn
  OneTarget
  ComesBack
