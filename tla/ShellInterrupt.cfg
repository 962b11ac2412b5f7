SPECIFICATION Spec
CONSTANTS
  SIZE = 2
  Pid <- TwoPids
  MaxPipes = 1
  MaxLines = 4
  MaxEvents = 2
PROPERTIES
  SignalKills
