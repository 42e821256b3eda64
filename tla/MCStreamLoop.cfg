SPECIFICATION CSpec
CONSTANTS
  StdoutRoom = 2
  StderrRoom = 1
  MaxMessages = 2
  MaxNulls = 1
  Second = 6
  Work = 1
  desiredFrameRate = 3
CHECK_DEADLOCK FALSE
INVARIANTS
  CTypeOK
  DelayIsBounded
  JamMeansFlood
PROPERTIES
  StreamGoesOn
