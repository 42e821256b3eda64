SPECIFICATION HSpec
CONSTANTS
  Slots = 3
  Positions <- Angles
  TxLimit = 1
  OverlapLimit = 2
INVARIANTS
  TimerSurvives
  WriteOnlyWhenEnabled
  CommandWithinSeen
PROPERTIES
  ImplementsAverage
CHECK_DEADLOCK FALSE
