SPECIFICATION PSpec
CONSTANTS
  Slots = 2
  Positions = {0, 7, 12}
  TxLimit = 1
  RxLimit = 1
  LossLimit = 1
INVARIANTS
  PTypeOK
PROPERTIES
  ServoSettles
  QuietHolds
  ImplementsChannel
CHECK_DEADLOCK FALSE
