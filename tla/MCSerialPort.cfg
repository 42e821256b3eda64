SPECIFICATION SPFairSpec
CONSTANTS
  w = w  c = c  m1 = m1  m2 = m2  None = None
  Threads = {w, c}
  Monitors = {m1, m2}
  Scripts <- Usage
  MaxInterrupts = 1
  Timeouts = {"none", "zero", "some"}
  Thresholds = {0, 2}
  Length = 2
  MaxPending = 2
CHECK_DEADLOCK FALSE
INVARIANTS
  STypeOK
  UsesOpenDevice
  LoopOnOpenDevice
  ListenerIsServed
  NotificationIsKept
PROPERTIES
  CallsReturn
