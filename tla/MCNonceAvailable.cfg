SPECIFICATION Spec
CONSTANTS
  Requests = {r1, r2}
  Boot = boot
  NoLeading = NoLeading
  LocalTTL = 3
  PendingTTL = 3
  MaxDelay = 2
  FirstCount = 0
  MaxTime = 5
  MaxRestarts = 0
PROPERTY NextNonceAvailable
CHECK_DEADLOCK FALSE
