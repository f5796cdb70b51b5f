SPECIFICATION Spec
CONSTANTS
  Requests = {r1, r2, r3}
  Boot = boot
  NoLeading = NoLeading
  LocalTTL = 2
  PendingTTL = 2
  MaxDelay = 1
  FirstCount = 0
  MaxTime = 3
  MaxRestarts = 1
SYMMETRY RequestSymmetry
INVARIANTS NoSharedNonce AnsweredIsRemembered NoHole
PROPERTY LeasesNonces
CHECK_DEADLOCK FALSE
