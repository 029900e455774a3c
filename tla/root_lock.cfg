SPECIFICATION FairLockSpec
CONSTANTS
  Procs = {p, q}
  OldProcs = {v}
  CanLink = TRUE
  MaxLockFaults = 1
INVARIANTS LockTypeOK Mutex MovedBefore
PROPERTIES NothingLost MoveEnds
