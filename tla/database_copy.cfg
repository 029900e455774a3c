SPECIFICATION Spec
CONSTANTS
  Paths = {"family", "cow", "live"}
  Attempts = 2
  FamilyMax = 4
  CowMax = 2
  WalMax = 3
  MaxPages = 2
  MaxFrames = 3
  MaxWrites = 4
CHECK_DEADLOCK FALSE
INVARIANTS TypeOK OneCommit
PROPERTIES FailureHasCause
