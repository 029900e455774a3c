SPECIFICATION Spec
CONSTANTS
  SessionIds = {1, 2, 3}
  Ids = {1, 2, 3, 4}
  Foreign = {3}
  Cap = 2
  MaxLines <- Lines
CHECK_DEADLOCK FALSE
INVARIANTS ShownBranchIsLive ShownIsFaithful NothingIsHidden ExactIdIsFound ListIsTrue
