SPECIFICATION Spec
CONSTANTS
  SessionIds = {1, 2, 3}
  Sources = {1, 2}
  Issues = {1, 2}
  Inventory = {1}
  Owners = {1, 2}
  Pairs = {9}
  Tried <- SomeReceipts
  RootTried <- SomeRootReceipts
  Cap = 2
  Turns = 4
  Content = 12
  ToolOutput = 2
  Framing = 3
  Output = 22
  MaxRead = 7
  MaxSweep = 4
  MaxCharge = 6
  MaxTurns = 5
  MaxReceipts = 4
  MaxProgram = 7
  MaxOutput = 5
  MaxFacts = 3
  MaxInstalls = 3
CHECK_DEADLOCK FALSE
INVARIANTS AnswersAreComplete ClaimsAreEarned WindowsRootIsSafe
