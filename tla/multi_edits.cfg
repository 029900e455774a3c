SPECIFICATION Spec
CONSTANTS
  skill = skill
  runtime = runtime
  claude = claude
  codex = codex
  p1 = p1
  p2 = p2
  s1 = s1
  s2 = s2
  r1 = r1
  mine = mine
  Absent = Absent
  Nobody = Nobody
  Path = {skill, runtime}
  Claim = {claude, codex}
  Release = {1, 2}
  Digest = {s1, s2, r1}
  UserData = {mine}
  Bundle <- Bundles
  Roots = 2
  Proc = {p1}
  Request <- Requests
  FaultPhase = {"install", "undo", "restore"}
  CrashPhase = {"install", "undo", "restore"}
  MaxGen = 2
  MaxEdits = 1
  MaxFaults = 2
  MaxCrashes = 1
CHECK_DEADLOCK FALSE
INVARIANTS AllOrNothing
PROPERTIES UndoKeepsUserData
