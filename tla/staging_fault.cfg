SPECIFICATION Spec
CONSTANTS
  skill = skill
  extra = extra
  runtime = runtime
  claude = claude
  codex = codex
  p1 = p1
  p2 = p2
  s1 = s1
  s2 = s2
  e1 = e1
  r1 = r1
  mine = mine
  Absent = Absent
  Nobody = Nobody
  Path = {skill, runtime}
  Claim = {claude, codex}
  Release = {1, 2}
  Digest = {s1, s2, r1}
  UserData = {mine}
  Bundle <- Steady
  Proc = {p1}
  FaultPhase = {"staging"}
  CrashPhase = {"staging", "snapshot", "backup", "commit", "orphan", "publish", "complete", "saving", "ready", "remove", "undo", "cleanup", "unlink"}
  MaxGen = 2
  MaxEdits = 0
  MaxCrashes = 0
  MaxFaults = 1
  Forcing = {FALSE}
CHECK_DEADLOCK FALSE
INVARIANTS ManifestMatchesDisk
