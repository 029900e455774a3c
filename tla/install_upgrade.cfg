SPECIFICATION FairSpec
CONSTANTS
  skill = skill
  extra = extra
  runtime = runtime
  claude = claude
  codex = codex
  p1 = p1
  p2 = p2
  s1 = s1
  s2 = s2
  e1 = e1
  r1 = r1
  mine = mine
  Absent = Absent
  Nobody = Nobody
  Path = {skill, extra}
  Claim = {claude, codex}
  Release = {1, 2}
  Digest = {s1, e1}
  UserData = {mine}
  Bundle <- Dropping
  Proc = {p1}
  FaultPhase = {"backup", "commit", "saving", "ready", "remove"}
  CrashPhase = {"staging", "snapshot", "backup", "commit", "complete", "saving", "ready", "remove", "undo", "cleanup", "unlink"}
  MaxGen = 3
  MaxEdits = 0
  MaxCrashes = 1
  MaxFaults = 1
  Forcing = {TRUE, FALSE}
CHECK_DEADLOCK FALSE
PROPERTIES RootIsAtomic ForcedBackupKept JournalIsCleared
