SPECIFICATION Spec
CONSTANTS
  Absent = Absent
  Torn = Torn
  Shipped = {s1, s2}
  UserData = {mine, yours}
  UserPhase = {"idle", "look", "aside", "hash", "drop", "probe", "copy", "copying", "link", "tidy", "check", "create", "fill", "recheck"}
  FaultPhase = {"look", "aside", "hash", "drop", "copy", "copying", "link", "tidy", "check", "replace", "recheck", "publish"}
  CrashPhase = {"look", "aside", "copy", "copying", "link", "tidy", "check", "replace", "recheck", "publish"}
  MaxEdits = 2
  MaxFaults = 1
  MaxCrashes = 1
  MaxOps = 3
CHECK_DEADLOCK FALSE
INVARIANTS TypeOK NoTornLeaf
PROPERTIES LeafIsAtomic
