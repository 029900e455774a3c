SPECIFICATION Spec
CONSTANTS
  Eof = Eof
  Contents <- MixContents
  Modes = {"bytes", "lines", "tail", "windows", "sample", "file"}
  Max = 2
  HeadLen = 1
  TailLen = 1
  Attempts = 2
  Ticks = {0}
  MaxWrites = 3
  MaxFiles = 2
CHECK_DEADLOCK FALSE
INVARIANTS TypeOK OneMoment
PROPERTIES FailureHasCause ChargedOnce
