SPECIFICATION FairSpec
CONSTANTS
  Procs = {p1, p2}
  Generators = {p1}
  NoProc = NoProc
  SpeechCount = 1
  Units = 1
  MaxAttempts = 2
PROPERTIES
  NotRunningForever
  LockIsReleased
CHECK_DEADLOCK FALSE
