SPECIFICATION FairSpec
CONSTANTS
  Procs = {p1, p2}
  NoProc = NoProc
  SpeechCount = 1
  MaxAttempts = 2
  Forms = {"script"}
PROPERTIES
  NotRunningForever
CHECK_DEADLOCK FALSE
