SPECIFICATION FairStudioSpec
CONSTANTS
  Procs = {web, c1, c2}
  Studio = web
  Modes = {"prompt"}
  Generators = {}
  NoProc = NoProc
  SpeechCount = 1
  Units = 1
  MaxAttempts = 1
  MaxRestarts = 0
PROPERTIES
  CancelStopsHungChild
  QueuedIsTakenUp
CHECK_DEADLOCK FALSE
