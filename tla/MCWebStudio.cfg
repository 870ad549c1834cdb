SPECIFICATION StudioSpec
CONSTANTS
  Procs = {web, c1, c2}
  Studio = web
  Modes = {"prompt", "script"}
  Generators = {}
  NoProc = NoProc
  SpeechCount = 1
  Units = 1
  MaxAttempts = 1
  MaxRestarts = 1
SYMMETRY Symmetry
INVARIANTS
  StudioTypeOK
  RecordStaysValid
  OneLiveChild
PROPERTY
  CancelSticks
CHECK_DEADLOCK FALSE
