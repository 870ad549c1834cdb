SPECIFICATION Spec
CONSTANTS
  Procs = {p1, p2}
  Generators = {p1, p2}
  NoProc = NoProc
  SpeechCount = 1
  Units = 2
  MaxAttempts = 2
SYMMETRY Symmetry
INVARIANTS
  RecordIsBacked
PROPERTY
  OnlyHandlersIntrude
CHECK_DEADLOCK FALSE
