SPECIFICATION Spec
CONSTANTS
  Procs = {p1, p2}
  NoProc = NoProc
  SpeechCount = 2
  MaxAttempts = 2
  Forms = {"fixture", "generated"}
SYMMETRY Symmetry
INVARIANTS
  TypeOK
  RecordStaysValid
  NoLostUpdate
  CompletedMeansCommitted
  ProgressIsBacked
  BypassedIsFresh
PROPERTIES
  CheckpointsKept
  KeepsPromise
CHECK_DEADLOCK FALSE
