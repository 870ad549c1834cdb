SPECIFICATION Spec
CONSTANTS
  Procs = {p1}
  NoProc = NoProc
  SpeechCount = 1
  MaxAttempts = 1
  Forms = {"script"}
\* Each of these is violated; uncomment one at a time.
PROPERTY CompletedIsFinal
\* INVARIANT RecordNamesItsSegment
CHECK_DEADLOCK FALSE
