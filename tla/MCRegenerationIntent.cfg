SPECIFICATION IntentSpec
CONSTANTS
  Procs = {p1}
  NoProc = NoProc
  SpeechCount = 1
  MaxAttempts = 3
  Forms = {"script"}
INVARIANT
  IntentIsAuthoritative
CHECK_DEADLOCK FALSE
