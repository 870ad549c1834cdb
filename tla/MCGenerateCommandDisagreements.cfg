SPECIFICATION Spec
CONSTANTS
  Procs = {p1, p2}
  Generators = {p1, p2}
  NoProc = NoProc
  SpeechCount = 1
  Units = 1
  MaxAttempts = 2
\* Each of these is violated; uncomment one at a time.
PROPERTY LoserChangesNothing
\* PROPERTY StoppedAttemptStaysStopped
\* PROPERTY WorkerMatchesRun
\* INVARIANT PromotionCanFinish
\* INVARIANT NeverStranded
CHECK_DEADLOCK FALSE
