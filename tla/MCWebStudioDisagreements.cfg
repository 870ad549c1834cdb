SPECIFICATION StudioSpec
CONSTANTS
  Procs = {web, c1, c2}
  Studio = web
  Modes = {"prompt", "script"}
  Generators = {}
  NoProc = NoProc
  SpeechCount = 1
  Units = 1
  MaxAttempts = 2
  MaxRestarts = 1
\* Each of these is violated; uncomment one at a time.
PROPERTY CliVerdictStands
\* PROPERTY CancelSurvivesRestart
\* INVARIANT CancelledRequestResumes
\* INVARIANT PlaceholderIsNotRendered
\* INVARIANT OneWorkerPerRun
\* PROPERTY EveryCancelSticks
CHECK_DEADLOCK FALSE
