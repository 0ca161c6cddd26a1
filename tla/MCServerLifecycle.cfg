SPECIFICATION FairSpec
CONSTANTS
  App = app
  ServerThread = server
  Callers = {c1, c2}
  MaxTicks = 2
  InitSteps = 3
  Kept = {2}
INVARIANTS
  RetryHasTimer
  RunningMeansLooping
  UnhealthyRunningMeansTimeout
  EndedServerNotRunning
PROPERTIES
  QuitEndsServer
  StopAfterRunReturns
  HandleSpec
