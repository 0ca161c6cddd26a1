SPECIFICATION RestartSpec
CONSTANTS
  App = app
  ServerThread = server
  Callers = {}
  MaxTicks = 2
  InitSteps = 7
  Kept <- MCKept
  MaxRuns = 2
INVARIANT RunningIsRegistered
