SPECIFICATION FairSpec
CONSTANTS
  App = app
  ServerThread = server
  Callers = {c1}
  MaxTicks = 2
  InitSteps = 3
  Kept = {2}
PROPERTY ShutdownCompletes
