CONSTANTS
  Senders = {s1}
  Stoppers = {x1}
  Watchdog = w
  SenderOps = {"EReadControllerInformationCommand"}
  Instances = 1
  Ids = {i1}
  Faults = {}
  Nothing = Nothing
SPECIFICATION FairSpec
PROPERTY ShutdownReturns
CHECK_DEADLOCK FALSE
