CONSTANTS
  Senders = {}
  Stoppers = {x1, x2}
  Watchdog = w
  SenderOps = {"EReadControllerInformationCommand"}
  Instances = 1
  Ids = {i1}
  Faults = {"start"}
  Nothing = Nothing
SPECIFICATION FairSpec
INVARIANT ReadsOpenSocket
PROPERTY StopReturns
CHECK_DEADLOCK FALSE
