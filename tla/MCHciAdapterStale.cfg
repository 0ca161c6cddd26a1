CONSTANTS
  Senders = {s1}
  Stoppers = {}
  Watchdog = w
  SenderOps = {"EReadControllerInformationCommand"}
  Instances = 1
  Ids = {i1, i2}
  Faults = {"refuse"}
  Nothing = Nothing
SPECIFICATION Spec
INVARIANT TrueMeansSuccess
CHECK_DEADLOCK FALSE
