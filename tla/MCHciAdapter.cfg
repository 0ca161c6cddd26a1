CONSTANTS
  Senders = {s1}
  Stoppers = {x1}
  Watchdog = w
  SenderOps = {"EReadControllerInformationCommand"}
  Instances = 1
  Ids = {i1}
  Faults = {"malformed"}
  Nothing = Nothing
SPECIFICATION FairSpec
INVARIANTS AnswersMatchWithoutTimeouts NoThreadOverwritten
PROPERTIES CallsReturn DeadChannelEndsProcess
CHECK_DEADLOCK FALSE
