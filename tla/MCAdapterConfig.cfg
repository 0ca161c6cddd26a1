CONSTANTS
  Others <- MCNone
  Instances = 2
  Faults = {"read", "refused", "unanswered"}
  MaxFaults = 2
SPECIFICATION FairSpec
INVARIANT WellReadMeansWanted
PROPERTIES PlainSetUpIsLeftAlone IsConfigured
CHECK_DEADLOCK FALSE
