CONSTANTS
  NodeNames <- MCNodeNames
  MaxNodes = 3
  BluezObjects <- MCBluezObjects
  MaxObjects = 2
  Faults = {"vanish", "register", "application"}
  MaxFaults = 1
SPECIFICATION FairSpec
INVARIANTS TypeOK PathsAgree CallsReachTheirObject ToldIsServed ManagerIsServed ProxiesAgree NothingIsLeft
PROPERTY GetsRegistered
CHECK_DEADLOCK FALSE
