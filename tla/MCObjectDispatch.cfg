CONSTANTS
  Servers <- MCServers
  MaxCalls = 2
  MaxSeconds = 4
SPECIFICATION Spec
INVARIANTS NoCallIsLost AnsweredByItsObject NotifyingIsLastAsked EventsKeepTime StopEndsEvents
CHECK_DEADLOCK FALSE
