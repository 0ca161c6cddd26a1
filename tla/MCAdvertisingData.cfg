CONSTANTS
  Data <- MCData
  Updates <- MCUpdates
  Instances = 2
  Modulus = 8
  Limit = 4
  Flags = 1
  Name = 2
  MaxNames = 9
  MaxChanges = 1
  MaxFaults = 1
SPECIFICATION FairSpec
INVARIANTS
  StaysInside
  AdvertisesWholeSections
  OnlyFlagsAreLeftOut
  SuccessReachesAll
PROPERTIES NeedsGoodData GoodDataEndRetries
CHECK_DEADLOCK FALSE
