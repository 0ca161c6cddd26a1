CONSTANTS
  Apps = {t1, t2}
  Characteristics = {c}
  Descriptors = {}
  Strangers = {x, y}
  Advertisement = advertisement
  TooLong = {y}
  Refuses = TRUE
  MaxChanges = 2
  MaxQueue = 1
SPECIFICATION FairSpec
INVARIANTS SettledIsShown SettledIsAdvertised
PROPERTIES ChangesAreShown FifoSpec
CHECK_DEADLOCK FALSE
