SPECIFICATION Spec
CONSTANTS
  good = good
  poison = poison
  ignored = ignored
  Events = {good}
  Ignored = {}
  Poison = {}
  Count = 10
  MaxFailures = 5
  Restarted = FALSE
  MaxMessages = 1
  MaxFaults = 6
PROPERTY
  EveryMessageAcked
CHECK_DEADLOCK FALSE
