SPECIFICATION Spec
CONSTANTS
  good = good
  poison = poison
  ignored = ignored
  Events = {good, poison, ignored}
  Ignored = {ignored}
  Poison = {poison}
  Count = 2
  MaxFailures = 2
  Restarted = TRUE
  MaxMessages = 4
  MaxFaults = 3
INVARIANTS
  ConsumerInv
  PendingFitsOneRead
  DeadLettersNeedFaults
  DeadLettersBounded
PROPERTY
  EveryMessageAcked
  ImplementsGroup
