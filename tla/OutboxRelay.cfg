SPECIFICATION Spec
CONSTANTS
  r1 = r1
  r2 = r2
  Relays = {r1, r2}
  BatchSize = 2
  MaxEvents = 4
  MaxFaults = 2
INVARIANTS
  RelayInv
  PublishedIsSent
  CopiesNeedFaults
PROPERTY
  EveryEventPublished
CHECK_DEADLOCK FALSE
