SPECIFICATION Spec
CONSTANTS
  w1 = w1
  w2 = w2
  a1 = a1
  Workers = {w1, w2}
  Admins = {a1}
  Fields = {"orders_created", "inventory_reserved"}
  MaxEvents = 2
  MaxFaults = 1
INVARIANTS
  SummaryInv
  SummaryExplained
PROPERTY
  EveryEventProjected
  ImplementsReadModel
