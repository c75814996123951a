SPECIFICATION Spec
CONSTANTS
  w1 = w1
  w2 = w2
  a1 = a1
  Workers = {w1}
  Admins = {a1}
  Fields = {"orders_created"}
  MaxEvents = 2
  MaxFaults = 0
INVARIANT
  NoEventCountedTwice
