SPECIFICATION FairPipeSpec
CONSTANTS
  s1 = s1
  o1 = o1
  k1 = k1
  Skus = {s1}
  Orders = {o1}
  Keys = {k1}
  Carts <- SmallCarts
  Deltas = {1}
  MaxInt = 2
  MaxAdjustments = 1
  MaxDeadLetters = 2
  MaxLosses = 1
  MaxSpares = 1
INVARIANTS
  DeliveryInv
  NothingStranded
PROPERTY
  EveryOrderCompletes
  ImplementsGroups
CHECK_DEADLOCK FALSE
