SPECIFICATION FairTxnSpec
CONSTANTS
  s1 = s1
  s2 = s2
  o1 = o1
  o2 = o2
  w1 = w1
  w2 = w2
  a1 = a1
  Skus = {s1, s2}
  Orders = {o1, o2}
  Keys = {o1, o2}
  Carts <- LockingCarts
  Deltas <- LargeDeltas
  MaxInt = 3
  MaxAdjustments = 2
  Workers = {w1, w2}
  Admins = {a1}
  MaxFaults = 1
INVARIANTS
  IsolationInv
  DeadlocksAreOpposedReservations
PROPERTIES
  ImplementsUseCases
  OrderDecidedDespiteLocks
CHECK_DEADLOCK FALSE
