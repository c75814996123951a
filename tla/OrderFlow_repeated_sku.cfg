SPECIFICATION FairSpec
CONSTANTS
  s1 = s1
  s2 = s2
  o1 = o1
  o2 = o2
  k1 = k1
  k2 = k2
  Skus = {s1}
  Orders = {o1}
  Keys = {k1}
  Carts <- RepeatedSkuCarts
  Deltas = {1}
  MaxInt = 2
  MaxAdjustments = 1
PROPERTY
  EveryOrderDecided
CHECK_DEADLOCK FALSE
