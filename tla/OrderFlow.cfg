SPECIFICATION FairSpec
CONSTANTS
  s1 = s1
  s2 = s2
  o1 = o1
  o2 = o2
  k1 = k1
  k2 = k2
  Skus = {s1, s2}
  Orders = {o1, o2}
  Keys = {k1, k2}
  Carts <- AllCarts
  Deltas <- SmallDeltas
  MaxInt = 3
  MaxAdjustments = 3
INVARIANTS
  TypeOK
  NeverOversold
  ReservationsBalance
  ProcessedMatchesStatus
  LogFaithful
  HandlersCanSucceed
PROPERTIES
  ImplementsFulfilment
  OrderDetailsFit
  EveryPlainOrderDecided
  EveryReservationShipped
CHECK_DEADLOCK FALSE
