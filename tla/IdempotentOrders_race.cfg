SPECIFICATION Spec
CONSTANTS
  s1 = s1
  o1 = o1
  o2 = o2
  o3 = o3
  o4 = o4
  o5 = o5
  o6 = o6
  k1 = k1
  k2 = k2
  first = first
  again = again
  changed = changed
  other = other
  Skus = {s1}
  MaxInt = 2
  Carts <- TwoCarts
  Orders = {o1, o2, o3, o4, o5, o6}
  Keys = {k1, k2}
  Requests = {first, again, changed, other}
  RequestKey <- KeyOfRequest
  RequestCart <- CartOfRequest
  MaxFaults = 0
INVARIANT
  NeverUnavailable
