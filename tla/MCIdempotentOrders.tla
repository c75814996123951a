------------------------ MODULE MCIdempotentOrders ------------------------
EXTENDS IdempotentOrders, TLC

CONSTANTS s1, o1, o2, o3, o4, o5, o6, k1, k2, first, again, other, changed

OneLine(q) == <<[sku |-> s1, quantity |-> q]>>

TwoCarts == {OneLine(1), OneLine(2)}

\* "first" and "again" are one order sent twice, "changed" reuses its key with
\* other lines, and "other" is an order of the same lines under another key.
KeyOfRequest == first :> k1 @@ again :> k1 @@ changed :> k1 @@ other :> k2

CartOfRequest ==
  first :> OneLine(1) @@ again :> OneLine(1) @@ changed :> OneLine(2) @@ other :> OneLine(1)
=============================================================================
