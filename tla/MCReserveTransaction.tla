--------------------- MODULE MCReserveTransaction ---------------------
EXTENDS ReserveTransaction, TLC

CONSTANTS s1, s2, o1, o2, w1, w2, a1

TwoLines(k, l) == <<[sku |-> k, quantity |-> 1], [sku |-> l, quantity |-> 1]>>

\* Carts that name the two SKUs in either order, and one SKU twice.
LockingCarts == { TwoLines(s1, s2), TwoLines(s2, s1), TwoLines(s1, s1) }

LargeDeltas == {2}
=============================================================================
