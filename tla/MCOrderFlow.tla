--------------------------- MODULE MCOrderFlow ---------------------------
EXTENDS OrderFlow

CONSTANTS s1, s2, o1, o2, k1, k2

OneLine(s, q) == <<[sku |-> s, quantity |-> q]>>

\* One line, two lines of distinct SKUs, and two lines of one SKU that are
\* each small but together exceed a small stock.
AllCarts ==
  { OneLine(s1, 1), OneLine(s1, 2),
    OneLine(s2, 1) \o OneLine(s1, 1), OneLine(s1, 1) \o OneLine(s1, 1) }

RepeatedSkuCarts == { cart \in AllCarts : RepeatsSku(cart) }

\* Three adjustments reach a stock of 1, 2 or 3, and go past both bounds.
SmallDeltas == {-1, 2}
=============================================================================
