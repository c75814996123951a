---------------------------- MODULE MCPipeline ----------------------------
EXTENDS Pipeline

CONSTANTS s1, o1, k1

OneUnit == [sku |-> s1, quantity |-> 1]

\* One line, and two lines of one SKU, which one unit of stock makes fail.
SmallCarts == { <<OneUnit>>, <<OneUnit, OneUnit>> }
=============================================================================
