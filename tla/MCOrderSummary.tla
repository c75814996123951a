-------------------------- MODULE MCOrderSummary --------------------------
EXTENDS OrderSummary

CONSTANTS w1, w2, a1
=============================================================================
