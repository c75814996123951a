-------------------------- MODULE MCOutboxRelay --------------------------
EXTENDS OutboxRelay

CONSTANTS r1, r2
=============================================================================
