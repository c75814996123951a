------------------------- MODULE MCStreamConsumer -------------------------
EXTENDS StreamConsumer

CONSTANTS good, poison, ignored
=============================================================================
