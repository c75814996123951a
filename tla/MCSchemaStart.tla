-------------------------- MODULE MCSchemaStart --------------------------
EXTENDS SchemaStart

CONSTANTS api, relay, worker, orders, event_log
=============================================================================
