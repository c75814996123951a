SPECIFICATION FairSpec
CONSTANTS
  api = api
  relay = relay
  worker = worker
  orders = orders
  event_log = event_log
  NoService = NoService
  Services = {api, relay, worker}
  Tables = {orders, event_log}
  MaxStops = 2
INVARIANTS
  SchemaInv
  AtMostOneStartFails
PROPERTY
  EveryServiceStarts
CHECK_DEADLOCK FALSE
