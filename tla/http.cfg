\* Three HTTP requests, with aborted connections, shutdowns and restarts.
CONSTANTS
  Sessions = {r1, r2, r3}
  Requests = {r1, r2, r3}
  None = None
SPECIFICATION Spec
INVARIANTS
  RefusalMeansShutdown
PROPERTIES
  ExchangesSettle
