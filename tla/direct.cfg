\* Two direct clients, three requests, with disconnections, shutdowns and restarts.
CONSTANTS
  Sessions = {c1, c2}
  Requests = {r1, r2, r3}
  None = None
SPECIFICATION Spec
INVARIANTS
  GoneClientOwnsNothing
  ChecksAgree
PROPERTIES
  CallsSettle
