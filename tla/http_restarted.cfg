CONSTANTS
  Sessions = {r1, r2}
  Requests = {r1, r2}
  None = None
SPECIFICATION SafeSpec
INVARIANT StartedIsAttached
