\* A client that makes two calls, one after the other.
CONSTANTS
  Requests = {r1, r2}
  Ids = {i1}
  Keys = {"x", "y"}
  Values = {0, 1}
  Contents <- MCContents
  Blank <- MCBlank
  None = None
  Junk = Junk
  MaxCalls = 1
SPECIFICATION SyncSpec
INVARIANTS
  NoChangeIsLost
PROPERTY
  SyncSettles
