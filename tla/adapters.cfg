\* A direct, an express and two HTTP adapters, added at any time.
CONSTANTS
  Sessions = {s1, s2}
  Requests = {r1, r2}
  None = None
  Direct = {d1}
  Http = {h1, h2}
  Express = {x1}
SPECIFICATION AdaptersSpec
SYMMETRY Symmetry
INVARIANTS
  StoppedIsQuiet
  AllServe
  ValidIsTracked
  StoppedHasNoSession
  OpenRequestIsReachable
  OverIsReleased
