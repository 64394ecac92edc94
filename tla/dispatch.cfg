\* Two handlers, at most two entries of the index.
CONSTANTS
  Names = {"a", "b", "c"}
  BadNames = {"*"}
  Id = ":id"
  Blank = ""
  Huge = "huge"
  MaxSegments = 3
  Actions = {"GET", "BREW", "OPTIONS"}
  KnownMethods = {"GET", "OPTIONS", "TRACE"}
  Handlers = {h1, h2}
  MaxEntries = 2
  Registrations <- MCRegistrations
  Urls <- MCUrls
SPECIFICATION DispatchSpec
SYMMETRY Symmetry
INVARIANTS
  DispatchTypeOK
  GoneIsNotServed
  HandlerServes
  RefusalIsApt
  AllowIsComplete
