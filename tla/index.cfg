\* Registrations that succeed or fail, in any order; one action.
CONSTANTS
  Names = {"a", "b", "c"}
  BadNames = {"*"}
  Id = ":id"
  Blank = ""
  Huge = "huge"
  MaxSegments = 4
  Actions = {"GET"}
  Registrations <- MCRegistrations
  Urls <- MCUrls
SPECIFICATION IndexSpec
INVARIANTS
  TreeIsWellFormed
  LookupIsGreedy
  IdsAreKept
  AtAgrees
PROPERTY
  OnlyShadowingDisturbs
