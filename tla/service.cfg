\* Three requests of any kind, on one resource with two attributes.
CONSTANTS
  Requests = {r1, r2, r3}
  Ids = {i1}
  Keys = {"x", "y"}
  Values = {0, 1}
  Contents <- MCContents
  Blank <- MCBlank
  None = None
  Junk = Junk
SPECIFICATION ServiceSpec
SYMMETRY Symmetry
CHECK_DEADLOCK FALSE \* all requests are answered
INVARIANTS
  AnswersAreTrue
  AnsweredOnce
