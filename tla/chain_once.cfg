\* User functions call next() or send() once, and may throw before or after that: chain of 4,
\* head and tail with a back function.
CONSTANTS
  N = 4
  HasBack <- EdgesHaveBack
  MaxCalls = 1
SPECIFICATION Spec
CHECK_DEADLOCK FALSE \* an exchange ends
INVARIANTS
  TypeOK
  DepthTracksDuty
PROPERTIES
  ResponseStable
  Settles
