\* User functions call next() and send() up to twice, in any context, and throw at any time:
\* chain of 2, the head with a back function.
CONSTANTS
  N = 2
  HasBack <- HeadHasBack
  MaxCalls = 2
SPECIFICATION Spec
CHECK_DEADLOCK FALSE \* an exchange ends
INVARIANTS
  NoLostRequest
  DutyIsConserved
  ErrorNeverSwallowed
PROPERTIES
  OutwardOnly
  ImplementsOnionReply
