\* The queue overflows twice over.
CONSTANTS
  QueueCap = 2
  MaxEvents = 5
SPECIFICATION FairSpec
INVARIANTS
  TypeOK
  OneSession
  CallbackWhileRegistered
  QueueIsSuffix
PROPERTIES
  InOrder
  JoinReturns
\* A closed handle takes no more calls.
CHECK_DEADLOCK FALSE
