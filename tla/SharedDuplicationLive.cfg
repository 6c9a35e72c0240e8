\* Two handles of one device and one of another, so that open can be refused
\* for both of its reasons; one frame is enough for the calls to return.
CONSTANTS
  Capture = {c1, c2, c3}
  Foreign = {c3}
  RingDepth = 1
  Transient = {t1}
  MaxFrames = 1
  NoSlot = NoSlot
SPECIFICATION FairSpec
PROPERTIES
  AttachAnswered
  JoinReturns
\* A session whose handles are all closed is over.
CHECK_DEADLOCK FALSE
