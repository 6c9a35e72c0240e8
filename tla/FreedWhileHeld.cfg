CONSTANTS
  Capture = {c1, c2}
  Foreign = {}
  RingDepth = 3
  Transient = {t1}
  MaxFrames = 3
  NoSlot = NoSlot
SPECIFICATION Spec
INVARIANT HeldTextureAlive
CHECK_DEADLOCK FALSE
