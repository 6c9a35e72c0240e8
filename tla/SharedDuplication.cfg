\* Two handles on a ring of two slots: every slot can be held at once, so the
\* transient fallback runs; five frames let it run three times in a row.
CONSTANTS
  Capture = {c1, c2}
  Foreign = {}
  RingDepth = 2
  Transient = {t1, t2, t3}
  MaxFrames = 5
  NoSlot = NoSlot
SPECIFICATION Spec
SYMMETRY Symmetry
INVARIANTS
  TypeOK
  TexturesAlive
  DestinationUnshared
  TransientBound
PROPERTY RefinesFanout
\* A session whose handles are all closed is over.
CHECK_DEADLOCK FALSE
