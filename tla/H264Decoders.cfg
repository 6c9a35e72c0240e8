\* VA-API and D3D12 with both outputs, Vulkan with CPU output; VA-API and Vulkan also for a
\* stream of as many references as the DPB may have slots. Five pictures make frame_num and
\* the picture order count wrap; one spare slot can be lent.
CONSTANTS
  Sessions <- Several
  CallerHeadroom = 1
  MaxDpbSlots = 2
  LastSlot = 3
  MaxPicOrderCntLsb = 4
  Kinds <- AnyKind
  MaxPictures = 5
  MaxFailures = 1
  None = None
SPECIFICATION FairSpec
INVARIANTS
  TypeOK
  LoanKept
  IntactExact
  WindowHeld
PROPERTIES
  RefinesDelivery
  BackpressureClears
\* The stream has MaxPictures pictures; a flushed session stops.
CHECK_DEADLOCK FALSE
