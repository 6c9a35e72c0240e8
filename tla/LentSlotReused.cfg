\* Vulkan with GPU output.
CONSTANTS
  Sessions <- Lending
  CallerHeadroom = 1
  MaxDpbSlots = 3
  LastSlot = 3
  MaxPicOrderCntLsb = 4
  Kinds <- AnyKind
  MaxPictures = 4
  MaxFailures = 0
  None = None
SPECIFICATION Spec
INVARIANT LoanKept
\* The stream has MaxPictures pictures; a flushed session stops.
CHECK_DEADLOCK FALSE
