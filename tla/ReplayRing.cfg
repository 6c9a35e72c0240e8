\* Video and audio, reordered pictures, with and without a byte ceiling.
CONSTANTS
  Others = 1
  Num <- MCNum
  Den <- MCDen
  Window = 3
  Ceilings <- MCCeilings
  NoCeiling = NoCeiling
  Steps = {1, 2}
  Delays = {0, 2}
  MaxPackets = 5
SPECIFICATION Spec
INVARIANTS
  TypeOK
  ClipFaithful
  WindowKept
\* The ring is fed MaxPackets packets.
CHECK_DEADLOCK FALSE
