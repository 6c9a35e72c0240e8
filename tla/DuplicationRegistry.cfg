\* Two shared opens on one device, one on another, one exclusive open.
CONSTANTS
  Handle = {h1, h2, h3, x}
  Exclusive = {x}
  Other = {h3}
  None = None
SPECIFICATION RegistryFairSpec
INVARIANTS
  RegistryTypeOK
  SpawnOnlyWhenAlone
  DuplicationAccounted
PROPERTIES
  RegistryReleased
\* Every handle is opened and closed once; then there is nothing left to do.
CHECK_DEADLOCK FALSE
