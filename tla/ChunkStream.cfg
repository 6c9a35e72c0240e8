\* Clock of 8, of which 5 and up need the extended field; messages of no, one,
\* two and three chunks.
CONSTANTS
  Calls <- MCCalls
  Wrap = 8
  Escape = 5
  MaxLen = 5
  Default = 2
  MuxSizes = {2, 3}
  PeerSizes = {2, 3}
  SizeWrap = 4
  AnnounceLen = 2
  Backlog = 1
SPECIFICATION FairSpec
INVARIANTS
  TypeOK
  InStep
PROPERTIES
  RefinesChannels
  AllReturned
