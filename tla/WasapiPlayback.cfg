\* A frame can be larger than the room left, and the queue fuller than the buffer; three
\* samples let a frame be written before, during and after a flush.
CONSTANTS
  QueueCap = 2
  BufferSize = 3
  Lead = 1
  FrameSizes <- Sizes
  MaxSamples = 3
  MaxUnread = 2
SPECIFICATION FairSpec
INVARIANTS
  TypeOK
  PlayedTrue
  LeadBounded
PROPERTIES
  RefinesPlayout
  AllHeard
\* A closed session takes no more calls.
CHECK_DEADLOCK FALSE
