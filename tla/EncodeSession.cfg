\* Three video frames and two audio frames, fragments of two: full ones, cut ones and short
\* ones; the muxer drops its output at nearly every poll, or rarely.
CONSTANTS
  Video = 0
  Audio = 1
  Aac <- AacTracks
  Batch = 2
  DrainAt = 6
  None = None
  Reporting <- Sessions
  Gaps = {1, 2}
  MaxFrames <- FramesOf
  Reads = {3, 40}
  MaxFailures = 1
SPECIFICATION FairSpec
INVARIANTS
  TypeOK
  PlacementsTrue
  LoneTrackConfigured
PROPERTIES
  RefinesChannels
  NothingLost
\* The session and the reading of its file end.
CHECK_DEADLOCK FALSE
