SPECIFICATION PositionSpec
CONSTANTS
  Streams <- OnlyPlayback
  UsedOps <- AllOps
  BootPortConf <- CleanBoot
  BufferFrames = 2
  DmaWords = 8
  FrameWords = 4
  Counters <- SomeCounters
  Wrap = 3
  MaxTime = 4
INVARIANTS EngineFollowsClient IdleIsSilent PauseWritesFresh
INVARIANTS PositionInBuffer PositionCountsPlayed AckFits
PROPERTIES ImplementsEngine
