\* The largest buffer motu424_pcm_hw lets a client ask for: as many bytes as
\* the buffer of the card, whose frames are larger.
SPECIFICATION PositionSpec
CONSTANTS
  Streams <- OnlyPlayback
  UsedOps <- AllOps
  BootPortConf <- CleanBoot
  BufferFrames = 2
  DmaWords = 4
  FrameWords = 4
  Counters <- SomeCounters
  Wrap = 3
  MaxTime = 4
INVARIANT AckFits
