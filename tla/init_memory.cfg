SPECIFICATION Spec
CONSTANTS
  Frontends <- JustAlsa
  Addr <- Offsets
  Sequence <- SmallSequence
  Bases <- AlignedBases
  BootWords <- JustStale
  DspWords <- SomeDspWords
  DspValues <- Answers
  PollLimit = 3
  PortIters = 16
  CheckEvery = 8
INVARIANT MemoryKept
