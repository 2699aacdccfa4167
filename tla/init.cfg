SPECIFICATION Spec
CONSTANTS
  Frontends <- BothFrontends
  Addr <- Offsets
  Sequence <- SmallSequence
  Bases <- AlignedBases
  BootWords <- StaleOrWindows
  DspWords <- SomeDspWords
  DspValues <- Answers
  PollLimit = 3
  PortIters = 16
  CheckEvery = 8
INVARIANTS TypeOK ImageAtStart NoForeignAddress
PROPERTIES RefusedNeverStarts Terminates
