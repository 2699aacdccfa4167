SPECIFICATION Spec
CONSTANTS
  Streams <- Duplex
  UsedOps <- AllOps
  BootPortConf <- CleanBoot
INVARIANT EngineFollowsClient
