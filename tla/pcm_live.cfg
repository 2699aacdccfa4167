SPECIFICATION FairSpec
CONSTANTS
  Streams <- Duplex
  UsedOps <- StartAndStop
  BootPortConf <- ResetBoot
PROPERTIES CallsReturn PeriodsAreTold
