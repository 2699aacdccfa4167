SPECIFICATION Spec
CONSTANTS
  Streams <- Duplex
  UsedOps <- AllOps
  BootPortConf <- CrashBoot
INVARIANTS TypeOK CtxAgreesWithCard NoPeriodLost
