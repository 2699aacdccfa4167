SPECIFICATION FairSpec
CONSTANT Sizes <- TwoSizes
INVARIANTS ReleasesFit CallbacksSafe StopIsComplete ShadowFits
PROPERTIES CallsReturnOrDeadlock
CHECK_DEADLOCK FALSE
