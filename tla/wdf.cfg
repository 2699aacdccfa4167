CONSTANTS
  PortKinds <- EitherKind
  MaxPrepares = 2
SPECIFICATION TestSpec
INVARIANTS MappedWhileUsed ReleaseComplete SuiteTellsTruth
PROPERTY StopsBeforeFree
