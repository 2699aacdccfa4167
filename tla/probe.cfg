CONSTANT MaxProbes = 2
SPECIFICATION Spec
INVARIANTS TypeOK HandlerSafe LeavesNothing
PROPERTIES StopsBeforeFree UnmaskedIsHandled RemoveEnds
