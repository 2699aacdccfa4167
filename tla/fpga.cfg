SPECIFICATION Spec
CONSTANT Images <- SmallImages
INVARIANTS ShiftedIsPrefix LoadedIsComplete
PROPERTIES DataStableAtEdges ImplementsRegister
