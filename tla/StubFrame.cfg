SPECIFICATION Spec
CONSTANT Vectors <- AllVectors
INVARIANTS HandlerSees
PROPERTY Transparent
