CONSTANT Length = 4
SPECIFICATION Spec
INVARIANTS TypeOK ReturnsTheSegment
PROPERTY Returns
CHECK_DEADLOCK FALSE
