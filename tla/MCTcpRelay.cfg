SPECIFICATION Spec
CONSTANTS
    Cap = 1
INVARIANTS
    CompleteUnlessCut
PROPERTIES
    AppGoneEnds
    HalfCloseReaches
CHECK_DEADLOCK FALSE
