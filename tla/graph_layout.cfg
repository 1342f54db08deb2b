SPECIFICATION Spec
CONSTANTS
    NBoxes = 6
    NColumns = 4
    Height = 3
INVARIANTS TypeOK NoOverlap FamiliesPlaced
CHECK_DEADLOCK FALSE
