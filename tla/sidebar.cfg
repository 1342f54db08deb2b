SPECIFICATION Spec
CONSTANTS
    LastRow = 4
    MaxSteps = 3
    Nodes <- MCNodes
    Kind <- MCKind
    View <- MCView
    NoNode = NoNode
    Target <- MCTarget
    DwellTravel = 2
    DwellInPlace = 1
    MaxStack = 3
    MaxEvents = 2
INVARIANTS
    
    PreviewOfCursor
PROPERTY
    AutoFinishes
CHECK_DEADLOCK FALSE
