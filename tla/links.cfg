SPECIFICATION LinksSpec
CONSTANTS
    Nodes = {n1, n2}
    MaxRows = 2
INVARIANTS OfferedOpens WalkIsHonest
PROPERTIES WalkEnds
