SPECIFICATION Spec
CONSTANTS
    Keys <- MCKeys
    Kind <- MCKind
    Out <- MCOut
    Centres = {"task"}
    None = None
    MaxBuilds = 2
    MaxHistory = 2
    BuildsFail = TRUE
INVARIANTS
    SelectionDrawn
    OpenAreDrawn
    KeptBoxIsDrawn
CHECK_DEADLOCK FALSE
