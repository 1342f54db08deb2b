SPECIFICATION Spec
CONSTANTS
    WorkloadSet = {"delay"}
    Lasting = {"delay"}
    LineCount = 1
    Held = {"fork"}
INVARIANTS
    StatusIsTrue
    HelperIsGone
    RowsOrError
PROPERTIES
    ReadWhileHeld
    ChildrenEnd
    PopupAnswers
CHECK_DEADLOCK FALSE
