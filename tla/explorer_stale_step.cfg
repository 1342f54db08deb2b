SPECIFICATION Spec
CONSTANTS
    t1 = t1
    Tags = {t1}
    NoTag = NoTag
    Roots = {}
    NoRoot = NoRoot
    StepTag <- TwoSteps
    MaxToken = 4
    MaxDepth = 3
PROPERTY OnlyOwnAnswer
CHECK_DEADLOCK FALSE
