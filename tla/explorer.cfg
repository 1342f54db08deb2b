SPECIFICATION Spec
CONSTANTS
    t1 = t1
    Tags = {t1}
    NoTag = NoTag
    Roots = {r1}
    NoRoot = NoRoot
    StepTag <- TwoSteps
    MaxToken = 4
    MaxDepth = 3
INVARIANTS TypeOK ResultsOwned DocsServed
PROPERTIES NeverEmptied
CHECK_DEADLOCK FALSE
