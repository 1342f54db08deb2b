SPECIFICATION FairSpec
CONSTANTS
    t1 = t1
    Tags = {t1, t2}
    NoTag = NoTag
    Roots = {}
    NoRoot = NoRoot
    StepTag <- NoSteps
    MaxToken = 4
    MaxDepth = 3
PROPERTIES LatestRequestWins WaitEnds PendingServed
CHECK_DEADLOCK FALSE
