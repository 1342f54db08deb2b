SPECIFICATION Spec
CONSTANTS
    Procs = {p1, p2}
    MaxRuns = 3
    Machines <- MCMachines
    Prefixes = 2
SYMMETRY ProcSymmetry
INVARIANTS ServedLater FetchNotRefused NothingRefused
PROPERTIES GoodIsKept
CHECK_DEADLOCK FALSE
