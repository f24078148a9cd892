CONSTANTS
    Run = {r1, r2}
    Canceller = {c1}
    Caller = {k1}
    NumNodes = 1
    Edges <- NoEdges
    NoCase = NoCase
    BranchCases <- OneCases
    AllowFail = {}
    Retry <- NoRetry
    MaxActive = 1
    Unset = Unset
    MaxRetained = 1
    Archiving = TRUE
    DiskFails = FALSE
    NoRun = NoRun
    MaxDeletes = 1
    MaxRestarts = 0
SPECIFICATION Spec
SYMMETRY RunSymmetry
INVARIANTS LimitHoldsForUncancelled DeletedFlowIsQuiet RetentionBound RetainedIsArchived ActiveRunsAreKnown
CHECK_DEADLOCK FALSE
