CONSTANTS
    Run = {r1}
    Canceller = {c1}
    Caller = {}
    NumNodes = 5
    Edges <- Diamond
    NoCase = NoCase
    BranchCases <- DiamondCases
    AllowFail = {2}
    Retry <- DiamondRetry
    MaxActive = Unset
    Unset = Unset
    MaxRetained = 1
    Archiving = TRUE
    DiskFails = TRUE
    NoRun = NoRun
    MaxDeletes = 1
    MaxRestarts = 1
SPECIFICATION FairSpec

INVARIANTS TypeOK ExecutorEndsTerminal SucceededRunComplete CancelReasonFaithful
PROPERTIES SettledStays CancelledNeverSucceeds RunsSettle DeleteReleasesLock
CHECK_DEADLOCK FALSE
