SPECIFICATION Spec
CONSTANTS
    Flow = {f1, f2}
    d1 = d1
    d2 = d2
    k1 = k1
    k2 = k2
    Def = {d1, d2}
    NoDef = NoDef
    Key = {k1, k2}
    Matches <- MCMatches
    Window <- MCWindows
    Limit <- MCLimit
    Handler = {h1, h2}
    NoKey = NoKey
    MaxTime = 3
    MaxRuns = 2
    MaxCommits = 1
SYMMETRY HandlerSymmetry
CHECK_DEADLOCK FALSE
PROPERTIES DedupHolds NothingSwallowed
