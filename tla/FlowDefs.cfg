SPECIFICATION Spec
CONSTANTS
    Writer = {w1, w2}
    Binder = binder
    Def = {d1, d2, d3}
    Timer = {d1, d2}
    NoDef = NoDef
    Sched = {s1, s2, s3}
    NoSched = NoSched
    Alone = {d3}
    MaxRequests = 2
    MaxFaults = 2
    MaxCrashes = 1
CHECK_DEADLOCK FALSE
INVARIANTS TypeOK MemoryMatchesDisk SchedulerExact SchedulerReachable
PROPERTIES CrashKeepsDefinition SchedulersDrain
