SPECIFICATION Spec
CONSTANTS
    Worker = {w1}
    Conn = {c1, c2}
    NoConn = NoConn
    Topic = {t1, t2}
    SendFails = FALSE
    MaxParents = 2
    MaxRequests = 4
CHECK_DEADLOCK FALSE
INVARIANTS IndexesAgree TellsParentExactly
PROPERTY ReconnectRepairs
