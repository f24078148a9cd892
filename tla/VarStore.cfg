CONSTANTS
    R = R  C1 = C1  C2 = C2  O = O  S1 = S1  S2 = S2  None = None
    Hub = {R, C1, C2}
    Client = {O, S1, S2}
    Owner = O
    Parent <- Tree
    HubOf <- Homes
    Route <- Routes
    Workload <- All
    MaxRequests = 4
SPECIFICATION Spec
CHECK_DEADLOCK FALSE
INVARIANT    AnswersMatch
 
