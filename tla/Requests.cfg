CONSTANTS
    n0 = n0  n1 = n1  n2 = n2  n3 = n3
    Nowhere = Nowhere  Here = Here  None = None
    Node = {n0, n1, n2, n3}
    Root = n0
    Parent <- Tree
    Kind = {"file", "set", "delete", "run", "exec"}
    HopLimit = 3
    MaxAttempts = 2
    MaxChanges = 2
SPECIFICATION FairSpec
CHECK_DEADLOCK FALSE
INVARIANTS RoutedAsTheTreeSays AnswersAreTrue DeliverIsSafe
PROPERTY JourneysEnd
