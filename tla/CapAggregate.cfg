CONSTANTS
    p = p  q = q  r = r
    None = None
    MaxHubs = 3
    Cap = {p, q, r}
    Provider <- Offers
    Workload <- OnlyChain
SPECIFICATION Spec
INVARIANT AggregateIsHeld
