CONSTANTS
    K = K  P = P  C = C  Q = Q  U = U  p = p  k = k  c = c  e = e  h = h  v = v  None = None
    Node = {K, P, C}
    Parent <- Tree
    Route <- Routes
    Source = {p, k}
    Endpoint = {c, e, h, v}
    OwnerOf <- Owners
    KindOf <- Kinds
    Requester = {Q, U, P, C}
    At <- Homes
    Allowed = {Q, P, C}
    Connect <- AllConnects
    Workload <- Workloads
    Closers = {Q, C}
    Withdrawn = {p, k, e}
    Delivery = {d1, d2}
    Task = {t1, t2, t3}
    MaxCloses = 2
    MaxWithdraws = 1
SPECIFICATION Spec
CHECK_DEADLOCK FALSE
SYMMETRY Symmetry
INVARIANT NoHalfOpen CatalogReaches
PROPERTY OkMeansActive
