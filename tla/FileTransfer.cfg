CONSTANTS
    v1 = v1  v2 = v2  None = None
    Zero = "zero"
    Version = {v1, v2}
    Block = {"zero", "a1", "a2", "a3", "b2"}
    Content <- Contents
    Workload <- Workloads
    MaxTransfers = 3
    MaxSize = 3
    MaxConcurrent = 2
    MaxPending = 1
SPECIFICATION Spec
CHECK_DEADLOCK FALSE
 
PROPERTY ImplementsFileCopy
