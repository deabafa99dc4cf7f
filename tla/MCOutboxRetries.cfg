SPECIFICATION Spec
CONSTANTS
    p1 = p1
    p2 = p2
    w1 = w1
    w2 = w2
    NumEvents = 2
    BatchSize = 2
    MaxRetries = 1
    MaxFaults = 2
    Procs <- MCProcs
    Workers <- MCWorkers
    ProcOf <- MCProcOf
INVARIANT
    RetriesEndInDeadLetter
CHECK_DEADLOCK FALSE
