SPECIFICATION FairSpec
CONSTANTS
    p1 = p1
    p2 = p2
    w1 = w1
    w2 = w2
    NumEvents = 2
    BatchSize = 2
    MaxRetries = 3
    MaxFaults = 3
    Procs <- MCProcs
    Workers <- MCWorkers
    ProcOf <- MCProcOf
INVARIANTS
    TypeOK
    PublishedWasDelivered
    DuplicatesNeedReset
    ExclusiveClaim
PROPERTIES
    PublishedIsFinal
    EventuallyPublished
    ContractSpec
CHECK_DEADLOCK FALSE
