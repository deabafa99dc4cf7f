SPECIFICATION Spec
CONSTANTS
    Procs = {1, 2}
    Calls = {1, 2, 3, 4}
    Deployments <- MCDeployments
    SuccessThreshold = 2
    HalfOpenMaxCalls = 1
    Recovery = 1
    MaxConcurrent = 2
    MaxTime = 2
    MaxFaults = 1
INVARIANTS
    TypeOK
    ProbesAreLimited
    HalfOpenIsNotWedged
    SlotsAreUsed
PROPERTIES
    TripIsHeeded
CHECK_DEADLOCK FALSE
