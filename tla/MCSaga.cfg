SPECIFICATION MCSpec
CONSTANTS
    Runs <- MCRuns
    Ids <- MCIds
    NumSteps = 4
    Compensable <- MCCompensable
    MaxFaults = 1
INVARIANTS
    TypeOK
    NoSilentLeftovers
    ResumePointerIsSafe
    ToldIsRecorded
    OneSagaPerAnchor
PROPERTIES
    ContractSpec
CHECK_DEADLOCK FALSE
