SPECIFICATION FairSpec
CONSTANTS
    once = once
    every = every
    w1 = w1
    w2 = w2
    Jobs <- MCJobs
    Workers <- MCWorkers
    Recurring <- MCRecurring
    MaxRuns <- MCMaxRuns
    MaxRetries <- MCMaxRetries
    BatchSize = 2
    Horizon = 3
    MaxFaults = 2
INVARIANTS
    TypeOK
    NoOccurrenceSkipped
    RefiresArePaid
    ExclusiveClaim
    RetryBudget
    CapHolds
PROPERTIES
    TerminalAtRest
    EveryJobEnds
CHECK_DEADLOCK FALSE
