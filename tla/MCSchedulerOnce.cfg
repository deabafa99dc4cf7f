SPECIFICATION Spec
CONSTANTS
    once = once
    every = every
    w1 = w1
    w2 = w2
    Jobs <- MCJobs
    Workers <- MCWorkers
    Recurring <- MCRecurring
    MaxRuns <- MCMaxRuns
    MaxRetries <- MCMaxRetries
    BatchSize = 2
    Horizon = 3
    MaxFaults = 1
INVARIANT
    FiresExactlyOnce
CHECK_DEADLOCK FALSE
