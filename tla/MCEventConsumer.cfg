SPECIFICATION Spec
CONSTANTS
    NumMessages = 3
    Logs <- MCLogs
    Confs <- MCConfs
    RetryMaxRetries = 2
    MaxRestarts = 1
    MaxFaults = 1
INVARIANTS
    TypeOK
    LossIsBounded
    CallsAreBounded
PROPERTIES
    ExhaustedRetriesAreDeadLettered
    EveryMessageIsSettled
CHECK_DEADLOCK FALSE
