SPECIFICATION Spec
CONSTANTS
    NumMessages = 2
    Logs <- EventLogs
    Confs <- DlqConfs
    RetryMaxRetries = 2
    MaxRestarts = 0
    MaxFaults = 0
INVARIANTS
    FailuresAreDeadLettered
CHECK_DEADLOCK FALSE
