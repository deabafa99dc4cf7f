SPECIFICATION Spec
CONSTANTS
    NumMessages = 2
    Logs <- EventLogs
    Confs <- DlqConfs
    RetryMaxRetries = 2
    MaxRestarts = 1
    MaxFaults = 0
INVARIANTS
    DeliveredAtLeastOnce
CHECK_DEADLOCK FALSE
