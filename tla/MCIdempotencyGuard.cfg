SPECIFICATION Spec
CONSTANTS
    k1 = k1
    k2 = k2
    c1 = c1
    c2 = c2
    Keys <- MCKeys
    Consumers <- MCConsumers
    MaxDeliveries = 2
PROPERTY
    CleanExitIsRecorded
CHECK_DEADLOCK FALSE
