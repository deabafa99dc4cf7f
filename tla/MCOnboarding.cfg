SPECIFICATION Spec
CONSTANTS
    Signups = {s1, s2}
    Workers = {w1, w2}
    NoOne = NoOne
    TestModes <- MCTestModes
    MaxCopies = 2
    MaxMessages = 3
    MaxFaults = 1
INVARIANTS
    TypeOK
    SignupIsWhole
    OneRootAccount
PROPERTIES
    PublishedGetsAccount
CHECK_DEADLOCK FALSE
