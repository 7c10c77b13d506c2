SPECIFICATION Spec
CONSTANTS
    Process = {p1, p2}
    Digests = {"d1"}
    TestMode = {FALSE, TRUE}
    Passwords <- MCPasswords
    Keystores <- MCKeystores
    auditLockTimeout = 0
    auditLockStaleAfter = 1
    throttleFreeAttempts = 0
    throttleBase = 1
    throttleMax = 2
    throttleMaxShift = 20
    MaxAttempts = 2
    MaxFaults = 1
INVARIANTS
    ChainKept
    SignaturesRecorded
    
PROPERTIES
    CommandsEnd
CHECK_DEADLOCK FALSE
