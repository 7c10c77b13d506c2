SPECIFICATION Spec
CONSTANTS
    q1 = q1
    q2 = q2
    r1 = r1
    b1 = b1
    b2 = b2
    k1 = k1
    k2 = k2
    c1 = c1
    c2 = c2
    Callers = {q1, q2}
    RecordIds = {r1}
    BurnIds = {b1, b2}
    PubIds = {r1, b1, b2}
    CIDs = {c1, c2, b1, b2}
    Backups = {k1, k2}
    threshold = 2
    Scopes <- MCScopes
    recordAmount = 2
    BurnAmounts = {2}
    attestationValidUntilWindow = 1
    Horizon = 1
INVARIANTS
    BurnsWithinRecord
    PublishedMatches
PROPERTIES
    
    LossNoticed
CHECK_DEADLOCK FALSE
