SPECIFICATION PartSpec
CONSTANTS
    Replicas = {r1, r2}
    Alone = r1
    Logs = {t, u}
    OnlyLog = u
    Undecodable = {u}
    Empty = Empty
    StartBlock = 1
    MaxLogRange = 2
    MaxHistory = 2
    MaxAutoReorgDepth = 1
    MaxRangeRetries = 2
    MaxHeight = 4
    MaxReorgs = 2
    MaxInterventions = 1
    MaxAborts = 1
    Quiet = TRUE
 
PROPERTIES  Synced
CHECK_DEADLOCK FALSE
