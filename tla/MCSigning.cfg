CONSTANTS
    MaxObjectDepth = 6
    MaxStringLength = 3000
    MaxArrayLength = 20
    MaxObjectKeys = 20
    SafeInteger = 100
    Pointers <- MCPointers
    maxRefDepth = 3
    maxSchemaDepth = 8
    maxSchemaNodes = 20
    Numerals <- MCNumerals
    MaxPackageFiles = 5
    MaxSingleFileSize = 2
    MaxExpandedPackageSize = 8
    MaxFileCount = 8
    MaxSingleFileUncompressed = 4
    MaxTotalUncompressed = 16
    UnsafeNames <- MCUnsafeNames
    BadPaths <- MCBadPaths
    Profiles <- MCProfiles
    Requests <- MCRequests
    BurnRequests <- MCBurnRequests
    PolicyChoices <- MCPolicyChoices
    Altered <- MCAltered
    Signers = {"auditor", "o1", "o2"}
    attestationValidUntilWindow = 1
    Horizon = 2
    MaxReissues = 1
    MaxSignatures = 2
SPECIFICATION Spec
INVARIANTS  ThresholdKept
 
CHECK_DEADLOCK FALSE
