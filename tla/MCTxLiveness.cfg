SPECIFICATION FairSpec
CONSTANTS
  Keys = {pay, status}
  RepeatableKeys = {status}
  RevertingKeys = {pay}
  NoKey = NoKey
  Servers = {s1}
  NoServer = NoServer
  External = External
  MaxReplacements = 1
  MaxLeases = 2
  MaxSigned = 2
  MaxRecords = 2
  MaxCrashes = 1
  MaxReorgs = 0
  MaxEvictions = 0
  MaxExternal = 0
  Overlap = TRUE
  Stalls = TRUE
PROPERTIES UnknownResolved LinksRepaired
