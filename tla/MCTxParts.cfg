SPECIFICATION PartSpec
CONSTANTS
  Keys = {pay, status}
  RepeatableKeys = {status}
  RevertingKeys = {}
  NoKey = NoKey
  Servers = {s1, s2}
  NoServer = NoServer
  External = External
  MaxReplacements = 1
  MaxLeases = 3
  MaxSigned = 3
  MaxRecords = 3
  MaxCrashes = 1
  MaxReorgs = 1
  MaxEvictions = 1
  MaxExternal = 1
  Overlap = FALSE
  Stalls = FALSE
SYMMETRY Symmetry
INVARIANTS NonceNotShared DoneOnce Tracked
