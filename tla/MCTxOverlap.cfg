SPECIFICATION Spec
CONSTANTS
  Keys = {pay, status}
  RepeatableKeys = {status}
  RevertingKeys = {}
  NoKey = NoKey
  Servers = {s1}
  NoServer = NoServer
  External = External
  MaxReplacements = 1
  MaxLeases = 3
  MaxSigned = 2
  MaxRecords = 2
  MaxCrashes = 1
  MaxReorgs = 0
  MaxEvictions = 0
  MaxExternal = 0
  Overlap = TRUE
  Stalls = FALSE
INVARIANTS DoneOnce
