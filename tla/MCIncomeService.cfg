SPECIFICATION Spec
CONSTANTS
  Holders = {"h1", "h2", "h3", "h4", "h5"}
  MaxInt64 = 3
  Never = 5
  Finality = 1
  Models = {"redemptions", "purchases", "income"}
  Callers = {c1, c2}
  Totals = {7}
  Deadlines = {1, 5}
  MinClaimWindow = 1
  Scopes <- MCScopes
  MaxLedger = 5
  MaxRows = 6
  MaxIncome = 7
INVARIANTS SnapshotsPay  
PROPERTIES EventuallySynced
CHECK_DEADLOCK FALSE
