\* Redemption: two requests, one investor, repricing, pause, freeze, fees, and a
\* distribution that is followed until the first mint.
CONSTANTS
  zero = zero
  vault = vault
  escrow = escrow
  distributor = distributor
  alice = alice
  bob = bob
  ops = ops
  s1 = s1
  s2 = s2
  auditor1 = auditor1
  auditor2 = auditor2
  Accounts <- MCAccounts2
  Contracts <- MCContracts
  ZeroAddress = zero
  VaultAddr = vault
  EscrowAddr = escrow
  StatusUpdates <- RedemptionUpdates
  MaxBatch = 2
  Amounts = {1, 2}
  Freezes <- RedemptionFreezes
  Payments <- RedemptionPayments
  InitialQuote <- RedemptionQuote
  QuoteFees = {0, 1}
  Auditors = {auditor1}
  InitialAuditor = auditor1
  ProfileDigest = "profile"
  Attestations <- MintOf2
  Strategies = {s1}
  PriceUnit = 2
  Prices = {2, 3}
  InitialTreasury = ops
  Treasuries = {ops}
  Minimums = {0}
  QuoteLimits = {1}
  RedemptionTimeout = 1
  Treasurer = ops
  MaxRequests = 2
  DistributorAddr = distributor
  IncomeManager = ops
  Roots <- RedemptionRoots
  MinClaimWindow = 1
  MaxDeadline = 2
  MaxDistributions = 1
  MaxTime = 2
SPECIFICATION Spec
CONSTRAINT IncomeApart
INVARIANTS EscrowBacked ExitsOpen
PROPERTIES KeepsPromise PauseHolds
