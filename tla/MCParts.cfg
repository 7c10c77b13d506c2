\* Token: transfers, holds, seizures and decisions.  Supply: attestations of two
\* auditors, replayed and in any order.  Income: two distributions, extension,
\* reclaim, a changing treasury, fees.
CONSTANTS
  zero = zero
  vault = vault
  escrow = escrow
  distributor = distributor
  alice = alice
  bob = bob
  ops = ops
  s1 = s1
  s2 = s2
  auditor1 = auditor1
  auditor2 = auditor2
  Accounts <- MCAccounts3
  Contracts <- MCContracts
  ZeroAddress = zero
  VaultAddr = vault
  EscrowAddr = escrow
  StatusUpdates <- PartUpdates
  MaxBatch = 1
  Amounts = {1, 2}
  Freezes <- TokenFreezes
  Payments <- IncomePayments
  InitialQuote <- PartQuote
  QuoteFees = {0, 1}
  Auditors = {auditor1, auditor2}
  InitialAuditor = auditor1
  ProfileDigest = "profile"
  Attestations <- ManyAttestations
  Strategies = {s1}
  PriceUnit = 1
  Prices = {1}
  InitialTreasury = ops
  Treasuries = {ops, distributor}
  Minimums = {0}
  QuoteLimits = {1, 2}
  RedemptionTimeout = 1
  Treasurer = ops
  MaxRequests = 0
  DistributorAddr = distributor
  IncomeManager = ops
  Roots <- IncomeRoots
  MinClaimWindow = 1
  MaxDeadline = 4
  MaxDistributions = 2
  MaxTime = 4
SPECIFICATION PartSpec
INVARIANTS TypeOK SupplyAttested AttestedOnce SupplyConserved IncomeBacked EntitlementKept
PROPERTIES  OnlyAllowedReceive
