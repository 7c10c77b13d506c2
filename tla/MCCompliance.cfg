SPECIFICATION Spec
CONSTANTS
  alice = alice
  bob = bob
  none = none
  r1 = r1
  r2 = r2
  run = run
  Wallets = {alice, bob}
  Replicas = {r1}
  Setups <- MCSetups
  Runs = {run}
  MaxActive = 1
  Excluded = {}
  MonitoringBlock = TRUE
  NoWallet = none
INVARIANTS InOrder
PROPERTY NewestDecisionWins
CHECK_DEADLOCK FALSE
