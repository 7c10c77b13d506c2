------------------------ MODULE ComplianceRegistry ------------------------
(***************************************************************************)
(* The on-chain wallet allowlist (contracts/src/ComplianceRegistry.sol).   *)
(*                                                                         *)
(* The module describes the registry after RWAFactory has wired it: the    *)
(* system addresses (Vault and RedemptionEscrow) are set once and for all. *)
(* The block timestamp, which every contract reads, is kept here because   *)
(* the registry is the contract all the others call.                       *)
(*                                                                         *)
(* A call that the contract reverts changes nothing, so it is an action    *)
(* that is not enabled.                                                    *)
(***************************************************************************)
EXTENDS Naturals, Sequences

CONSTANTS
  Accounts,       \* every address that can hold a balance
  ZeroAddress,    \* address(0), which is not an account
  VaultAddr,      \* the address of the project's Vault
  EscrowAddr,     \* the address of the project's RedemptionEscrow
  StatusUpdates,  \* the decisions the compliance operator may send
  MaxBatch        \* bound on the length of a setStatuses batch

VARIABLES
  records,        \* _records: the status and expiry of each account
  now             \* block.timestamp; it starts at 1 since 0 means "no expiry"

Statuses == {"Unknown", "Allowed", "Blocked"}

ComplianceRecord == [status : Statuses, validUntil : Nat]

StatusUpdate == [account : Accounts, status : Statuses, validUntil : Nat]

ASSUME RegistryAssumption ==
  /\ {VaultAddr, EscrowAddr} \subseteq Accounts
  /\ VaultAddr # EscrowAddr
  /\ ZeroAddress \notin Accounts
  /\ StatusUpdates \subseteq StatusUpdate
  /\ MaxBatch \in Nat

SystemAddresses == {VaultAddr, EscrowAddr}

\* setSystemAddresses and the two setStatus calls of RWAFactory.deploy.
RegistryInit ==
  /\ records = [a \in Accounts |->
                  [status |-> IF a \in SystemAddresses THEN "Allowed" ELSE "Unknown",
                   validUntil |-> 0]]
  /\ now = 1

isAllowed(account) ==
  /\ records[account].status = "Allowed"
  /\ records[account].validUntil = 0 \/ records[account].validUntil >= now

\* The requirement of _setStatus: system addresses are Allowed with no expiry.
settable(u) ==
  u.account \in SystemAddresses => u.status = "Allowed" /\ u.validUntil = 0

recordOf(u) == [status |-> u.status, validUntil |-> u.validUntil]

setStatus(u) ==
  /\ settable(u)
  /\ records' = [records EXCEPT ![u.account] = recordOf(u)]
  /\ UNCHANGED now

\* The positions of a batch that concern the account; a later one overrides.
positionsOf(batch, account) == {i \in DOMAIN batch : batch[i].account = account}

lastPosition(batch, account) ==
  CHOOSE i \in positionsOf(batch, account) :
    \A j \in positionsOf(batch, account) : j <= i

\* The whole batch is refused when one of its entries is.
setStatuses(batch) ==
  /\ \A i \in DOMAIN batch : settable(batch[i])
  /\ records' = [a \in Accounts |->
                   IF positionsOf(batch, a) = {}
                   THEN records[a]
                   ELSE recordOf(batch[lastPosition(batch, a)])]
  /\ UNCHANGED now

RegistryNext ==
  \/ \E u \in StatusUpdates : setStatus(u)
  \/ \E n \in 2..MaxBatch : \E batch \in [1..n -> StatusUpdates] : setStatuses(batch)

RegistryTypeOK ==
  /\ records \in [Accounts -> ComplianceRecord]
  /\ now \in Nat \ {0}
=============================================================================
