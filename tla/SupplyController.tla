-------------------------- MODULE SupplyController --------------------------
(***************************************************************************)
(* Minting and burning against the auditor's signed attestations           *)
(* (contracts/src/SupplyController.sol).  Anyone may submit an attestation *)
(* he has seen, at any time and as often as he likes.  Attestations is the *)
(* set of those that exist; an attestation carries the signer of its       *)
(* signature, and the signature is valid when that is the named auditor.   *)
(* Mint record keys and burn operation ids are both written key.           *)
(***************************************************************************)
EXTENDS RWAToken

CONSTANTS
  Auditors,          \* the addresses that can be appointed auditor
  InitialAuditor,    \* the auditor of the deployment
  ProfileDigest,     \* the project's asset-profile digest
  Attestations       \* the attestations that may be submitted

Attestation ==
  [op : {"mint", "burn"}, auditor : Auditors, signer : Auditors, profileDigest : STRING,
   vault : Accounts, key : STRING, amount : Nat, nonce : Nat, validUntil : Nat]

ASSUME SupplyAssumption ==
  /\ InitialAuditor \in Auditors
  /\ Attestations \subseteq Attestation

VARIABLES
  auditor,           \* _auditor
  nonceUsed,         \* the nonces used, of mints and of burns
  recordKeyUsed,     \* the record keys that were minted
  operationIdUsed,   \* the burn operations that were executed
  executed           \* history: the attestations executed, for the properties

supplyVars == <<auditor, nonceUsed, recordKeyUsed, operationIdUsed, executed>>

SupplyInit ==
  /\ auditor = InitialAuditor
  /\ nonceUsed = {}
  /\ recordKeyUsed = {}
  /\ operationIdUsed = {}
  /\ executed = {}

\* Mutant of acceptable: the nonce is not looked up.
acceptableAnyNonce(a) ==
  /\ ~paused /\ a.auditor = auditor /\ a.profileDigest = ProfileDigest
  /\ a.vault = VaultAddr /\ now <= a.validUntil /\ a.amount # 0 /\ a.signer = a.auditor

\* The checks mint and burn have in common.
acceptable(a) ==
  /\ ~paused
  /\ a.auditor = auditor
  /\ a.profileDigest = ProfileDigest
  /\ a.vault = VaultAddr
  /\ now <= a.validUntil
  /\ a.nonce \notin nonceUsed
  /\ a.amount # 0
  /\ a.signer = a.auditor

\* Mutant of mint: neither the nonce nor the record key is marked as used.
mintUnmarked(a) ==
  /\ a.op = "mint"
  /\ acceptable(a)
  /\ a.key \notin recordKeyUsed
  /\ controllerMint(VaultAddr, a.amount)
  /\ executed' = executed \cup {a}
  /\ UNCHANGED <<auditor, nonceUsed, recordKeyUsed, operationIdUsed, frozen, paused>>

mint(a) ==
  /\ a.op = "mint"
  /\ acceptable(a)
  /\ a.key \notin recordKeyUsed
  /\ nonceUsed' = nonceUsed \cup {a.nonce}
  /\ recordKeyUsed' = recordKeyUsed \cup {a.key}
  /\ controllerMint(VaultAddr, a.amount)
  /\ executed' = executed \cup {a}
  /\ UNCHANGED <<auditor, operationIdUsed, frozen, paused>>

\* Mutant of burn: the inventory is not compared, and the token burns blindly.
burnBlindly(a) ==
  /\ a.op = "burn"
  /\ acceptable(a)
  /\ a.key \notin operationIdUsed
  /\ nonceUsed' = nonceUsed \cup {a.nonce}
  /\ operationIdUsed' = operationIdUsed \cup {a.key}
  /\ balance' = [balance EXCEPT ![VaultAddr] = @ - a.amount]
  /\ totalSupply' = totalSupply - a.amount
  /\ executed' = executed \cup {a}
  /\ UNCHANGED <<auditor, recordKeyUsed, frozen, paused>>

burn(a) ==
  /\ a.op = "burn"
  /\ acceptable(a)
  /\ a.key \notin operationIdUsed
  /\ a.amount <= balance[VaultAddr]
  /\ nonceUsed' = nonceUsed \cup {a.nonce}
  /\ operationIdUsed' = operationIdUsed \cup {a.key}
  /\ controllerBurn(VaultAddr, a.amount)
  /\ executed' = executed \cup {a}
  /\ UNCHANGED <<auditor, recordKeyUsed, frozen, paused>>

setAuditor(newAuditor) ==
  /\ auditor' = newAuditor
  /\ UNCHANGED <<nonceUsed, recordKeyUsed, operationIdUsed, executed>>
  /\ UNCHANGED tokenVars

SupplyNext ==
  \/ \E a \in Attestations : mint(a)
  \/ \E a \in Attestations : burn(a)
  \/ \E newAuditor \in Auditors : setAuditor(newAuditor)

SupplyTypeOK ==
  /\ auditor \in Auditors
  /\ nonceUsed \subseteq Nat
  /\ recordKeyUsed \subseteq STRING
  /\ operationIdUsed \subseteq STRING
  /\ executed \subseteq Attestations
=============================================================================
