-------------------------- MODULE RedemptionEscrow --------------------------
(***************************************************************************)
(* Redemption of RWA tokens for quote tokens                               *)
(* (contracts/src/RedemptionEscrow.sol).  A request locks the investor's   *)
(* tokens and fixes the price; the treasurer funds it, the manager rejects *)
(* it, or the beneficiary takes it back once the timeout has passed.       *)
(* Anyone may complete a funded one.                                       *)
(***************************************************************************)
EXTENDS Vault

CONSTANTS
  RedemptionTimeout, \* redemptionTimeout
  Treasurer,         \* the TREASURER_ROLE holder, who pays for the funding
  MaxRequests        \* bound on the number of requests

ASSUME EscrowAssumption ==
  /\ RedemptionTimeout \in Nat
  /\ Treasurer \in Holders
  /\ MaxRequests \in Nat

VARIABLES
  requests,          \* _requests
  nextId             \* the id of the next request

escrowVars == <<requests, nextId>>

RequestIds == 0..(MaxRequests - 1)

RedemptionStatus == {"None", "Pending", "Funded", "Completed", "Rejected", "Cancelled"}

RedemptionRequest ==
  [beneficiary : Accounts \cup {ZeroAddress}, rwaAmount : Nat, quoteAmount : Nat,
   createdAt : Nat, status : RedemptionStatus]

\* What the mapping holds for an id that was never used.
NoRequest ==
  [beneficiary |-> ZeroAddress, rwaAmount |-> 0, quoteAmount |-> 0,
   createdAt |-> 0, status |-> "None"]

EscrowInit ==
  /\ requests = [id \in RequestIds |-> NoRequest]
  /\ nextId = 0

requestRedemption(caller, rwaAmount, minQuoteOut, deadline) ==
  LET quoteAmount == quoteRedemption(strategy, rwaAmount)
  IN  /\ nextId < MaxRequests
      /\ ~paused
      /\ isAllowed(caller)
      /\ rwaAmount # 0
      /\ deadline >= now
      /\ quoteAmount # 0
      /\ quoteAmount >= minQuoteOut
      /\ update(caller, EscrowAddr, rwaAmount)
      /\ balance'[EscrowAddr] - balance[EscrowAddr] = rwaAmount
      /\ nextId' = nextId + 1
      /\ requests' = [requests EXCEPT ![nextId] =
                        [beneficiary |-> caller, rwaAmount |-> rwaAmount,
                         quoteAmount |-> quoteAmount, createdAt |-> now,
                         status |-> "Pending"]]
      /\ UNCHANGED <<totalSupply, frozen, paused, quote>>

fundRedemption(id) ==
  /\ requests[id].status = "Pending"
  /\ ~paused
  /\ isAllowed(requests[id].beneficiary)
  /\ checkedQuoteTransfer(Treasurer, EscrowAddr, requests[id].quoteAmount)
  /\ requests' = [requests EXCEPT ![id].status = "Funded"]
  /\ UNCHANGED nextId
  /\ UNCHANGED tokenVars

\* The RWA goes back through the ordinary transfer path.
rejectable(id) ==
  /\ requests[id].status = "Pending"
  /\ ~paused
  /\ isAllowed(requests[id].beneficiary)
  /\ updatable(EscrowAddr, requests[id].beneficiary, requests[id].rwaAmount)

rejectRedemption(id) ==
  /\ rejectable(id)
  /\ requests' = [requests EXCEPT ![id].status = "Rejected"]
  /\ update(EscrowAddr, requests[id].beneficiary, requests[id].rwaAmount)
  /\ UNCHANGED <<nextId, totalSupply, frozen, paused, quote>>

\* Mutant of cancellable: the timeout is counted from the wrong end.
cancellableEarly(id, caller) ==
  /\ requests[id].status = "Pending"
  /\ caller = requests[id].beneficiary
  /\ now <= requests[id].createdAt + RedemptionTimeout
  /\ isAllowed(requests[id].beneficiary)
  /\ returnable(requests[id].beneficiary, requests[id].rwaAmount)

\* The one exit that is open while the project is paused.
cancellable(id, caller) ==
  /\ requests[id].status = "Pending"
  /\ caller = requests[id].beneficiary
  /\ now >= requests[id].createdAt + RedemptionTimeout
  /\ isAllowed(requests[id].beneficiary)
  /\ returnable(requests[id].beneficiary, requests[id].rwaAmount)

cancelRedemption(id, caller) ==
  /\ cancellable(id, caller)
  /\ requests' = [requests EXCEPT ![id].status = "Cancelled"]
  /\ returnEscrowedRWA(requests[id].beneficiary, requests[id].rwaAmount)
  /\ UNCHANGED <<nextId, totalSupply, frozen, paused, quote>>

\* Mutant of claimRedemption: the pause is forgotten.
claimWhilePaused(id) ==
  /\ requests[id].status = "Funded"
  /\ requests' = [requests EXCEPT ![id].status = "Completed"]
  /\ returnEscrowedRWA(VaultAddr, requests[id].rwaAmount)
  /\ checkedQuoteTransfer(EscrowAddr, requests[id].beneficiary, requests[id].quoteAmount)
  /\ UNCHANGED <<nextId, totalSupply, frozen, paused>>

\* Eligibility of the beneficiary is not looked at again.
claimRedemption(id) ==
  /\ requests[id].status = "Funded"
  /\ ~paused
  /\ requests' = [requests EXCEPT ![id].status = "Completed"]
  /\ returnEscrowedRWA(VaultAddr, requests[id].rwaAmount)
  /\ checkedQuoteTransfer(EscrowAddr, requests[id].beneficiary, requests[id].quoteAmount)
  /\ UNCHANGED <<nextId, totalSupply, frozen, paused>>

EscrowNext ==
  \/ \E caller \in Holders, amount \in Amounts, limit \in QuoteLimits,
        deadline \in {now - 1, now} :
          requestRedemption(caller, amount, limit, deadline)
  \/ \E id \in RequestIds : fundRedemption(id)
  \/ \E id \in RequestIds : rejectRedemption(id)
  \/ \E id \in RequestIds, caller \in Holders : cancelRedemption(id, caller)
  \/ \E id \in RequestIds : claimRedemption(id)

EscrowTypeOK ==
  /\ requests \in [RequestIds -> RedemptionRequest]
  /\ nextId \in 0..MaxRequests
=============================================================================
