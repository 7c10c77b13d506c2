------------------------------ MODULE Project ------------------------------
(***************************************************************************)
(* One deployed project: the contracts RWAFactory.deploy creates and wires *)
(* (contracts/src/RWAFactory.sol), sharing one chain.  A transaction is    *)
(* atomic; the transactions of different users, role holders and the       *)
(* passing of time interleave in any order.                                *)
(***************************************************************************)
EXTENDS Integers, FiniteSets, SupplyController, RedemptionEscrow, IncomeDistributor

CONSTANT MaxTime     \* bound on the block timestamp

ASSUME ProjectAssumption ==
  /\ MaxTime \in Nat
  /\ IsFiniteSet(Accounts)
  /\ IsFiniteSet(Attestations)
  /\ \A root \in Roots : IsFiniteSet(root)

registryVars == <<records, now>>

vars == <<records, now, balance, totalSupply, frozen, paused, quote,
          auditor, nonceUsed, recordKeyUsed, operationIdUsed, executed,
          purchasePrice, redemptionPrice, strategy, treasury, minPurchaseQuote,
          requests, nextId, distributions, incomeClaimed, nextDistribution>>

Init ==
  /\ RegistryInit
  /\ TokenInit
  /\ QuoteInit
  /\ SupplyInit
  /\ PriceInit
  /\ VaultInit
  /\ EscrowInit
  /\ IncomeInit

Tick ==
  /\ now < MaxTime
  /\ now' = now + 1
  /\ UNCHANGED records

\* Each contract's transactions, with the contracts it does not call.
RegistryStep ==
  /\ RegistryNext \/ Tick
  /\ UNCHANGED <<tokenVars, quote, supplyVars, priceVars, vaultVars, escrowVars, incomeVars>>

TokenStep ==
  /\ TokenNext
  /\ UNCHANGED <<registryVars, quote, supplyVars, priceVars, vaultVars, escrowVars, incomeVars>>

QuoteStep ==
  /\ QuoteNext
  /\ UNCHANGED <<registryVars, tokenVars, supplyVars, priceVars, vaultVars, escrowVars, incomeVars>>

SupplyStep ==
  /\ SupplyNext
  /\ UNCHANGED <<registryVars, quote, priceVars, vaultVars, escrowVars, incomeVars>>

PriceStep ==
  /\ PriceNext
  /\ UNCHANGED <<registryVars, tokenVars, quote, supplyVars, vaultVars, escrowVars, incomeVars>>

VaultStep ==
  /\ VaultNext
  /\ UNCHANGED <<registryVars, supplyVars, priceVars, escrowVars, incomeVars>>

EscrowStep ==
  /\ EscrowNext
  /\ UNCHANGED <<registryVars, supplyVars, priceVars, vaultVars, incomeVars>>

IncomeStep ==
  /\ IncomeNext
  /\ UNCHANGED <<registryVars, supplyVars, priceVars, escrowVars>>

Next ==
  \/ RegistryStep
  \/ TokenStep
  \/ QuoteStep
  \/ SupplyStep
  \/ PriceStep
  \/ VaultStep
  \/ EscrowStep
  \/ IncomeStep

Spec == Init /\ [][Next]_vars

-----------------------------------------------------------------------------
(* Properties                                                              *)

TypeOK ==
  /\ RegistryTypeOK
  /\ TokenTypeOK
  /\ QuoteTypeOK
  /\ SupplyTypeOK
  /\ PriceTypeOK
  /\ VaultTypeOK
  /\ EscrowTypeOK
  /\ IncomeTypeOK

\* The sum of a function with values in Nat, without recursion: an amount f[x]
\* is the set of its units <<x, 1>>, ..., <<x, f[x]>>, and the sum is the number
\* of units of all the elements of the domain.
UnitsOf(x, n) == {x} \X (1..n)
Units(f) == UNION {UnitsOf(x, f[x]) : x \in DOMAIN f}
Total(f) == Cardinality(Units(f))

\* The amount of an attestation that has been executed as a mint (burn).
mintedBy(a) == IF a \in executed /\ a.op = "mint" THEN a.amount ELSE 0
burntBy(a) == IF a \in executed /\ a.op = "burn" THEN a.amount ELSE 0

\* The supply is what executed mint attestations created less what executed
\* burn attestations destroyed, each counted once however often it was
\* submitted (SupplyController.mint, burn).
SupplyAttested ==
  totalSupply + Total([a \in Attestations |-> burntBy(a)])
    = Total([a \in Attestations |-> mintedBy(a)])

\* No nonce authorises two operations, and no record or operation is executed
\* twice, whoever is auditor and whatever the order of mints and burns
\* (SupplyController.nonceUsed, recordKeyUsed, operationIdUsed).
AttestedOnce ==
  \A a, b \in executed :
    a.nonce = b.nonce \/ (a.op = b.op /\ a.key = b.key) => a = b

\* The balances add up to the supply through transfers to oneself, seizures,
\* escrow returns, mints and burns (RWAToken._update and its bypasses).
SupplyConserved == Total(balance) = totalSupply

\* The RWA and the quote tokens that the escrow owes on its live requests.
rwaOwed(r) == IF r.status \in {"Pending", "Funded"} THEN r.rwaAmount ELSE 0
quoteOwed(r) == IF r.status = "Funded" THEN r.quoteAmount ELSE 0

\* The escrow holds the tokens of every request that has not been settled and
\* the money of every funded one, all of them together
\* (RedemptionEscrow's transitions, RWAToken's protection of system addresses).
EscrowBacked ==
  /\ Total([id \in RequestIds |-> rwaOwed(requests[id])]) <= balance[EscrowAddr]
  /\ Total([id \in RequestIds |-> quoteOwed(requests[id])]) <= quote[EscrowAddr]

\* Every open way out of the escrow works when it is tried: a funded request
\* can be completed by anyone unless the project is paused, whatever happened
\* to its beneficiary; a request past its timeout can be cancelled even while
\* paused; and a pending one can be rejected (docs/spec/redemption-state-machine.md).
ExitsOpen ==
  \A id \in RequestIds : LET r == requests[id] IN
    /\ r.status = "Funded" =>
         /\ returnable(VaultAddr, r.rwaAmount)
         /\ r.quoteAmount <= quote[EscrowAddr]
         /\ r.beneficiary \in Accounts \ {EscrowAddr}
    /\ r.status = "Pending" /\ isAllowed(r.beneficiary) =>
         /\ ~paused => rejectable(id)
         /\ now >= r.createdAt + RedemptionTimeout => cancellable(id, r.beneficiary)

\* What is left of a distribution that has not been reclaimed.
incomeOwed(d) == IF d.reclaimed THEN 0 ELSE d.total - d.claimed

\* The distributor holds what is left of all the open distributions together,
\* so that one over-allocated root, or a claim after a reclaim, never pays out
\* of another distribution (IncomeDistributor.claim, reclaimUnclaimed).
IncomeBacked ==
  /\ \A id \in DistributionIds : distributions[id].claimed <= distributions[id].total
  /\ Total([id \in DistributionIds |-> incomeOwed(distributions[id])])
       <= quote[DistributorAddr]

\* A root whose leaves add up to no more than the deposit.
Honest(d) == Total([leaf \in d.merkleRoot |-> leaf[2]]) <= d.total

\* Under such a root an entitled holder who has not claimed is never turned
\* away with ExceedsTotal and always finds the money there, until his window
\* has closed (IncomeDistributor.claim, extendClaimDeadline, reclaimUnclaimed).
EntitlementKept ==
  \A id \in DistributionIds : LET d == distributions[id] IN
    Honest(d) =>
      \A leaf \in d.merkleRoot :
        leaf[1] \notin incomeClaimed[id] /\ now <= d.claimDeadline =>
          /\ d.claimed + leaf[2] <= d.total
          /\ leaf[2] <= quote[DistributorAddr]

\* How much of the hold on an account is not covered by its balance.
shortfall(a) == IF frozen[a] > balance[a] THEN frozen[a] - balance[a] ELSE 0

\* No step that takes tokens from an account touches its frozen part: what is
\* frozen and not covered stays the same, and a seizure lowers the hold by
\* exactly what it takes of it (RWAToken._update, forcedTransfer).
FreezeHolds ==
  [][\A a \in Accounts : balance'[a] < balance[a] => shortfall(a)' = shortfall(a)]_vars

\* Tokens only ever arrive at accounts that are eligible at that moment, by
\* whichever path (RWAToken._update, returnEscrowedRWA, forcedTransfer, mint).
OnlyAllowedReceive ==
  [][\A a \in Accounts : balance'[a] > balance[a] => isAllowed(a)]_vars

\* While the project is paused no supply is created or destroyed, no contract
\* loses money, the Vault keeps its inventory, and the escrow releases tokens
\* only to the beneficiary of a request that is being cancelled.
PauseHolds ==
  [][paused =>
       /\ totalSupply' = totalSupply
       /\ \A c \in Contracts : quote'[c] >= quote[c]
       /\ balance'[VaultAddr] >= balance[VaultAddr]
       /\ balance'[EscrowAddr] < balance[EscrowAddr] =>
            \E id \in RequestIds :
              /\ requests[id].status = "Pending" /\ requests'[id].status = "Cancelled"
              /\ balance' = Moved(balance, EscrowAddr, requests[id].beneficiary,
                                  requests[id].rwaAmount)]_vars

\* The redemption desk's promise, kept by the project as a whole.
Promise == INSTANCE RedemptionPromise WITH
  Ids <- RequestIds, Parties <- Accounts, Desk <- EscrowAddr, Stock <- VaultAddr,
  Nobody <- ZeroAddress, Patience <- RedemptionTimeout,
  deals <- requests, clock <- now, tokens <- balance, money <- quote

\* Every step of the project is a step of the abstract redemption desk: the
\* transition and the tokens and money it moves are exactly those promised, and
\* no other operation takes anything out of the escrow.
KeepsPromise == Promise!Spec
=============================================================================
