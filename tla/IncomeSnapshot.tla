--------------------------- MODULE IncomeSnapshot ---------------------------
(***************************************************************************)
(* What the server computes from indexed events: redemption requests       *)
(* (server/internal/redemption/projector.go), purchases                    *)
(* (server/internal/sales/projector.go), income entitlements with their    *)
(* Merkle tree and the distributions (server/internal/income).             *)
(*                                                                         *)
(* The event store is a set; an event knows its place in the chain         *)
(* (block, log) and is otherwise a record of the decoded fields.  Hashes   *)
(* are injective: a leaf hash is the leaf, a pair hash the unordered pair. *)
(***************************************************************************)
EXTENDS Integers, SequencesExt, FiniteSetsExt, Functions, TLC

CONSTANTS
  Holders,           \* accounts of investors
  MaxInt64           \* the largest deadline the read model can store

ASSUME SnapshotAssumption == MaxInt64 \in Nat

Zero == "zero"
VaultAddr == "vault"
EscrowAddr == "escrow"
Accounts == Holders \cup {Zero, VaultAddr, EscrowAddr}

named(events, names) == {e \in events : e.name \in names}

earlier(a, b) == a.block < b.block \/ (a.block = b.block /\ a.log < b.log)

inOrder(events) == SetToSortSeq(events, earlier)

survivors(events, block) == {e \in events : e.block <= block}

-----------------------------------------------------------------------------
(* Redemption requests                                                     *)

RedemptionNames ==
  <<"RedemptionRequested", "RedemptionFunded", "RedemptionCompleted",
    "RedemptionRejected", "RedemptionCancelled">>

\* The status an event moves a request from and to.
from == [RedemptionFunded |-> "Pending", RedemptionCompleted |-> "Funded",
         RedemptionRejected |-> "Pending", RedemptionCancelled |-> "Pending"]

to == [RedemptionFunded |-> "Funded", RedemptionCompleted |-> "Completed",
       RedemptionRejected |-> "Rejected", RedemptionCancelled |-> "Cancelled"]

applyRedemption(states, e) ==
  IF e.name = "RedemptionRequested"
    THEN (e.id :> [beneficiary |-> e.beneficiary, rwaAmount |-> e.rwaAmount,
                   status |-> "Pending"]) @@ states
    ELSE IF e.id \in DOMAIN states /\ states[e.id].status = from[e.name]
      THEN [states EXCEPT ![e.id].status = to[e.name]]
      ELSE states

BuildStates(events) == FoldLeft(applyRedemption, <<>>, inOrder(events))

-----------------------------------------------------------------------------
(* Purchases                                                               *)

BuildPurchases(events) ==
  [id \in {<<e.tx, e.log>> : e \in events} |->
     LET e == CHOOSE x \in events : <<x.tx, x.log>> = id
     IN  [buyer |-> e.buyer, tokenAmount |-> e.tokenAmount]]

-----------------------------------------------------------------------------
(* Entitlements                                                            *)

NoReplay == [ok |-> TRUE, balances |-> [a \in Accounts |-> 0], supply |-> 0]

\* One Transfer event.  A sender without the balance means that earlier
\* events are missing; a transfer of nothing says nothing.
replay(r, e) ==
  IF ~r.ok \/ e.value = 0 THEN r
  ELSE IF e.from # Zero /\ r.balances[e.from] < e.value THEN [r EXCEPT !.ok = FALSE]
  ELSE LET paid == IF e.from = Zero THEN r.balances
                   ELSE [r.balances EXCEPT ![e.from] = @ - e.value]
       IN  [ok |-> TRUE,
            balances |-> IF e.to = Zero THEN paid ELSE [paid EXCEPT ![e.to] = @ + e.value],
            supply |-> r.supply + (IF e.from = Zero THEN e.value ELSE 0)
                                - (IF e.to = Zero THEN e.value ELSE 0)]

amountOf(e) == e.amount

\* Mutant of supplyAgrees: the SupplyController's events are not compared.
supplyUnchecked(events, supply) == TRUE

supplyAgrees(events, supply) ==
  MapThenSumSet(amountOf, named(events, {"Minted"}))
    - MapThenSumSet(amountOf, named(events, {"Burned"})) = supply

\* What beneficiaries still own of the tokens in escrow.
openRedemptions(events, account) ==
  LET states == BuildStates(named(events, ToSet(RedemptionNames)))
      open == {id \in DOMAIN states : /\ states[id].status \in {"Pending", "Funded"}
                                      /\ states[id].beneficiary = account}
      rwaOf(id) == states[id].rwaAmount
  IN  MapThenSumSet(rwaOf, open)

\* The balances and the supply that the Transfer events leave.
replayed(events) == FoldLeft(replay, NoReplay, inOrder(named(events, {"Transfer"})))

sumOf(amounts) == LET amountAt(a) == amounts[a] IN MapThenSumSet(amountAt, DOMAIN amounts)

\* The holders' lines of the snapshot, or none when the history is
\* incomplete or nobody is entitled to anything.
ComputeEntitlements(allEvents, recordBlock, total) ==
  LET events == survivors(allEvents, recordBlock)
      r == replayed(events)
      balances == [a \in Holders |-> r.balances[a] + openRedemptions(events, a)]
      eligible == sumOf(balances)
      amount(a) == (total * balances[a]) \div eligible
      entries == [a \in {h \in Holders : amount(h) > 0} |-> amount(a)]
  IN  IF \/ ~r.ok
         \/ ~supplyAgrees(events, r.supply)
         \/ eligible = 0
        THEN {}
      ELSE IF DOMAIN entries = {} THEN {}
      ELSE {[recordBlock |-> recordBlock, total |-> total, eligible |-> eligible,
             distributed |-> sumOf(entries), entries |-> entries]}

-----------------------------------------------------------------------------
(* The Merkle tree                                                         *)

LeafHash(account, amount) == [leaf |-> <<account, amount>>, pair |-> {}]

hashPair(a, b) == [leaf |-> <<>>, pair |-> {a, b}]

\* Leaves from the end of the array, every other node over its two children.
BuildTree(hashes) ==
  LET n == Len(hashes)
      nodes[i \in 0..(2 * n - 2)] ==
        IF i >= n - 1 THEN hashes[2 * n - 1 - i]
                      ELSE hashPair(nodes[2 * i + 1], nodes[2 * i + 2])
  IN  nodes

sibling(i) == IF i % 2 = 0 THEN i - 1 ELSE i + 1

parent(i) == (i - 1) \div 2

Proof(nodes, leaf) ==
  LET path[i \in DOMAIN nodes] ==
        IF i = 0 THEN <<>> ELSE <<nodes[sibling(i)]>> \o path[parent(i)]
  IN  path[CHOOSE i \in DOMAIN nodes : nodes[i] = leaf]

VerifyProof(root, leaf, proof) == FoldLeft(hashPair, leaf, proof) = root

\* The order of the leaves is that of their hashes: arbitrary, but fixed.
TreeOf(snapshot) ==
  BuildTree(SetToSeq({LeafHash(a, snapshot.entries[a]) : a \in DOMAIN snapshot.entries}))

RootOf(snapshot) == TreeOf(snapshot)[0]

-----------------------------------------------------------------------------
(* Distributions                                                           *)

IncomeNames ==
  <<"DistributionCreated", "IncomeClaimed", "UnclaimedReclaimed", "ClaimDeadlineExtended">>

\* Mutant of unixSeconds: what does not fit wraps around.
unixSecondsWrapped(n) == IF n <= MaxInt64 THEN n ELSE n - 2 * (MaxInt64 + 1)

unixSeconds(n) == IF n <= MaxInt64 THEN n ELSE MaxInt64

\* Rows of both collections, by <<id>> and by <<id, account>>.
applyIncome(rows, e) ==
  IF e.name = "DistributionCreated"
    THEN (<<e.id>> :> [merkleRoot |-> e.merkleRoot, snapshotSha256 |-> e.snapshotSha256,
                       claimDeadline |-> unixSeconds(e.claimDeadline), claimed |-> 0,
                       reclaimed |-> FALSE]) @@ rows
  ELSE IF <<e.id>> \notin DOMAIN rows THEN rows
  ELSE CASE e.name = "IncomeClaimed" ->
              (<<e.id, e.account>> :> e.amount) @@ [rows EXCEPT ![<<e.id>>].claimed = @ + e.amount]
         [] e.name = "UnclaimedReclaimed" -> [rows EXCEPT ![<<e.id>>].reclaimed = TRUE]
         [] e.name = "ClaimDeadlineExtended" ->
              [rows EXCEPT ![<<e.id>>].claimDeadline = unixSeconds(e.newDeadline)]

BuildDistributions(events) == FoldLeft(applyIncome, <<>>, inOrder(events))
=============================================================================
