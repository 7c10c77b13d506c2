------------------------- MODULE IncomeDistributor -------------------------
(***************************************************************************)
(* Income distributions claimed by Merkle proof                            *)
(* (contracts/src/IncomeDistributor.sol).  A root is the set of leaves     *)
(* <<account, amount>> it commits to, and a proof verifies exactly for its *)
(* members.  Nothing on chain ties the leaves to the deposited total, so a *)
(* root may promise more than was deposited.                               *)
(***************************************************************************)
EXTENDS Vault

CONSTANTS
  DistributorAddr,   \* the address of the IncomeDistributor
  IncomeManager,     \* the INCOME_MANAGER_ROLE holder, who deposits the total
  Roots,             \* the roots the manager may publish
  MinClaimWindow,    \* MIN_CLAIM_WINDOW
  MaxDeadline,       \* bound on claim deadlines
  MaxDistributions   \* bound on the number of distributions

ASSUME IncomeAssumption ==
  /\ DistributorAddr \in Contracts \ SystemAddresses
  /\ IncomeManager \in Holders
  /\ Roots \subseteq SUBSET (Accounts \X Nat)
  /\ MinClaimWindow \in Nat \ {0}
  /\ MaxDeadline \in Nat
  /\ MaxDistributions \in Nat

VARIABLES
  distributions,     \* _distributions
  incomeClaimed,     \* _claimed: who has claimed of each distribution
  nextDistribution   \* nextId

incomeVars == <<distributions, incomeClaimed, nextDistribution>>

DistributionIds == 0..(MaxDistributions - 1)

Distribution ==
  [merkleRoot : SUBSET (Accounts \X Nat), total : Nat, claimed : Nat,
   claimDeadline : Nat, reclaimed : BOOLEAN]

NoDistribution ==
  [merkleRoot |-> {}, total |-> 0, claimed |-> 0, claimDeadline |-> 0, reclaimed |-> FALSE]

IncomeInit ==
  /\ distributions = [id \in DistributionIds |-> NoDistribution]
  /\ incomeClaimed = [id \in DistributionIds |-> {}]
  /\ nextDistribution = 0

createDistribution(root, total, claimDeadline) ==
  /\ nextDistribution < MaxDistributions
  /\ ~paused
  /\ root # {}
  /\ total # 0
  /\ claimDeadline >= now + MinClaimWindow
  /\ nextDistribution' = nextDistribution + 1
  /\ distributions' = [distributions EXCEPT ![nextDistribution] =
                         [merkleRoot |-> root, total |-> total, claimed |-> 0,
                          claimDeadline |-> claimDeadline, reclaimed |-> FALSE]]
  /\ checkedQuoteTransfer(IncomeManager, DistributorAddr, total)
  /\ UNCHANGED incomeClaimed
  /\ UNCHANGED tokenVars
  /\ UNCHANGED vaultVars

\* Mutant of claim: the holder is not marked as having claimed.
claimAgain(id, caller, amount) ==
  /\ id < nextDistribution /\ ~paused /\ now <= distributions[id].claimDeadline
  /\ isAllowed(caller) /\ amount # 0
  /\ <<caller, amount>> \in distributions[id].merkleRoot
  /\ distributions[id].claimed + amount <= distributions[id].total
  /\ distributions' = [distributions EXCEPT ![id].claimed = @ + amount]
  /\ checkedQuoteTransfer(DistributorAddr, caller, amount)
  /\ UNCHANGED <<incomeClaimed, nextDistribution>>
  /\ UNCHANGED tokenVars
  /\ UNCHANGED vaultVars

claim(id, caller, amount) ==
  /\ id < nextDistribution
  /\ ~paused
  /\ now <= distributions[id].claimDeadline
  /\ caller \notin incomeClaimed[id]
  /\ isAllowed(caller)
  /\ amount # 0
  /\ <<caller, amount>> \in distributions[id].merkleRoot
  /\ distributions[id].claimed + amount <= distributions[id].total
  /\ incomeClaimed' = [incomeClaimed EXCEPT ![id] = @ \cup {caller}]
  /\ distributions' = [distributions EXCEPT ![id].claimed = @ + amount]
  /\ checkedQuoteTransfer(DistributorAddr, caller, amount)
  /\ UNCHANGED nextDistribution
  /\ UNCHANGED tokenVars
  /\ UNCHANGED vaultVars

\* Mutant of extendClaimDeadline: a reclaimed distribution can be reopened.
extendReclaimed(id, newDeadline) ==
  /\ id < nextDistribution
  /\ newDeadline > distributions[id].claimDeadline
  /\ newDeadline > now
  /\ distributions' = [distributions EXCEPT ![id].claimDeadline = newDeadline]
  /\ UNCHANGED <<incomeClaimed, nextDistribution, quote>>
  /\ UNCHANGED tokenVars
  /\ UNCHANGED vaultVars

\* Also while paused, so that the manager can restore the lost claim time.
extendClaimDeadline(id, newDeadline) ==
  /\ id < nextDistribution
  /\ ~distributions[id].reclaimed
  /\ newDeadline > distributions[id].claimDeadline
  /\ newDeadline > now
  /\ distributions' = [distributions EXCEPT ![id].claimDeadline = newDeadline]
  /\ UNCHANGED <<incomeClaimed, nextDistribution, quote>>
  /\ UNCHANGED tokenVars
  /\ UNCHANGED vaultVars

remainder(id) == distributions[id].total - distributions[id].claimed

reclaimUnclaimed(id) ==
  /\ id < nextDistribution
  /\ ~paused
  /\ now > distributions[id].claimDeadline
  /\ ~distributions[id].reclaimed
  /\ distributions' = [distributions EXCEPT ![id].reclaimed = TRUE]
  /\ \/ remainder(id) # 0 /\ checkedQuoteTransfer(DistributorAddr, treasury, remainder(id))
     \/ remainder(id) = 0 /\ UNCHANGED quote
  /\ UNCHANGED <<incomeClaimed, nextDistribution>>
  /\ UNCHANGED tokenVars
  /\ UNCHANGED vaultVars

IncomeNext ==
  \/ \E root \in Roots, total \in Amounts, deadline \in 1..MaxDeadline :
       createDistribution(root, total, deadline)
  \/ \E id \in DistributionIds, caller \in Holders, amount \in Amounts :
       claim(id, caller, amount)
  \/ \E id \in DistributionIds, deadline \in 1..MaxDeadline :
       extendClaimDeadline(id, deadline)
  \/ \E id \in DistributionIds : reclaimUnclaimed(id)

IncomeTypeOK ==
  /\ distributions \in [DistributionIds -> Distribution]
  /\ incomeClaimed \in [DistributionIds -> SUBSET Accounts]
  /\ nextDistribution \in 0..MaxDistributions
=============================================================================
