----------------------------- MODULE MCProject -----------------------------
(***************************************************************************)
(* Small instances of Project.  The accounts are the three contracts, two  *)
(* investors and ops, one account that is treasurer, treasury and income   *)
(* manager.  The redemption configuration makes that part of the project   *)
(* large and the others small; the other configuration does so by          *)
(* behaviours, each of which keeps to the token, the supply or the income. *)
(***************************************************************************)
EXTENDS Project

CONSTANTS zero, vault, escrow, distributor, alice, bob, ops, s1, s2,
          auditor1, auditor2

update1(a, s, v) == [account |-> a, status |-> s, validUntil |-> v]

MCContracts == {vault, escrow, distributor}
MCAccounts2 == MCContracts \cup {alice, ops}
MCAccounts3 == MCContracts \cup {alice, bob, ops}

\* Attestations.
att(op, who, by, key, amount, nonce, until) ==
  [op |-> op, auditor |-> who, signer |-> by, profileDigest |-> "profile",
   vault |-> vault, key |-> key, amount |-> amount, nonce |-> nonce,
   validUntil |-> until]

\* One mint, so that there is something to sell and to redeem.
MintOf2 == {att("mint", auditor1, auditor1, "r1", 2, 1, 1)}

\* Mints and burns of two auditors that share nonces, keys, or neither; one
\* signed by somebody else, one for another profile, one for another vault.
FirstMint == att("mint", auditor1, auditor1, "r1", 2, 1, 2)

ManyAttestations ==
  { FirstMint,
    att("mint", auditor1, auditor1, "r2", 1, 1, 3),
    att("mint", auditor2, auditor2, "r1", 1, 2, 3),
    att("mint", auditor1, auditor2, "r3", 1, 3, 3),
    att("burn", auditor1, auditor1, "r1", 1, 2, 3),
    att("burn", auditor2, auditor2, "b1", 2, 3, 3),
    [att("mint", auditor1, auditor1, "r4", 1, 4, 3) EXCEPT !.profileDigest = "other"],
    [att("burn", auditor1, auditor1, "b2", 1, 5, 3) EXCEPT !.vault = escrow],
    att("mint", auditor1, auditor1, "r5", 0, 6, 3) }

\* Compliance decisions.
InvestorUpdates == {update1(alice, "Allowed", 0), update1(alice, "Blocked", 0)}

RedemptionUpdates == InvestorUpdates \cup {update1(vault, "Blocked", 0)}

ManyUpdates ==
  { update1(alice, "Allowed", 2), update1(alice, "Blocked", 0), update1(bob, "Allowed", 0),
    update1(vault, "Blocked", 0), update1(escrow, "Allowed", 2) }

BothAllowed == {update1(alice, "Allowed", 0), update1(ops, "Allowed", 0), update1(alice, "Allowed", 1)}

PartUpdates == ManyUpdates \cup BothAllowed

\* Holds, payments from outside and initial holdings of quote tokens.
RedemptionFreezes == {<<alice, 1>>, <<escrow, 1>>}
RedemptionPayments == {<<alice, escrow, 1>>}
RedemptionQuote == [a \in Accounts |-> IF a \in Contracts THEN 0 ELSE 2]

\* The redemption instance follows a distribution only until the first mint.
RedemptionRoots == {{<<alice, 1>>}}
IncomeApart == nextDistribution = 0 \/ executed = {}

TokenFreezes == {<<alice, 0>>, <<alice, 1>>, <<alice, 3>>, <<bob, 1>>, <<vault, 1>>}

IncomePayments == {<<alice, distributor, 1>>}
PartQuote == [a \in Accounts |-> IF a = ops THEN 4 ELSE IF a = bob THEN 2 ELSE 0]

\* A root for two holders, and one that promises one of them twice the same
\* money and more than any deposit.
IncomeRoots == { {<<alice, 1>>, <<ops, 1>>}, {<<alice, 1>>, <<alice, 2>>, <<ops, 2>>} }
=============================================================================
