------------------------- MODULE RedemptionPromise -------------------------
(***************************************************************************)
(* What the redemption desk promises, independently of how RedemptionEscrow*)
(* and the contracts around it bring it about: the terms of a deal are     *)
(* fixed when it opens; the investor's tokens leave the escrow once, either*)
(* back to him or to the vault against the exact price; the price leaves   *)
(* the escrow once, to the beneficiary; and nothing else ever takes tokens *)
(* or money out of the escrow.                                             *)
(***************************************************************************)
EXTENDS Integers

CONSTANTS
  Ids, Parties, Desk, Stock,   \* deals, accounts, the escrow, the vault
  Nobody,                      \* the party of a deal that is not open
  Patience                     \* how long a deal may stay unanswered

VARIABLES
  deals,                       \* the deals with their terms and stage
  clock,                       \* the current time
  tokens, money                \* what each party holds

vars == <<deals, clock, tokens, money>>

Unopened ==
  [beneficiary |-> Nobody, rwaAmount |-> 0, quoteAmount |-> 0, createdAt |-> 0,
   status |-> "None"]

Init ==
  /\ deals = [id \in Ids |-> Unopened]
  /\ clock \in Nat
  /\ tokens \in [Parties -> Nat]
  /\ money \in [Parties -> Nat]

\* n units pass from one party to a different one.
Passes(hold, after, from, to, n) ==
  /\ from # to
  /\ after = [[hold EXCEPT ![from] = @ - n] EXCEPT ![to] = @ + n]

SetStage(id, from, to) ==
  /\ deals[id].status = from
  /\ deals' = [deals EXCEPT ![id].status = to]
  /\ UNCHANGED clock

Open(id) ==
  \E who \in Parties :
    /\ deals[id] = Unopened
    /\ deals'[id].beneficiary = who
    /\ deals'[id].rwaAmount > 0
    /\ deals'[id].quoteAmount > 0
    /\ deals'[id].createdAt = clock
    /\ deals'[id].status = "Pending"
    /\ \A other \in Ids \ {id} : deals'[other] = deals[other]
    /\ Passes(tokens, tokens', who, Desk, deals'[id].rwaAmount)
    /\ UNCHANGED <<clock, money>>

Fund(id) ==
  /\ SetStage(id, "Pending", "Funded")
  /\ \E payer \in Parties : Passes(money, money', payer, Desk, deals[id].quoteAmount)
  /\ UNCHANGED tokens

GiveBack(id) ==
  /\ \/ SetStage(id, "Pending", "Rejected")
     \/ SetStage(id, "Pending", "Cancelled") /\ clock >= deals[id].createdAt + Patience
  /\ Passes(tokens, tokens', Desk, deals[id].beneficiary, deals[id].rwaAmount)
  /\ UNCHANGED money

Complete(id) ==
  /\ SetStage(id, "Funded", "Completed")
  /\ Passes(tokens, tokens', Desk, Stock, deals[id].rwaAmount)
  /\ Passes(money, money', Desk, deals[id].beneficiary, deals[id].quoteAmount)

\* Everything else the project does.
Elsewhere ==
  /\ UNCHANGED deals
  /\ clock' \in {clock, clock + 1}
  /\ tokens' \in [Parties -> Nat] /\ tokens'[Desk] >= tokens[Desk]
  /\ money' \in [Parties -> Nat] /\ money'[Desk] >= money[Desk]

Next ==
  \/ Elsewhere
  \/ \E id \in Ids : Open(id) \/ Fund(id) \/ GiveBack(id) \/ Complete(id)

Spec == Init /\ [][Next]_vars
=============================================================================
