---------------------------- MODULE ChainHistory ----------------------------
(***************************************************************************)
(* The deployed contracts as a history of blocks, for the server's read    *)
(* models: one transaction per block, the events it logs (the ones the     *)
(* read models decode) and the contract state after it.  Which calls the   *)
(* contracts accept is the subject of the module Project; here only what   *)
(* an accepted call moves and logs is kept, without eligibility, prices    *)
(* and pauses.  Blocks above the finality depth may be reorganised away.   *)
(***************************************************************************)
EXTENDS IncomeSnapshot

CONSTANTS
  Finality,          \* confirmations after which a block stays (FINALITY_CONFIRMATIONS)
  Never              \* a deadline above MaxInt64, as type(uint64).max

ASSUME HistoryAssumption == Finality \in Nat /\ Never > MaxInt64

VARIABLES
  chain,             \* the canonical blocks: [events, state]
  mined,             \* transactions ever mined, to tell them apart
  finalized,         \* the highest block that has become final
  now                \* the time, against claim deadlines

chainVars == <<chain, mined, finalized, now>>

NoState ==
  [balances |-> [a \in Accounts |-> 0], requests |-> <<>>, purchases |-> <<>>,
   distributions |-> <<>>, claims |-> <<>>]

stateOf(blocks) == IF blocks = <<>> THEN NoState ELSE Last(blocks).state

eventsOf(blocks) == UNION {blocks[i].events : i \in DOMAIN blocks}

Moved(st, sender, recipient, value) ==
  [st EXCEPT !.balances = [a \in Accounts |->
     @[a] + (IF a = recipient /\ a # Zero THEN value ELSE 0)
          - (IF a = sender /\ a # Zero THEN value ELSE 0)]]

Transfer(sender, recipient, value) ==
  [name |-> "Transfer", from |-> sender, to |-> recipient, value |-> value]

\* The events an accepted call logs, in order.
logs(st, call) ==
  CASE call.op = "mint" ->
         <<Transfer(Zero, VaultAddr, call.amount), [name |-> "Minted", amount |-> call.amount]>>
    [] call.op = "burn" ->
         <<Transfer(VaultAddr, Zero, call.amount), [name |-> "Burned", amount |-> call.amount]>>
    [] call.op = "buy" ->
         <<Transfer(VaultAddr, call.who, call.amount),
           [name |-> "Purchased", buyer |-> call.who, tokenAmount |-> call.amount]>>
    [] call.op = "send" -> <<Transfer(call.who, call.recipient, call.amount)>>
    [] call.op = "request" ->
         <<Transfer(call.who, EscrowAddr, call.amount),
           [name |-> "RedemptionRequested", id |-> Len(st.requests) + 1,
            beneficiary |-> call.who, rwaAmount |-> call.amount]>>
    [] call.op = "fund" -> <<[name |-> "RedemptionFunded", id |-> call.id]>>
    [] call.op = "complete" ->
         <<Transfer(EscrowAddr, VaultAddr, st.requests[call.id].rwaAmount),
           [name |-> "RedemptionCompleted", id |-> call.id]>>
    [] call.op \in {"reject", "cancel"} ->
         <<Transfer(EscrowAddr, st.requests[call.id].beneficiary, st.requests[call.id].rwaAmount),
           [name |-> IF call.op = "reject" THEN "RedemptionRejected" ELSE "RedemptionCancelled",
            id |-> call.id]>>
    [] call.op = "create" ->
         <<[name |-> "DistributionCreated", id |-> Len(st.distributions) + 1,
            merkleRoot |-> RootOf(call.snapshot), snapshotSha256 |-> call.snapshot,
            claimDeadline |-> call.deadline]>>
    [] call.op = "claim" ->
         <<[name |-> "IncomeClaimed", id |-> call.id, account |-> call.who, amount |-> call.amount]>>
    [] call.op = "extend" ->
         <<[name |-> "ClaimDeadlineExtended", id |-> call.id, newDeadline |-> call.deadline]>>
    [] call.op = "reclaim" -> <<[name |-> "UnclaimedReclaimed", id |-> call.id]>>

\* The contracts' state after it.
after(st, call, tx) ==
  CASE call.op = "mint" -> Moved(st, Zero, VaultAddr, call.amount)
    [] call.op = "burn" -> Moved(st, VaultAddr, Zero, call.amount)
    [] call.op = "buy" ->
         [Moved(st, VaultAddr, call.who, call.amount) EXCEPT
            !.purchases = Append(@, [tx |-> tx, buyer |-> call.who, tokenAmount |-> call.amount])]
    [] call.op = "send" -> Moved(st, call.who, call.recipient, call.amount)
    [] call.op = "request" ->
         [Moved(st, call.who, EscrowAddr, call.amount) EXCEPT
            !.requests = Append(@, [beneficiary |-> call.who, rwaAmount |-> call.amount,
                                    status |-> "Pending"])]
    [] call.op = "fund" -> [st EXCEPT !.requests[call.id].status = "Funded"]
    [] call.op = "complete" ->
         [Moved(st, EscrowAddr, VaultAddr, st.requests[call.id].rwaAmount) EXCEPT
            !.requests[call.id].status = "Completed"]
    [] call.op \in {"reject", "cancel"} ->
         [Moved(st, EscrowAddr, st.requests[call.id].beneficiary, st.requests[call.id].rwaAmount)
            EXCEPT !.requests[call.id].status =
                     IF call.op = "reject" THEN "Rejected" ELSE "Cancelled"]
    [] call.op = "create" ->
         [st EXCEPT !.distributions =
            Append(@, [snapshot |-> call.snapshot, total |-> call.snapshot.total, claimed |-> 0,
                       claimDeadline |-> call.deadline, reclaimed |-> FALSE]),
                    !.claims = Append(@, {})]
    [] call.op = "claim" ->
         [st EXCEPT !.distributions[call.id].claimed = @ + call.amount,
                    !.claims[call.id] = @ \cup {call.who}]
    [] call.op = "extend" -> [st EXCEPT !.distributions[call.id].claimDeadline = call.deadline]
    [] call.op = "reclaim" -> [st EXCEPT !.distributions[call.id].reclaimed = TRUE]

\* IncomeDistributor.claim
claimAccepted(st, id, who, amount, proof) ==
  /\ now <= st.distributions[id].claimDeadline
  /\ who \notin st.claims[id]
  /\ VerifyProof(RootOf(st.distributions[id].snapshot), LeafHash(who, amount), proof)
  /\ st.distributions[id].claimed + amount <= st.distributions[id].total

\* A log with its place in the chain.
placed(log, place) ==
  [field \in DOMAIN log \cup DOMAIN place |-> IF field \in DOMAIN place THEN place[field] ELSE log[field]]

block(blocks, call, tx) ==
  LET ls == logs(stateOf(blocks), call)
  IN  [state |-> after(stateOf(blocks), call, tx),
       events |-> {placed(ls[i], [block |-> Len(blocks) + 1, log |-> i, tx |-> tx]) : i \in DOMAIN ls}]

\* A history of calls, for the initial states.
History(calls) ==
  FoldLeft(LAMBDA blocks, call : Append(blocks, block(blocks, call, Len(blocks) + 1)), <<>>, calls)

Mine(call) ==
  /\ chain' = Append(chain, block(chain, call, mined + 1))
  /\ mined' = mined + 1
  /\ finalized' = Max({finalized, Len(chain') - Finality})
  /\ UNCHANGED now

\* A block that is not final is replaced by nothing (the next one may follow).
Reorg ==
  /\ Len(chain) > finalized
  /\ chain' = Front(chain)
  /\ UNCHANGED <<mined, finalized, now>>

Tick == now' = now + 1 /\ UNCHANGED <<chain, mined, finalized>>
=============================================================================
