--------------------------- MODULE IncomeService ---------------------------
(***************************************************************************)
(* Income on the server (server/internal/income/service.go): administrators *)
(* prepare the snapshot of a final record block, several at a time; the    *)
(* manager creates the distribution on chain; investors list their claims  *)
(* with the proof the contract asks for.                                   *)
(*                                                                         *)
(* The chain never reorganises past the finality depth, so the indexer's   *)
(* ReconciliationRequired flag, which Prepare and the tickers look at, is  *)
(* never set.  Pinning is a step that may fail; sizes are left out.        *)
(***************************************************************************)
EXTENDS ReadModels

CONSTANTS
  Callers,           \* requests to Prepare that may run at once
  Totals,            \* totals an administrator may ask for
  Deadlines,         \* claim deadlines, possibly Never
  MinClaimWindow,    \* MinClaimWindow
  Scopes             \* what happens in one behaviour, and how much of it

\* The events of each block carry its number.
Numbered(blocks) ==
  /\ blocks \in Seq(Range(blocks))
  /\ \A i \in DOMAIN blocks : \A e \in blocks[i].events : e.block = i

ASSUME ScopesAssumption ==
  \A sc \in Scopes : sc.records \subseteq Nat /\ Numbered(History(sc.history))

VARIABLES
  preps,             \* the stored preparations, oldest first
  caller,            \* the state of each running Prepare
  scope              \* bounds of this behaviour, chosen once

incomeVars == <<preps, caller>>
vars == <<chainVars, readVars, incomeVars, scope>>

NoCall == [stage |-> "idle", snapshot |-> {}, deadline |-> 0]

Init ==
  /\ scope \in Scopes
  /\ chain = History(scope.history)
  /\ mined = Len(chain)
  /\ finalized = Max({0, Len(chain) - Finality})
  /\ now = 0
  /\ ReadInit
  /\ preps = <<>>
  /\ caller = [c \in Callers |-> NoCall]

-----------------------------------------------------------------------------
(* Prepare                                                                 *)

distributions == {key \in DOMAIN rows["income"] : Len(key) = 1}

\* Mutant of finalBlock: any indexed block will do.
finalIndexed(b) == b <= Len(indexed)

finalBlock(b) == Len(indexed) >= Finality /\ b <= Len(indexed) - Finality

\* Up to the pinned snapshot.
BeginPrepare(c, recordBlock, total, deadline) ==
  /\ caller[c].stage = "idle"
  /\ deadline >= now + MinClaimWindow
  /\ active
  /\ finalBlock(recordBlock)
  /\ \E snapshot \in ComputeEntitlements(eventsOf(indexed), recordBlock, total) :
       caller' = [caller EXCEPT ![c] = [stage |-> "check", snapshot |-> {snapshot},
                                        deadline |-> deadline]]
  /\ UNCHANGED preps

\* ErrAlreadyDistributed for a snapshot with an indexed creation.
CheckDistributed(c) ==
  /\ caller[c].stage = "check"
  /\ caller' = [caller EXCEPT ![c] =
                  IF \E key \in distributions :
                       rows["income"][key].snapshotSha256 \in caller[c].snapshot
                    THEN NoCall ELSE [@ EXCEPT !.stage = "redate"]]
  /\ UNCHANGED preps

preparedAt(c) == {i \in DOMAIN preps : preps[i].snapshot \in caller[c].snapshot}

redatePreparation(c) ==
  preps' = [i \in DOMAIN preps |->
              IF i = Min(preparedAt(c))
                THEN [preps[i] EXCEPT !.claimDeadline = caller[c].deadline] ELSE preps[i]]

Redate(c) ==
  /\ caller[c].stage = "redate"
  /\ IF preparedAt(c) # {}
       THEN redatePreparation(c) /\ caller' = [caller EXCEPT ![c] = NoCall]
       ELSE UNCHANGED preps /\ caller' = [caller EXCEPT ![c].stage = "create"]

\* The unique index refuses a second preparation, which then dates the first.
Create(c) ==
  /\ caller[c].stage = "create"
  /\ IF preparedAt(c) # {}
       THEN redatePreparation(c)
       ELSE preps' = Append(preps, [snapshot |-> CHOOSE s \in caller[c].snapshot : TRUE,
                                    claimDeadline |-> caller[c].deadline])
  /\ caller' = [caller EXCEPT ![c] = NoCall]

\* The request is cancelled, or a call of it fails.
PrepareFails(c) ==
  /\ caller[c].stage # "idle"
  /\ caller' = [caller EXCEPT ![c] = NoCall]
  /\ UNCHANGED preps

-----------------------------------------------------------------------------
(* Reading                                                                 *)

statusOf(d) ==
  IF d.reclaimed THEN "Reclaimed" ELSE IF now > d.claimDeadline THEN "Expired" ELSE "Active"

claimStatus(id, account) ==
  LET d == rows["income"][<<id>>]
  IN  IF <<id, account>> \in DOMAIN rows["income"] THEN "Claimed"
      ELSE IF d.reclaimed \/ now > d.claimDeadline THEN "Expired"
      ELSE "Claimable"

\* The distributions of a preparation; List shows each of them, or the
\* preparation alone when there is none.
createdFrom(prep) ==
  IF active THEN {key[1] : key \in {k \in distributions :
                                     rows["income"][k].snapshotSha256 = prep.snapshot}}
  ELSE {}

\* One wallet's claims in the distributions of prepared snapshots.
ClaimsFor(account) ==
  UNION {LET entries == preps[i].snapshot.entries
             leaf == LeafHash(account, entries[account])
         IN  IF account \notin DOMAIN entries THEN {}
             ELSE {[id |-> id, amount |-> entries[account],
                    proof |-> Proof(TreeOf(preps[i].snapshot), leaf),
                    status |-> claimStatus(id, account)] : id \in createdFrom(preps[i])} :
         i \in DOMAIN preps}

-----------------------------------------------------------------------------
(* The chain, within the bounds of the behaviour                           *)

TokenCalls(st) ==
  {[op |-> op, amount |-> a] : op \in {"mint", "burn"}, a \in scope.amounts}
  \cup {[op |-> op, who |-> h, amount |-> a] :
         op \in {"buy", "request"}, h \in scope.holders, a \in scope.amounts}
  \cup {[op |-> "send", who |-> h, recipient |-> g, amount |-> a] :
         h \in scope.holders, g \in scope.holders, a \in scope.amounts \cup {0}}
  \cup {[op |-> op, id |-> id] :
         op \in {"fund", "complete", "reject", "cancel"}, id \in DOMAIN st.requests}

IncomeCalls(st) ==
  {[op |-> "create", snapshot |-> preps[i].snapshot, deadline |-> preps[i].claimDeadline] :
     i \in DOMAIN preps}
  \cup UNION {{[op |-> "claim", id |-> v.id, who |-> h, amount |-> v.amount, proof |-> v.proof] :
                v \in {x \in ClaimsFor(h) : x.status = "Claimable" /\ x.id \in DOMAIN st.claims}} :
              h \in scope.holders}
  \cup {[op |-> "extend", id |-> id, deadline |-> d] : id \in DOMAIN st.claims, d \in Deadlines}
  \cup {[op |-> "reclaim", id |-> id] : id \in DOMAIN st.claims}

accepted(st, call) ==
  CASE call.op = "mint" -> TRUE
    [] call.op \in {"buy", "burn"} -> call.amount <= st.balances[VaultAddr]
    [] call.op = "send" -> call.who # call.recipient /\ call.amount <= st.balances[call.who]
    [] call.op = "request" -> call.amount <= st.balances[call.who]
    [] call.op \in {"fund", "reject", "cancel"} -> st.requests[call.id].status = "Pending"
    [] call.op = "complete" -> st.requests[call.id].status = "Funded"
    [] call.op = "create" -> call.deadline >= now + MinClaimWindow
    [] call.op = "claim" -> claimAccepted(st, call.id, call.who, call.amount, call.proof)
    [] call.op = "extend" ->
         /\ ~st.distributions[call.id].reclaimed
         /\ call.deadline > Max({now, st.distributions[call.id].claimDeadline})
    [] call.op = "reclaim" ->
         now > st.distributions[call.id].claimDeadline /\ ~st.distributions[call.id].reclaimed

Chain ==
  /\ \/ /\ mined < scope.mined
        /\ \E call \in TokenCalls(stateOf(chain)) \cup IncomeCalls(stateOf(chain)) :
             call.op \in scope.calls /\ accepted(stateOf(chain), call) /\ Mine(call)
     \/ scope.reorgs /\ Reorg
     \/ now < scope.time /\ Tick
  /\ UNCHANGED <<readVars, incomeVars, scope>>

Reconcile(m) ==
  /\ m \in scope.models
  /\ PassStep(m)
  /\ UNCHANGED <<chainVars, incomeVars, scope>>

Disturb ==
  /\ faults < scope.faults
  /\ \/ \E m \in Models : PassFails(m)
     \/ "income" \in scope.models /\ \E b \in BOOLEAN : SetActive(b)
  /\ UNCHANGED <<chainVars, incomeVars, scope>>

IndexChain == scope.models # {} /\ Index /\ UNCHANGED <<chainVars, incomeVars, scope>>

PrepareStep(c) ==
  /\ c \in scope.callers
  /\ \/ \E b \in scope.records, total \in Totals, d \in scope.deadlines : BeginPrepare(c, b, total, d)
     \/ CheckDistributed(c)
     \/ Redate(c)
     \/ Create(c)
     \/ PrepareFails(c)
  /\ UNCHANGED <<chainVars, readVars, scope>>

Next ==
  \/ Chain
  \/ IndexChain
  \/ \E m \in Models : Reconcile(m)
  \/ Disturb
  \/ \E c \in Callers : PrepareStep(c)

\* The indexer polls and the tickers fire for ever; nothing else has to happen.
Fairness ==
  /\ WF_vars(IndexChain)
  /\ \A m \in Models : WF_vars(Reconcile(m))

Spec == Init /\ [][Next]_vars /\ Fairness

-----------------------------------------------------------------------------
(* Properties                                                              *)

due(st, a) ==
  LET rwaOf(id) == st.requests[id].rwaAmount
  IN  st.balances[a] + MapThenSumSet(rwaOf, {id \in DOMAIN st.requests :
                         /\ st.requests[id].beneficiary = a
                         /\ st.requests[id].status \in {"Pending", "Funded"}})

\* A snapshot gives every holder the share of the total that the contracts'
\* own state gives them: the whole units of total * due / sum of due.
Right(snapshot, st) ==
  LET dueOf(a) == due(st, a)
      all == MapThenSumSet(dueOf, Holders)
      paid(a) == IF a \in DOMAIN snapshot.entries THEN snapshot.entries[a] ELSE 0
  IN  \A a \in Holders :
        /\ paid(a) * all <= snapshot.total * due(st, a)
        /\ snapshot.total * due(st, a) < (paid(a) + 1) * all

\* From a complete history ComputeEntitlements finds the right shares, or
\* none when no share is a whole unit; from one that lacks the Transfer
\* events below some block (a deployment indexed before they were stored)
\* it finds the right shares or refuses.  (This and the next one are about
\* the chain alone: the behaviours without read models go through them.)
EntitlementsRight ==
  scope.models = {} =>
  LET b == Len(chain)
      all == eventsOf(chain)
      lacking(f) == {e \in all : e.name = "Transfer" => e.block >= f}
      st == stateOf(chain)
  IN  /\ \A t \in Totals :
           /\ \A f \in 1..b : \A s \in ComputeEntitlements(lacking(f), b, t) : Right(s, st)
           /\ ComputeEntitlements(all, b, t) = {} =>
                Right([total |-> t, entries |-> <<>>], st) \/ \A a \in Holders : due(st, a) = 0

\* Every leaf of a snapshot has a proof that the contract's fold accepts.
ProofsVerify ==
  scope.models = {} => \A t \in Totals : \A s \in ComputeEntitlements(eventsOf(chain), Len(chain), t) :
    \A a \in DOMAIN s.entries :
      LET leaf == LeafHash(a, s.entries[a])
      IN  VerifyProof(RootOf(s), leaf, Proof(TreeOf(s), leaf))

\* What the events up to any block give, none for a record block below the
\* first, is right in the contracts' state after that block.
SharesRight ==
  \A b \in 0..Len(chain), t \in Totals : \A s \in ComputeEntitlements(eventsOf(chain), b, t) :
    b \in DOMAIN chain /\ Right(s, chain[b].state)

\* A snapshot is right, also for an earlier block where snapshots are
\* prepared, and can be claimed from.
SnapshotsPay == EntitlementsRight /\ ProofsVerify /\ (scope.callers # {} => SharesRight)

\* A stored preparation stays right on the canonical chain, whatever is
\* reorganised after it was stored.
PreparedStaysRight ==
  \A i \in DOMAIN preps :
    LET b == preps[i].snapshot.recordBlock
    IN  b \in DOMAIN chain /\ Right(preps[i].snapshot, chain[b].state)

\* While the rows are those of the canonical chain's events, a claim served as Claimable is
\* one the contract accepts with the served proof, any other it refuses, and
\* a distribution is Active exactly while it can be claimed from.
ServedClaimsHold ==
  active /\ rows["income"] = build("income", named(eventsOf(chain), ToSet(IncomeNames))) =>
    LET st == stateOf(chain)
    IN  /\ \A h \in Holders : \A v \in ClaimsFor(h) :
             (v.status = "Claimable") <=> claimAccepted(st, v.id, h, v.amount, v.proof)
        /\ \A id \in DOMAIN st.claims :
             (statusOf(rows["income"][<<id>>]) = "Active")
               <=> (now <= st.distributions[id].claimDeadline)

\* Once the chain and the deployment stay, every read model comes to agree
\* with the contracts and stays so.
EventuallySynced == <>[](\A m \in scope.models : Synced(m))
=============================================================================
