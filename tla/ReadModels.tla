----------------------------- MODULE ReadModels -----------------------------
(***************************************************************************)
(* The collections rebuilt from indexed events: redemption requests,       *)
(* purchases, and income distributions with their claims (the Reconcile    *)
(* functions of server/internal/redemption, sales and income, started by   *)
(* the tickers of server/cmd/platform/main.go).  A pass lists the events   *)
(* name by name, upserts every row it derives under a fresh generation and *)
(* then deletes the rows of other generations; it may fail anywhere.  The  *)
(* leader lease lets one pass of a model run at a time, provided that a    *)
(* pass ends within the lease, which is not renewed.  The indexer is that  *)
(* of the module Indexer, reduced to its promise: the store holds the      *)
(* events of some chain that was canonical.                                *)
(***************************************************************************)
EXTENDS ChainHistory

CONSTANT Models      \* the read models that run

Names == [redemptions |-> RedemptionNames, purchases |-> <<"Purchased">>, income |-> IncomeNames]

ASSUME ModelsAssumption == Models \subseteq DOMAIN Names

VARIABLES
  indexed,           \* the blocks whose events are stored
  active,            \* the project is an Active rwa-v3 deployment
  rows,              \* the rows of each model, by key
  pass,              \* the running pass of each model
  faults             \* failures of passes and changes of the deployment so far

readVars == <<indexed, active, rows, pass, faults>>

Idle == [stage |-> "idle", names |-> <<>>, events |-> {}, build |-> <<>>, fresh |-> {}, left |-> {}]

\* Income keeps two collections, distributions and claims, in this order.
Collections(m) == IF m = "income" THEN {1, 2} ELSE {1}

collection(m, key) == IF m = "income" THEN Len(key) ELSE 1

ReadInit ==
  /\ indexed = chain
  /\ active = TRUE
  /\ rows = [m \in Models |-> <<>>]
  /\ pass = [m \in Models |-> Idle]
  /\ faults = 0

\* The indexer catches up with the chain, rolling back what was reorganised.
Index ==
  /\ indexed # chain
  /\ indexed' = chain
  /\ UNCHANGED <<active, rows, pass, faults>>

\* The deployment is demoted, or adopted again.
SetActive(b) ==
  /\ active # b
  /\ active' = b
  /\ faults' = faults + 1
  /\ UNCHANGED <<indexed, rows, pass>>

build(m, events) ==
  CASE m = "redemptions" -> BuildStates(events)
    [] m = "purchases" -> BuildPurchases(events)
    [] m = "income" -> BuildDistributions(events)

\* runAsReconcilerLeader: the tick is skipped while a pass holds the lease.
BeginPass(m) ==
  /\ pass[m].stage = "idle"
  /\ pass' = [pass EXCEPT ![m] =
                IF m = "income" /\ ~active
                  THEN [Idle EXCEPT !.stage = "upsert", !.left = Collections(m)]
                  ELSE [Idle EXCEPT !.stage = "list", !.names = Names[m]]]
  /\ UNCHANGED <<indexed, active, rows, faults>>

\* ListByName for the next name; the rows are derived after the last one.
ListEvents(m) ==
  LET events == pass[m].events \cup named(eventsOf(indexed), {Head(pass[m].names)})
  IN  /\ pass[m].stage = "list"
      /\ pass' = [pass EXCEPT ![m] =
                    IF Len(@.names) > 1
                      THEN [@ EXCEPT !.names = Tail(@), !.events = events]
                      ELSE [Idle EXCEPT !.stage = "upsert", !.left = Collections(m),
                                        !.build = build(m, events)]]
      /\ UNCHANGED <<indexed, active, rows, faults>>

Upsert(m, key) ==
  LET pending == DOMAIN pass[m].build \ pass[m].fresh
  IN  /\ pass[m].stage = "upsert"
      /\ key \in pending
      /\ \A k \in pending : collection(m, key) <= collection(m, k)
      /\ rows' = [rows EXCEPT ![m] = (key :> pass[m].build[key]) @@ @]
      /\ pass' = [pass EXCEPT ![m].fresh = @ \cup {key}]
      /\ UNCHANGED <<indexed, active, faults>>

\* Mutant of DeleteStaleGeneration: the rows of other generations stay.
DeleteNothing(m, c) == UNCHANGED rows

DeleteStaleGeneration(m, c) ==
  rows' = [rows EXCEPT ![m] =
             Restrict(@, {key \in DOMAIN @ : collection(m, key) = c => key \in pass[m].fresh})]

Prunable(m) == pass[m].stage = "upsert" /\ DOMAIN pass[m].build = pass[m].fresh

Prune(m) ==
  /\ Prunable(m)
  /\ DeleteStaleGeneration(m, Min(pass[m].left))
  /\ pass' = [pass EXCEPT ![m] = IF Cardinality(@.left) = 1 THEN Idle
                                 ELSE [@ EXCEPT !.left = @ \ {Min(@)}]]
  /\ UNCHANGED <<indexed, active, faults>>

\* A repository call fails or the server stops; what was written stays.
PassFails(m) ==
  /\ pass[m].stage # "idle"
  /\ pass' = [pass EXCEPT ![m] = Idle]
  /\ faults' = faults + 1
  /\ UNCHANGED <<indexed, active, rows>>

PassStep(m) ==
  \/ BeginPass(m)
  \/ ListEvents(m)
  \/ \E key \in DOMAIN pass[m].build : Upsert(m, key)
  \/ Prune(m)

-----------------------------------------------------------------------------
\* What the contracts' state says the rows should be.
Actual(m, st) ==
  CASE m = "redemptions" -> [id \in DOMAIN st.requests |-> st.requests[id]]
    [] m = "purchases" ->
         [key \in {<<st.purchases[i].tx, 2>> : i \in DOMAIN st.purchases} |->
            LET i == CHOOSE j \in DOMAIN st.purchases : st.purchases[j].tx = key[1]
            IN  [buyer |-> st.purchases[i].buyer, tokenAmount |-> st.purchases[i].tokenAmount]]
    [] m = "income" ->
         [key \in {<<id>> : id \in DOMAIN st.distributions}
                  \cup UNION {{<<id, a>> : a \in st.claims[id]} : id \in DOMAIN st.claims} |->
            IF Len(key) = 2
              THEN st.distributions[key[1]].snapshot.entries[key[2]]
              ELSE LET d == st.distributions[key[1]]
                   IN  [merkleRoot |-> RootOf(d.snapshot), snapshotSha256 |-> d.snapshot,
                        claimDeadline |-> Min({d.claimDeadline, MaxInt64}),
                        claimed |-> d.claimed, reclaimed |-> d.reclaimed]]

Synced(m) ==
  rows[m] = IF m = "income" /\ ~active THEN <<>> ELSE Actual(m, stateOf(chain))
=============================================================================
