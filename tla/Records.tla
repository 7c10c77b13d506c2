------------------------------ MODULE Records ------------------------------
(***************************************************************************)
(* Asset records and burns on the server (assets/service.go, burn.go,      *)
(* projector.go): they are created and published, reissued, and follow the *)
(* Minted and Burned events of the SupplyController that the indexer has   *)
(* stored.                                                                 *)
(*                                                                         *)
(* Requests prepare a burn under the service's mutex, which they hold      *)
(* until it is published and stored.  The read-model passes do not take    *)
(* it: ReconcileMinted replaces the records it listed without a condition, *)
(* ReconcileBurned and both reissues replace by version.  A version only   *)
(* grows for burns, so reading and conditionally replacing one is a single *)
(* step: a conflict leaves the burn as it is until the next attempt.       *)
(***************************************************************************)
EXTENDS Publication

CONSTANTS
    Callers,                       \* requests that may be served at once
    RecordIds, BurnIds,            \* PubIds is their union; a burn's content is its id
    recordAmount,                  \* amount of a record
    BurnAmounts,                   \* amounts that may be asked for
    attestationValidUntilWindow,
    Horizon                        \* last moment of a behaviour

(* A burn's id is a fresh UUID; no record is named after one.              *)
ASSUME RecordsAssumption ==
    /\ RecordIds \cap BurnIds = {} /\ PubIds = RecordIds \cup BurnIds
    /\ IsFiniteSet(BurnIds) /\ BurnAmounts \subseteq Nat
    /\ recordAmount \in Nat /\ attestationValidUntilWindow \in Nat \ {0}

VARIABLES
    clock,
    records,     \* asset records, {} when there is none
    burns,       \* burns, {} when there is none
    serving,     \* the creation or reissue each caller has under way
    mined,       \* mints and burns the chain has executed, with their transaction
    indexed,     \* the Minted and Burned events in the event store
    minting,     \* the records ReconcileMinted is going to replace
    burning,     \* the events ReconcileBurned has listed and the burns it goes over
    late         \* history: a burn was executed without holding its reservation

recVars == <<clock, records, burns, serving, mined, indexed, minting, burning, late>>
vars == <<pubVars, recVars>>

Get(coll, k) == CHOOSE d \in coll[k] : TRUE
NoPass == [events |-> {}, todo |-> {}]

Init ==
    /\ PubInit
    /\ clock = 0
    /\ records = [r \in RecordIds |-> {}] /\ burns = [b \in BurnIds |-> {}]
    /\ serving = [q \in Callers |-> {}]
    /\ mined = {} /\ indexed = {}
    /\ minting = {} /\ burning = NoPass
    /\ late = FALSE

Serve(q, doing) == serving[q] = {} /\ serving' = [serving EXCEPT ![q] = {doing}]
Answer(q) == serving' = [serving EXCEPT ![q] = {}]
Locked == \E q \in Callers : \E t \in serving[q] : t.kind = "burn"

-----------------------------------------------------------------------------
(* Records.                                                                *)

NewAssetRecord(cid) ==
    [status |-> "Pending", cid |-> cid, txHash |-> 0, version |-> 0,
     validUntil |-> clock + attestationValidUntilWindow]

(* Mutant: the document is written whether or not there is one. *)
ReserveAlways(r) == TRUE

(* The record id is reserved by creating the document. *)
Reserve(r) == records[r] = {}

CreateRecord(q, r, cid) ==
    /\ Reserve(r)
    /\ records' = [records EXCEPT ![r] = {NewAssetRecord(cid)}]
    /\ Serve(q, [kind |-> "record", id |-> r, cid |-> cid, begun |-> FALSE])
    /\ UNCHANGED <<pubVars, clock, burns, mined, indexed, minting, burning, late>>

(* Creation of a record or a burn goes on to publish its metadata.  The    *)
(* record stays when that fails; the burn has not been stored yet.         *)
BeginPublish(q) ==
    \E t \in serving[q] :
        /\ t.kind # "reissue" /\ ~t.begun
        /\ \/ Publish(t.id, t.cid) /\ serving' = [serving EXCEPT ![q] = {[t EXCEPT !.begun = TRUE]}]
           \/ Answer(q) /\ UNCHANGED pubVars             \* refused, or the local node fails
        /\ UNCHANGED <<clock, records, burns, mined, indexed, minting, burning, late>>

StoreBurn(t) == IF t.kind = "burn" THEN burns' = [burns EXCEPT ![t.id] = {t.burn}] ELSE UNCHANGED burns

(* A burn is stored when its metadata was published everywhere. *)
EndPublish(q) ==
    \E t \in serving[q], good \in SUBSET Nodes :
        /\ t.kind # "reissue" /\ t.begun
        /\ replicate(good)
        /\ IF good = Nodes THEN StoreBurn(t) ELSE UNCHANGED burns
        /\ Answer(q)
        /\ UNCHANGED <<clock, records, mined, indexed, minting, burning, late>>

(* The request ends without writing the publication or the burn. *)
Interrupted(q) ==
    \E t \in serving[q] :
        /\ IF t.kind # "reissue" /\ t.begun THEN GivesUp("request") ELSE UNCHANGED pubVars
        /\ Answer(q)
        /\ UNCHANGED <<clock, records, burns, mined, indexed, minting, burning, late>>

(* ReissueRecord reads the record and replaces it by version. *)
ReadRecord(q, r) ==
    /\ Happens
    /\ \E d \in records[r] :
        d.status = "Pending" /\ Serve(q, [kind |-> "reissue", id |-> r, doc |-> d])
    /\ UNCHANGED <<pubs, stored, work, clock, records, burns, mined, indexed, minting, burning, late>>

ReissueRecord(q) ==
    \E t \in serving[q] :
        /\ t.kind = "reissue"
        /\ records' = IF Get(records, t.id).version # t.doc.version THEN records
                      ELSE [records EXCEPT ![t.id] = {[t.doc EXCEPT !.version = @ + 1,
                                                          !.validUntil = clock + attestationValidUntilWindow]}]
        /\ Answer(q)
        /\ UNCHANGED <<pubVars, clock, burns, mined, indexed, minting, burning, late>>

-----------------------------------------------------------------------------
(* Burns.                                                                  *)

Reserved(d) == d.status = "Burned" \/ d.validUntil > clock

(* What the burns in bs burn together, as the number of the units. *)
TotalAmount(bs) == Cardinality(UNION {{b} \X (1..Get(burns, b).amount) : b \in bs})

Remaining(r, skip) ==
    recordAmount - TotalAmount({b \in BurnIds \ skip : \E d \in burns[b] : d.record = r /\ Reserved(d)})

NewBurn(r, amount) ==
    [status |-> "Pending", record |-> r, amount |-> amount, txHash |-> 0,
     validUntil |-> clock + attestationValidUntilWindow]

Fresh(b) == b \in scope.burns /\ burns[b] = {} /\ pubs[b] = {} /\ \A q \in Callers : \A t \in serving[q] : t.id # b

(* Mutant: the service's mutex is not taken. *)
CreateBurnUnlocked(q, b, r, amount) ==
    /\ Fresh(b)
    /\ \E d \in records[r] : d.status = "Minted"
    /\ amount <= Remaining(r, {})
    /\ Serve(q, [kind |-> "burn", id |-> b, cid |-> b, begun |-> FALSE, burn |-> NewBurn(r, amount)])
    /\ UNCHANGED <<pubVars, clock, records, burns, mined, indexed, minting, burning, late>>

CreateBurn(q, b, r, amount) ==
    /\ ~Locked
    /\ Fresh(b)
    /\ \E d \in records[r] : d.status = "Minted"
    /\ amount <= Remaining(r, {})
    /\ Serve(q, [kind |-> "burn", id |-> b, cid |-> b, begun |-> FALSE, burn |-> NewBurn(r, amount)])
    /\ UNCHANGED <<pubVars, clock, records, burns, mined, indexed, minting, burning, late>>

ReissueBurn(b) ==
    /\ Happens
    /\ ~Locked
    /\ \E d \in burns[b] :
        /\ d.status # "Burned"
        /\ d.amount <= Remaining(d.record, {b})
        /\ burns' = [burns EXCEPT ![b] = {[d EXCEPT !.validUntil = clock + attestationValidUntilWindow]}]
    /\ UNCHANGED <<pubs, stored, work, clock, records, serving, mined, indexed, minting, burning, late>>

-----------------------------------------------------------------------------
(* The chain and the event store.  Whatever was issued is taken to be      *)
(* signed; the SupplyController executes each record key and each          *)
(* operation id once, up to and including validUntil.                      *)

Executes(k, d) ==
    /\ k \in scope.executed
    /\ clock <= d.validUntil
    /\ \A e \in mined : e.key # k
    /\ mined' = mined \cup {[key |-> k, tx |-> events]}

Mint(r) ==
    /\ \E d \in records[r] : Executes(r, d)
    /\ UNCHANGED <<pubVars, clock, records, burns, serving, indexed, minting, burning, late>>

Burn(b) ==
    /\ \E d \in burns[b] : Executes(b, d) /\ late' = (late \/ d.validUntil <= clock)
    /\ UNCHANGED <<pubVars, clock, records, burns, serving, indexed, minting, burning>>

Reorg(e) ==
    /\ Happens
    /\ e \in mined
    /\ mined' = mined \ {e}
    /\ UNCHANGED <<pubs, stored, work, clock, records, burns, serving, indexed, minting, burning, late>>

Index ==
    /\ indexed # mined
    /\ indexed' = mined
    /\ UNCHANGED <<pubVars, clock, records, burns, serving, mined, minting, burning, late>>

ExecutedBurn(b) == \E e \in mined : e.key = b

(* A burn that was executed in time loses its reservation when it expires  *)
(* before it is marked, or after a pass found its event gone.              *)
Unreserved == \E b \in BurnIds : \E d \in burns[b] : ExecutedBurn(b) /\ ~Reserved(d)

Tick ==
    /\ clock < Horizon
    /\ clock' = clock + 1
    /\ UNCHANGED <<pubVars, records, burns, serving, mined, indexed, minting, burning>>
    /\ late' = (late \/ Unreserved')

-----------------------------------------------------------------------------
(* ReconcileMinted lists the events and the records, ...                   *)

EventOf(k, evs) == {e \in evs : e.key = k}

Promoted(r) ==
    UNION {{[id |-> r, doc |-> [d EXCEPT !.status = "Minted", !.txHash = e.tx]] :
                d \in {c \in records[r] : c.status # "Minted"}} : e \in EventOf(r, indexed)}
Demoted(r) ==
    {[id |-> r, doc |-> [d EXCEPT !.status = "Signed", !.txHash = 0]] :
        d \in {c \in records[r] : c.status = "Minted" /\ EventOf(r, indexed) = {}}}
OutOfDate == UNION {Promoted(r) \cup Demoted(r) : r \in RecordIds}

ListMinted ==
    /\ minting = {} /\ OutOfDate # {}
    /\ minting' = OutOfDate
    /\ UNCHANGED <<pubVars, clock, records, burns, serving, mined, indexed, burning, late>>

(* ... and replaces each record that is out of date as it listed it. *)
ReconcileMinted ==
    /\ \E m \in minting : minting' = minting \ {m} /\ records' = [records EXCEPT ![m.id] = {m.doc}]
    /\ UNCHANGED <<pubVars, clock, burns, serving, mined, indexed, burning, late>>

(* Mutant: a burn that is already marked keeps its transaction's hash. *)
BurnStatusOnce(d, evs) ==
    IF evs = {} THEN (IF d.status = "Burned" THEN [d EXCEPT !.status = "Pending", !.txHash = 0] ELSE d)
    ELSE IF d.status = "Burned" THEN d
    ELSE [d EXCEPT !.status = "Burned", !.txHash = (CHOOSE e \in evs : TRUE).tx]

(* ReconcileBurned lists the events and goes over the burns. *)
BurnStatus(d, evs) ==
    IF evs = {} THEN (IF d.status = "Burned" THEN [d EXCEPT !.status = "Pending", !.txHash = 0] ELSE d)
    ELSE [d EXCEPT !.status = "Burned", !.txHash = (CHOOSE e \in evs : TRUE).tx]

Differing(evs) == {b \in BurnIds : \E d \in burns[b] : BurnStatus(d, EventOf(b, evs)) # d}

ListBurned ==
    /\ burning = NoPass /\ Differing(indexed) # {}
    /\ burning' = [events |-> indexed, todo |-> BurnIds]
    /\ UNCHANGED <<pubVars, clock, records, burns, serving, mined, indexed, minting, late>>

ReconcileBurned ==
    /\ \E b \in burning.todo :
        /\ burns' = [burns EXCEPT ![b] = {BurnStatus(d, EventOf(b, burning.events)) : d \in @}]
        /\ burning' = IF burning.todo = {b} THEN NoPass ELSE [burning EXCEPT !.todo = @ \ {b}]
    /\ UNCHANGED <<pubVars, clock, records, serving, mined, indexed, minting>>
    /\ late' = (late \/ Unreserved')

-----------------------------------------------------------------------------

Request ==
    \E q \in Callers :
        \/ \E r \in RecordIds, cid \in scope.contents : CreateRecord(q, r, cid)
        \/ \E b \in BurnIds, r \in RecordIds, amount \in BurnAmounts : CreateBurn(q, b, r, amount)
        \/ BeginPublish(q)
        \/ EndPublish(q)
        \/ Interrupted(q)
        \/ \E r \in RecordIds : ReadRecord(q, r)
        \/ ReissueRecord(q)

Pass == ListMinted \/ ReconcileMinted \/ ListBurned \/ ReconcileBurned

Next ==
    \/ Request
    \/ \E b \in BurnIds : ReissueBurn(b) \/ Burn(b)
    \/ \E r \in RecordIds : Mint(r)
    \/ \E e \in mined : Reorg(e)
    \/ Index
    \/ Tick
    \/ Pass
    \/ Upkeep /\ UNCHANGED recVars

(* The indexer and the read-model tickers run for ever. *)
Spec ==
    /\ Init /\ [][Next]_vars
    /\ WF_vars(Index)
    /\ WF_vars(ListMinted) /\ WF_vars(ReconcileMinted)
    /\ WF_vars(ListBurned) /\ WF_vars(ReconcileBurned)
    /\ UpkeepFairness

-----------------------------------------------------------------------------

ExecutedFor(r) == {b \in BurnIds : ExecutedBurn(b) /\ \E d \in burns[b] : d.record = r}

(* What the chain burns against a record never exceeds the record's        *)
(* amount, although the server only counts reservations, as long as no     *)
(* burn was executed whose reservation had ended or ends before the burn   *)
(* is marked.  It is about CreateBurn, ReissueBurn and Remaining.          *)
BurnsWithinRecord ==
    ~late => \A r \in RecordIds : TotalAmount(ExecutedFor(r)) <= recordAmount

(* The publication of a record or a burn is of its own metadata: of two    *)
(* requests for one id only the one that reserved it publishes.  It is     *)
(* about CreateRecord reserving the id before it publishes.                *)
PublishedMatches ==
    \A i \in PubIds : \A p \in pubs[i] :
        /\ i \in RecordIds => \A d \in records[i] : d.cid = p.cid
        /\ i \in BurnIds => p.cid = i

(* Once the chain and the requests settle, records and burns agree with    *)
(* the chain, whatever reorganisations, reissues and stale listings came   *)
(* before.  It is about ReconcileMinted and ReconcileBurned.               *)
StatusesAgree ==
    <>[](/\ \A r \in RecordIds : \A d \in records[r] : (d.status = "Minted") <=> (EventOf(r, mined) # {})
         /\ \A b \in BurnIds : \A d \in burns[b] :
                /\ (d.status = "Burned") <=> (EventOf(b, mined) # {})
                /\ \A e \in EventOf(b, mined) : d.txHash = e.tx)
=============================================================================
