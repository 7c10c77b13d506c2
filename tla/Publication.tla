---------------------------- MODULE Publication ----------------------------
(***************************************************************************)
(* Publication of metadata on the local IPFS node and its backups          *)
(* (server/internal/ipfs).  Each of the manager's operations reads the     *)
(* publication's record, calls the nodes and writes the record back as a   *)
(* whole.  One operation of each actor may be under way: a request that    *)
(* publishes, the server's periodic Verify and a command of opsctl.        *)
(*                                                                         *)
(* A CID is the content it names: AddRaw returns the content's own CID, so *)
(* a node either holds the content or has lost or damaged it.  A call to a *)
(* node may always fail.                                                   *)
(***************************************************************************)
EXTENDS Integers, FiniteSets

CONSTANTS
    PubIds,         \* publication ids
    CIDs,           \* contents
    Backups,        \* configured backup destinations
    threshold,      \* verified backups that count as replicated
    Scopes          \* bounds: faults and operator's requests, whether publications are kept up

ASSUME PublicationAssumption == threshold \in Nat /\ "local" \notin Backups

VARIABLES
    pubs,      \* the ipfs_publications collection
    stored,    \* what each node holds intact
    work,      \* operations under way
    scope,     \* the bounds of this behaviour
    events     \* faults and operator's requests so far

used == <<scope, events>>
pubVars == <<pubs, stored, work, used>>

Nodes == Backups \cup {"local"}
Actors == {"request", "ticker", "opsctl"}

(* A record lists the destinations that were tried and the verified ones. *)
NewRecord(cid) == [cid |-> cid, state |-> "Created", listed |-> {}, verified |-> {}]

PubInit ==
    /\ pubs = [i \in PubIds |-> {}]
    /\ stored = [d \in Nodes |-> {}]
    /\ work = [a \in Actors |-> {}]
    /\ scope \in Scopes /\ events = 0

Happens == events < scope.events /\ events' = events + 1 /\ UNCHANGED scope

replicationState(succeeded) ==
    CASE threshold <= 0 -> "Replicated"
      [] Cardinality(succeeded) >= threshold -> "Replicated"
      [] succeeded # {} \/ Backups = {} -> "ReplicationPending"
      [] OTHER -> "ReplicationFailed"

(* The result of trying some destinations, of which good verified. *)
Tried(rec, dests, good) ==
    [rec EXCEPT !.listed = @ \cup dests, !.verified = (@ \ dests) \cup good]

Adds(dests, cid) == stored' = [d \in Nodes |-> IF d \in dests THEN stored[d] \cup {cid} ELSE stored[d]]
Upsert(i, rec) == pubs' = [pubs EXCEPT ![i] = {rec}]

Begins(a, op, i, rec) == work[a] = {} /\ work' = [work EXCEPT ![a] = {[op |-> op, id |-> i, rec |-> rec]}]
Ends(a) == work' = [work EXCEPT ![a] = {}]

-----------------------------------------------------------------------------
(* Publish, called for records and burns.  The id stays bound to one CID.  *)

Loaded(i, cid) == IF pubs[i] = {} THEN NewRecord(cid) ELSE CHOOSE rec \in pubs[i] : TRUE

(* The local node takes the content; the record is loaded afterwards. *)
Publish(i, cid) ==
    /\ Loaded(i, cid).cid = cid
    /\ Begins("request", "publish", i, Loaded(i, cid))
    /\ Adds({"local"}, cid)
    /\ UNCHANGED <<pubs, used>>

(* A failure at the local node stops before the backups. *)
replicate(good) ==
    \E t \in work["request"] :
        LET all == "local" \in good
            rec == Tried(t.rec, IF all THEN Nodes ELSE {"local"}, good)
        IN  /\ all \/ good = {}
            /\ Upsert(t.id, [rec EXCEPT !.state = IF all THEN replicationState(good \ {"local"}) ELSE "Created"])
            /\ Adds(good, t.rec.cid)
            /\ Ends("request")
            /\ UNCHANGED used

-----------------------------------------------------------------------------
(* Verify, Retry and RestoreLocal begin by reading the record.             *)

BeginVerify(i) ==
    /\ \E rec \in pubs[i] : Begins("ticker", "verify", i, rec)
    /\ UNCHANGED <<pubs, stored, used>>

(* opsctl ipfs retry and restore-local. *)
BeginCommand(op, i) ==
    /\ Happens
    /\ \E rec \in pubs[i] : Begins("opsctl", op, i, rec)
    /\ UNCHANGED <<pubs, stored>>

Holders(t) == {d \in Nodes : t.rec.cid \in stored[d]}

(* Mutant: a destination that fails stays verified. *)
VerifyKeeping ==
    \E t \in work["ticker"] :
        LET good == t.rec.verified \cup (t.rec.listed \cap Holders(t))
        IN  /\ Upsert(t.id, [Tried(t.rec, t.rec.listed, good) EXCEPT !.state = replicationState(good \ {"local"})])
            /\ Ends("ticker")
            /\ UNCHANGED <<stored, used>>

(* Every destination the record lists is read again. *)
Verify ==
    \E t \in work["ticker"] :
        LET good == t.rec.listed \cap Holders(t)
        IN  /\ Upsert(t.id, [Tried(t.rec, t.rec.listed, good) EXCEPT !.state = replicationState(good \ {"local"})])
            /\ Ends("ticker")
            /\ UNCHANGED <<stored, used>>

(* Backups that are not verified are added again. *)
Retry ==
    \E t \in work["opsctl"] : \E good \in SUBSET (Backups \ t.rec.verified) :
        LET rec == Tried(t.rec, Backups \ t.rec.verified, good)
        IN  /\ t.op = "retry"
            /\ Upsert(t.id, [rec EXCEPT !.state = replicationState(rec.verified \cap Backups)])
            /\ Adds(good, t.rec.cid)
            /\ Ends("opsctl")
            /\ UNCHANGED used

(* The local copy is taken from a backup that still has it. *)
RestoreLocal ==
    \E t \in work["opsctl"] : \E good \in SUBSET {"local"} :
        /\ t.op = "restore" /\ Holders(t) \cap Backups # {}
        /\ Upsert(t.id, Tried(t.rec, {"local"}, good))
        /\ Adds(good, t.rec.cid)
        /\ Ends("opsctl")
        /\ UNCHANGED used

(* A call fails, or the process ends, before the record is written. *)
GivesUp(a) ==
    /\ work[a] # {}
    /\ Ends(a)
    /\ UNCHANGED <<pubs, stored, used>>

(* A node loses or damages its copy. *)
Lose(d, cid) ==
    /\ Happens
    /\ cid \in stored[d]
    /\ stored' = [stored EXCEPT ![d] = @ \ {cid}]
    /\ UNCHANGED <<pubs, work>>

Upkeep ==
    \/ scope.upkeep /\ \E i \in PubIds : BeginVerify(i) \/ BeginCommand("retry", i) \/ BeginCommand("restore", i)
    \/ Verify
    \/ Retry
    \/ RestoreLocal
    \/ GivesUp("opsctl")
    \/ scope.upkeep /\ \E d \in Nodes, cid \in CIDs : Lose(d, cid)

(* The ticker goes over all publications for ever, one after the other. *)
UpkeepFairness == WF_pubVars(Verify) /\ \A i \in PubIds : SF_pubVars(scope.upkeep /\ BeginVerify(i))

-----------------------------------------------------------------------------
(* Once no more copies are lost, a publication that is shown as replicated *)
(* has its copies: the periodic Verify notices a loss even when an         *)
(* operation that had read the record earlier writes the old state back.   *)
LossNoticed ==
    <>[](\A i \in PubIds : \A rec \in pubs[i] :
            rec.state = "Replicated" => Cardinality({b \in Backups : rec.cid \in stored[b]}) >= threshold)
=============================================================================
