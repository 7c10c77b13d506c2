---------------------------- MODULE RecordsProofs ----------------------------
(***************************************************************************)
(* Records and burns of the server: the publication of an id is always of  *)
(* the id's own metadata, and what the chain burns against a record stays  *)
(* within the record's amount.                                             *)
(*                                                                         *)
(* The first rests on Bounded: whatever is stored, being written or about  *)
(* to be written for an id carries the CID the id was reserved for.  The   *)
(* second rests on Within: the burns that still can be executed, those     *)
(* that were, and the one being created fit into the record together.      *)
(***************************************************************************)
EXTENDS Records, FiniteSetTheorems, TLAPS

-----------------------------------------------------------------------------
(* Sums of amounts, counted in units.                                      *)

Units(bs, f) == UNION {{b} \X (1..f[b]) : b \in bs}

LEMMA UnitsFinite ==
  ASSUME NEW bs, NEW f, IsFiniteSet(bs), \A b \in bs : f[b] \in Nat
  PROVE  IsFiniteSet(Units(bs, f)) /\ Cardinality(Units(bs, f)) \in Nat
<1> DEFINE S == {{b} \X (1..f[b]) : b \in bs}
           g == [b \in bs |-> {b} \X (1..f[b])]
<1>1. g \in Surjection(bs, S)
  BY DEF Surjection
<1>2. IsFiniteSet(S)
  BY <1>1, FS_Surjection
<1>3. \A T \in S : IsFiniteSet(T)
  <2>1. ASSUME NEW b \in bs PROVE IsFiniteSet({b} \X (1..f[b]))
    <3>1. IsFiniteSet({b})
      BY FS_Singleton
    <3>2. IsFiniteSet(1..f[b])
      <4>1. f[b] \in Int
        OBVIOUS
      <4> QED  BY <4>1, FS_Interval
    <3> QED  BY <3>1, <3>2, FS_Product
  <2> QED  BY <2>1
<1>4. IsFiniteSet(UNION S)
  BY <1>2, <1>3, FS_UNION
<1> QED  BY <1>4, FS_CardinalityType DEF Units

\* More burns, of the same amounts, burn no less.
LEMMA UnitsGrow ==
  ASSUME NEW bs, NEW cs, NEW f, NEW g,
         IsFiniteSet(cs), bs \subseteq cs, \A b \in cs : f[b] \in Nat, \A b \in bs : g[b] = f[b]
  PROVE  Cardinality(Units(bs, g)) <= Cardinality(Units(cs, f))
<1>1. Units(bs, g) \subseteq Units(cs, f)
  BY DEF Units
<1> QED  BY <1>1, UnitsFinite, FS_Subset

\* One burn more adds its amount.
LEMMA UnitsAdd ==
  ASSUME NEW bs, NEW f, IsFiniteSet(bs), NEW b, b \notin bs, \A c \in bs \cup {b} : f[c] \in Nat
  PROVE  Cardinality(Units(bs \cup {b}, f)) = Cardinality(Units(bs, f)) + f[b]
<1> DEFINE own == {b} \X (1..f[b])
<1>1. Units(bs \cup {b}, f) = Units(bs, f) \cup own
  BY DEF Units
<1>2. IsFiniteSet(Units(bs, f)) /\ Cardinality(Units(bs, f)) \in Nat
  BY UnitsFinite
<1>3. IsFiniteSet(own) /\ Cardinality(own) = f[b]
  <2>1. IsFiniteSet({b}) /\ Cardinality({b}) = 1
    BY FS_Singleton
  <2>2. IsFiniteSet(1..f[b]) /\ Cardinality(1..f[b]) = f[b]
    BY FS_Interval
  <2> QED  BY <2>1, <2>2, FS_Product
<1>4. Units(bs, f) \cap own = {}
  BY DEF Units
<1>5. Cardinality(Units(bs, f) \cup own) = Cardinality(Units(bs, f)) + f[b]
  BY <1>2, <1>3, <1>4, FS_Union, FS_EmptySet
<1> QED  BY <1>1, <1>5

-----------------------------------------------------------------------------
(* What is written for an id carries the CID the id was reserved for.      *)

PubFields == {"cid", "state", "listed", "verified"}
RecordFields == {"status", "cid", "txHash", "version", "validUntil"}
BurnFields == {"status", "record", "amount", "txHash", "validUntil"}
CreationFields == {"kind", "id", "cid", "begun"}

IsPub(p) == p = [f \in PubFields |-> p[f]]
IsRecord(d) == d = [f \in RecordFields |-> d[f]]
IsBurn(d) ==
    /\ d = [f \in BurnFields |-> d[f]]
    /\ d.record \in RecordIds /\ d.amount \in Nat /\ d.validUntil \in Int
IsTask(t) ==
    \/ t.kind = "record" /\ t = [f \in CreationFields |-> t[f]]
    \/ t.kind = "burn" /\ t = [f \in CreationFields \cup {"burn"} |-> t[f]] /\ IsBurn(t.burn)
    \/ t.kind = "reissue" /\ IsRecord(t.doc)

\* Id i is reserved for the CID c.
Bound(i, c) ==
    /\ i \in PubIds
    /\ i \in RecordIds => records[i] # {} /\ \A d \in records[i] : d.cid = c
    /\ i \in BurnIds => c = i

CidOf(t) == IF t.kind = "reissue" THEN t.doc.cid ELSE t.cid

PubBounded ==
    /\ pubs = [i \in PubIds |-> pubs[i]] /\ work = [a \in Actors |-> work[a]]
    /\ \A i \in PubIds : \A p \in pubs[i] : IsPub(p) /\ Bound(i, p.cid)
    /\ \A a \in Actors : \A t \in work[a] : IsPub(t.rec) /\ Bound(t.id, t.rec.cid)

TaskBounded ==
    /\ serving = [q \in Callers |-> serving[q]]
    /\ \A q \in Callers : \A t \in serving[q] : IsTask(t) /\ Bound(t.id, CidOf(t))

RecordBounded ==
    /\ records = [r \in RecordIds |-> records[r]]
    /\ \A r \in RecordIds : \A d \in records[r] : IsRecord(d) /\ Bound(r, d.cid)
    /\ \A m \in minting : m.id \in RecordIds /\ IsRecord(m.doc) /\ Bound(m.id, m.doc.cid)

BurnShapes ==
    /\ clock \in Int
    /\ burns = [b \in BurnIds |-> burns[b]]
    /\ \A b \in BurnIds : burns[b] = {} \/ \E d : burns[b] = {d} /\ IsBurn(d)

\* No step frees an id or gives it another CID.
Kept == \A i, c : Bound(i, c) => Bound(i, c)'

LEMMA SameRecords == UNCHANGED records => Kept
BY DEF Kept, Bound

LEMMA SameCids ==
  ASSUME \A r \in RecordIds : records[r] # {} =>
            \E d \in records[r] : records'[r] # {} /\ \A e \in records'[r] : e.cid = d.cid
  PROVE  Kept
BY DEF Kept, Bound

LEMMA FieldSet ==
  ASSUME NEW p, IsPub(p), NEW g \in PubFields \ {"cid"}, NEW v
  PROVE  IsPub([p EXCEPT ![g] = v]) /\ [p EXCEPT ![g] = v].cid = p.cid
BY DEF IsPub, PubFields

LEMMA PubsKept ==
  ASSUME PubBounded, Kept, UNCHANGED <<pubs, work>>
  PROVE  PubBounded'
BY DEF PubBounded, Kept

\* An operation reads a publication and writes it back with its CID.
LEMMA PubBegins ==
  ASSUME PubBounded, Kept, UNCHANGED pubs,
         NEW a \in Actors, NEW op, NEW i, NEW rec, IsPub(rec), Bound(i, rec.cid), Begins(a, op, i, rec)
  PROVE  PubBounded'
<1>1. work' = [work EXCEPT ![a] = {[op |-> op, id |-> i, rec |-> rec]}]
  BY DEF Begins
<1>2. work' = [x \in Actors |-> work'[x]]
  BY <1>1 DEF PubBounded
<1>3. ASSUME NEW x \in Actors, NEW t \in work'[x]
      PROVE  IsPub(t.rec) /\ Bound(t.id, t.rec.cid)'
  <2>1. CASE x = a
    <3>1. t.id = i /\ t.rec = rec
      BY <1>1, <1>3, <2>1 DEF PubBounded
    <3> QED  BY <3>1 DEF Kept
  <2>2. CASE x # a
    BY <1>1, <1>3, <2>2 DEF PubBounded, Kept
  <2> QED  BY <2>1, <2>2
<1>4. \A j \in PubIds : \A p \in pubs'[j] : IsPub(p) /\ Bound(j, p.cid)'
  BY DEF PubBounded, Kept
<1>5. pubs' = [j \in PubIds |-> pubs'[j]]
  BY DEF PubBounded
<1> QED  BY <1>2, <1>3, <1>4, <1>5 DEF PubBounded

LEMMA PubWrites ==
  ASSUME PubBounded, Kept, NEW a \in Actors, NEW i, NEW rec, IsPub(rec), Bound(i, rec.cid),
         Upsert(i, rec), Ends(a)
  PROVE  PubBounded'
<1>1. pubs' = [pubs EXCEPT ![i] = {rec}] /\ work' = [work EXCEPT ![a] = {}]
  BY DEF Upsert, Ends
<1>2. pubs' = [j \in PubIds |-> pubs'[j]] /\ work' = [x \in Actors |-> work'[x]]
  BY <1>1 DEF PubBounded
<1>3. \A j \in PubIds : \A p \in pubs'[j] : IsPub(p) /\ Bound(j, p.cid)'
  BY <1>1 DEF PubBounded, Kept
<1>4. \A x \in Actors : \A t \in work'[x] : IsPub(t.rec) /\ Bound(t.id, t.rec.cid)'
  BY <1>1 DEF PubBounded, Kept
<1> QED  BY <1>2, <1>3, <1>4 DEF PubBounded

LEMMA TriedWrites ==
  ASSUME PubBounded, Kept, NEW a \in Actors, NEW i, NEW old, IsPub(old), Bound(i, old.cid),
         NEW dests, NEW good, NEW st, Ends(a),
         \/ Upsert(i, Tried(old, dests, good))
         \/ Upsert(i, [Tried(old, dests, good) EXCEPT !.state = st])
  PROVE  PubBounded'
<1>1. {"listed", "verified", "state"} \subseteq PubFields \ {"cid"}
  BY DEF PubFields
<1>2. PICK l, v : Tried(old, dests, good) = [[old EXCEPT !["listed"] = l] EXCEPT !["verified"] = v]
  BY DEF Tried
<1>3. PICK m : m = [old EXCEPT !["listed"] = l]
  OBVIOUS
<1>4. PICK n : n = [m EXCEPT !["verified"] = v]
  OBVIOUS
<1>5. PICK o : o = [n EXCEPT !["state"] = st]
  OBVIOUS
<1>6. IsPub(m) /\ m.cid = old.cid
  BY <1>1, <1>3, FieldSet
<1>7. IsPub(n) /\ n.cid = old.cid
  BY <1>1, <1>4, <1>6, FieldSet
<1>8. IsPub(o) /\ o.cid = old.cid
  BY <1>1, <1>5, <1>7, FieldSet
<1>9. Tried(old, dests, good) = n
  BY <1>2, <1>3, <1>4
<1>10. Upsert(i, n) \/ Upsert(i, o)
  BY <1>5, <1>9
<1> QED  BY <1>7, <1>8, <1>10, PubWrites

LEMMA PubDrops ==
  ASSUME PubBounded, Kept, NEW a \in Actors, UNCHANGED pubs, Ends(a)
  PROVE  PubBounded'
<1>1. work' = [work EXCEPT ![a] = {}]
  BY DEF Ends
<1>2. pubs' = [j \in PubIds |-> pubs'[j]] /\ work' = [x \in Actors |-> work'[x]]
  BY <1>1 DEF PubBounded
<1>3. \A j \in PubIds : \A p \in pubs'[j] : IsPub(p) /\ Bound(j, p.cid)'
  BY <1>1 DEF PubBounded, Kept
<1>4. \A x \in Actors : \A t \in work'[x] : IsPub(t.rec) /\ Bound(t.id, t.rec.cid)'
  BY <1>1 DEF PubBounded, Kept
<1> QED  BY <1>2, <1>3, <1>4 DEF PubBounded

LEMMA UpkeepBounded ==
  ASSUME PubBounded, Kept, Upkeep
  PROVE  PubBounded'
<1> USE DEF Actors
<1>1. ASSUME NEW i \in PubIds, BeginVerify(i)
      PROVE  PubBounded'
  <2>1. PICK rec \in pubs[i] : Begins("ticker", "verify", i, rec)
    BY <1>1 DEF BeginVerify
  <2>2. IsPub(rec) /\ Bound(i, rec.cid)
    BY DEF PubBounded
  <2> QED  BY <1>1, <2>1, <2>2, PubBegins DEF BeginVerify
<1>2. ASSUME NEW i \in PubIds, NEW op, BeginCommand(op, i)
      PROVE  PubBounded'
  <2>1. PICK rec \in pubs[i] : Begins("opsctl", op, i, rec)
    BY <1>2 DEF BeginCommand
  <2>2. IsPub(rec) /\ Bound(i, rec.cid)
    BY DEF PubBounded
  <2> QED  BY <1>2, <2>1, <2>2, PubBegins DEF BeginCommand
<1>3. ASSUME Verify
      PROVE  PubBounded'
  <2>1. PICK t \in work["ticker"] : \E good, st :
          Upsert(t.id, [Tried(t.rec, t.rec.listed, good) EXCEPT !.state = st]) /\ Ends("ticker")
    BY <1>3 DEF Verify
  <2>2. IsPub(t.rec) /\ Bound(t.id, t.rec.cid)
    BY DEF PubBounded
  <2> QED  BY <2>1, <2>2, TriedWrites
<1>4. ASSUME Retry
      PROVE  PubBounded'
  <2>1. PICK t \in work["opsctl"] : \E dests, good, st :
          Upsert(t.id, [Tried(t.rec, dests, good) EXCEPT !.state = st]) /\ Ends("opsctl")
    BY <1>4 DEF Retry
  <2>2. IsPub(t.rec) /\ Bound(t.id, t.rec.cid)
    BY DEF PubBounded
  <2> QED  BY <2>1, <2>2, TriedWrites
<1>5. ASSUME RestoreLocal
      PROVE  PubBounded'
  <2>1. PICK t \in work["opsctl"] : \E good : Upsert(t.id, Tried(t.rec, {"local"}, good)) /\ Ends("opsctl")
    BY <1>5 DEF RestoreLocal
  <2>2. IsPub(t.rec) /\ Bound(t.id, t.rec.cid)
    BY DEF PubBounded
  <2> QED  BY <2>1, <2>2, TriedWrites
<1>6. ASSUME GivesUp("opsctl")
      PROVE  PubBounded'
  BY <1>6, PubDrops DEF GivesUp
<1>7. ASSUME NEW d \in Nodes, NEW cid \in CIDs, Lose(d, cid)
      PROVE  PubBounded'
  BY <1>7, PubsKept DEF Lose
<1> QED  BY <1>1, <1>2, <1>3, <1>4, <1>5, <1>6, <1>7 DEF Upkeep

\* Publishing under way comes from a request that was checked against the id.
LEMMA PublishBounded ==
  ASSUME PubBounded, Kept, NEW i, NEW cid, Bound(i, cid), Publish(i, cid)
  PROVE  PubBounded'
<1>1. Loaded(i, cid).cid = cid /\ Begins("request", "publish", i, Loaded(i, cid)) /\ UNCHANGED pubs
  BY DEF Publish
<1>2. PICK rec : rec = Loaded(i, cid)
  OBVIOUS
<1>3. IsPub(rec)
  <2>1. CASE pubs[i] = {}
    BY <1>2, <2>1 DEF Loaded, NewRecord, IsPub, PubFields
  <2>2. CASE pubs[i] # {}
    <3>1. rec \in pubs[i]
      BY <1>2, <2>2 DEF Loaded
    <3> QED  BY <3>1 DEF PubBounded, Bound
  <2> QED  BY <2>1, <2>2
<1> QED  BY <1>1, <1>2, <1>3, PubBegins DEF Actors

LEMMA ReplicateBounded ==
  ASSUME PubBounded, Kept, NEW good, replicate(good)
  PROVE  PubBounded'
<1>1. PICK t \in work["request"] : \E dests, st :
        Upsert(t.id, [Tried(t.rec, dests, good) EXCEPT !.state = st]) /\ Ends("request")
  BY DEF replicate
<1>2. IsPub(t.rec) /\ Bound(t.id, t.rec.cid)
  BY DEF PubBounded, Actors
<1> QED  BY <1>1, <1>2, TriedWrites DEF Actors

LEMMA TasksKept ==
  ASSUME TaskBounded, Kept, UNCHANGED serving
  PROVE  TaskBounded'
BY DEF TaskBounded, Kept

LEMMA TasksEnd ==
  ASSUME TaskBounded, Kept, NEW q \in Callers, Answer(q)
  PROVE  TaskBounded'
<1>1. serving' = [p \in Callers |-> serving'[p]] /\ \A p \in Callers : serving'[p] \subseteq serving[p]
  BY DEF TaskBounded, Answer
<1> QED  BY <1>1 DEF TaskBounded, Kept

LEMMA TasksBecome ==
  ASSUME TaskBounded, Kept, NEW q \in Callers, NEW t, IsTask(t), Bound(t.id, CidOf(t))',
         serving' = [serving EXCEPT ![q] = {t}]
  PROVE  TaskBounded'
<1>1. serving' = [p \in Callers |-> serving'[p]]
  BY DEF TaskBounded
<1>2. ASSUME NEW p \in Callers, NEW u \in serving'[p]
      PROVE  IsTask(u) /\ Bound(u.id, CidOf(u))'
  <2>1. CASE p = q
    <3>1. u = t
      BY <1>2, <2>1 DEF TaskBounded
    <3> QED  BY <3>1
  <2>2. CASE p # q
    BY <1>2, <2>2 DEF TaskBounded, Kept
  <2> QED  BY <2>1, <2>2
<1> QED  BY <1>1, <1>2 DEF TaskBounded

LEMMA RecordsKept ==
  ASSUME RecordBounded, Kept, UNCHANGED records, minting' \subseteq minting
  PROVE  RecordBounded'
BY DEF RecordBounded, Kept

\* A record is written under the CID it is bound to.
LEMMA RecordsWrite ==
  ASSUME RecordBounded, NEW r \in RecordIds, NEW d, IsRecord(d), Bound(r, d.cid),
         records' = [records EXCEPT ![r] = {d}], minting' \subseteq minting
  PROVE  Kept /\ RecordBounded'
<1>1. \A s \in RecordIds : records'[s] = IF s = r THEN {d} ELSE records[s]
  BY DEF RecordBounded
<1>2. Kept
  <2>1. ASSUME NEW s \in RecordIds, records[s] # {}
        PROVE  \E e \in records[s] : records'[s] # {} /\ \A x \in records'[s] : x.cid = e.cid
    <3>1. CASE s = r
      BY <1>1, <2>1, <3>1 DEF Bound
    <3>2. CASE s # r
      BY <1>1, <2>1, <3>2 DEF Bound, RecordBounded
    <3> QED  BY <3>1, <3>2
  <2> QED  BY <2>1, SameCids
<1>3. records' = [s \in RecordIds |-> records'[s]]
  BY DEF RecordBounded
<1>4. ASSUME NEW s \in RecordIds, NEW e \in records'[s]
      PROVE  IsRecord(e) /\ Bound(s, e.cid)'
  <2>1. CASE s = r
    BY <1>1, <1>2, <1>4, <2>1 DEF Kept
  <2>2. CASE s # r
    BY <1>1, <1>2, <1>4, <2>2 DEF Kept, RecordBounded
  <2> QED  BY <2>1, <2>2
<1>5. \A m \in minting' : m.id \in RecordIds /\ IsRecord(m.doc) /\ Bound(m.id, m.doc.cid)'
  BY <1>2 DEF Kept, RecordBounded
<1> QED  BY <1>2, <1>3, <1>4, <1>5 DEF RecordBounded

\* Creating a record takes an id that nothing is bound to.
LEMMA RecordCreated ==
  ASSUME RecordBounded, NEW q \in Callers, NEW r \in RecordIds, NEW cid, CreateRecord(q, r, cid)
  PROVE  Kept /\ RecordBounded' /\ Bound(r, cid)'
<1>1. PICK d : d = NewAssetRecord(cid)
  OBVIOUS
<1>2. IsRecord(d) /\ d.cid = cid
  BY <1>1 DEF IsRecord, RecordFields, NewAssetRecord
<1>3. records[r] = {} /\ records' = [records EXCEPT ![r] = {d}] /\ minting' = minting
  BY <1>1 DEF CreateRecord, Reserve
<1>4. \A s \in RecordIds : records'[s] = IF s = r THEN {d} ELSE records[s]
  BY <1>3 DEF RecordBounded
<1>5. Kept
  BY <1>3, <1>4 DEF Kept, Bound
<1>6. Bound(r, cid)'
  BY <1>2, <1>4, RecordsAssumption DEF Bound
<1>7. records' = [s \in RecordIds |-> records'[s]]
  BY <1>3 DEF RecordBounded
<1>8. ASSUME NEW s \in RecordIds, NEW e \in records'[s]
      PROVE  IsRecord(e) /\ Bound(s, e.cid)'
  <2>1. CASE s = r
    BY <1>2, <1>4, <1>6, <1>8, <2>1
  <2>2. CASE s # r
    BY <1>4, <1>5, <1>8, <2>2 DEF Kept, RecordBounded
  <2> QED  BY <2>1, <2>2
<1>9. \A m \in minting' : m.id \in RecordIds /\ IsRecord(m.doc) /\ Bound(m.id, m.doc.cid)'
  BY <1>3, <1>5 DEF Kept, RecordBounded
<1> QED  BY <1>5, <1>6, <1>7, <1>8, <1>9 DEF RecordBounded

LEMMA BegunForm ==
  ASSUME NEW t, IsTask(t), t.kind # "reissue", NEW u, u = [t EXCEPT !.begun = TRUE]
  PROVE  /\ IsTask(u) /\ u.kind = t.kind /\ u.id = t.id /\ CidOf(u) = CidOf(t)
         /\ t.kind = "burn" => u.burn = t.burn
<1>1. CASE t.kind = "record"
  <2>1. t = [f \in CreationFields |-> t[f]]
    BY <1>1 DEF IsTask
  <2>2. /\ u = [f \in CreationFields |-> u[f]]
        /\ u.kind = t.kind /\ u.id = t.id /\ u.cid = t.cid
    BY <2>1 DEF CreationFields
  <2> QED  BY <1>1, <2>2 DEF IsTask, CidOf
<1>2. CASE t.kind = "burn"
  <2>1. t = [f \in CreationFields \cup {"burn"} |-> t[f]] /\ IsBurn(t.burn)
    BY <1>2 DEF IsTask
  <2>2. /\ u = [f \in CreationFields \cup {"burn"} |-> u[f]]
        /\ u.kind = t.kind /\ u.id = t.id /\ u.cid = t.cid /\ u.burn = t.burn
    BY <2>1 DEF CreationFields
  <2> QED  BY <1>2, <2>1, <2>2 DEF IsTask, CidOf
<1> QED  BY <1>1, <1>2 DEF IsTask

LEMMA SettableFields == {"status", "txHash", "version", "validUntil"} \subseteq RecordFields \ {"cid"}
BY DEF RecordFields

LEMMA RecordFieldSet ==
  ASSUME NEW d, IsRecord(d), NEW g \in RecordFields \ {"cid"}, NEW v
  PROVE  IsRecord([d EXCEPT ![g] = v]) /\ [d EXCEPT ![g] = v].cid = d.cid
BY DEF IsRecord, RecordFields

CidsBounded == PubBounded /\ TaskBounded /\ RecordBounded

LEMMA RequestCids ==
  ASSUME CidsBounded, BurnShapes, Request
  PROVE  CidsBounded'
<1> USE DEF CidsBounded
<1>1. ASSUME NEW q \in Callers, NEW r \in RecordIds, NEW cid, CreateRecord(q, r, cid)
      PROVE  CidsBounded'
  <2>1. Kept /\ RecordBounded' /\ Bound(r, cid)'
    BY <1>1, RecordCreated
  <2>2. PICK t : t = [kind |-> "record", id |-> r, cid |-> cid, begun |-> FALSE]
    OBVIOUS
  <2>3. serving' = [serving EXCEPT ![q] = {t}]
    BY <1>1, <2>2 DEF CreateRecord, Serve
  <2>4. IsTask(t) /\ Bound(t.id, CidOf(t))'
    BY <2>1, <2>2 DEF IsTask, CreationFields, CidOf
  <2>5. TaskBounded'
    BY <2>1, <2>3, <2>4, TasksBecome
  <2>6. PubBounded'
    BY <1>1, <2>1, PubsKept DEF CreateRecord, pubVars
  <2> QED  BY <2>1, <2>5, <2>6
<1>2. ASSUME NEW q \in Callers, NEW b \in BurnIds, NEW r \in RecordIds, NEW amount \in BurnAmounts,
             CreateBurn(q, b, r, amount)
      PROVE  CidsBounded'
  <2>1. Kept /\ RecordBounded' /\ PubBounded'
    BY <1>2, SameRecords, RecordsKept, PubsKept DEF CreateBurn, pubVars
  <2>2. PICK n : n = NewBurn(r, amount)
    OBVIOUS
  <2>3. PICK t : t = [kind |-> "burn", id |-> b, cid |-> b, begun |-> FALSE, burn |-> n]
    OBVIOUS
  <2>4. serving' = [serving EXCEPT ![q] = {t}]
    BY <1>2, <2>2, <2>3 DEF CreateBurn, Serve
  <2>5. IsBurn(n)
    BY <2>2, RecordsAssumption DEF IsBurn, BurnFields, NewBurn, BurnShapes
  <2>6. IsTask(t)
    BY <2>3, <2>5 DEF IsTask, CreationFields
  <2>7. Bound(t.id, CidOf(t))'
    BY <2>3, RecordsAssumption DEF CidOf, Bound
  <2> QED  BY <2>1, <2>4, <2>6, <2>7, TasksBecome
<1>3. ASSUME NEW q \in Callers, BeginPublish(q)
      PROVE  CidsBounded'
  <2>1. PICK t \in serving[q] :
          /\ t.kind # "reissue"
          /\ \/ Publish(t.id, t.cid) /\ serving' = [serving EXCEPT ![q] = {[t EXCEPT !.begun = TRUE]}]
             \/ Answer(q) /\ UNCHANGED pubVars
    BY <1>3 DEF BeginPublish
  <2>2. Kept /\ RecordBounded'
    BY <1>3, SameRecords, RecordsKept DEF BeginPublish
  <2>3. IsTask(t) /\ Bound(t.id, t.cid)
    BY <2>1 DEF TaskBounded, CidOf
  <2>4. CASE Publish(t.id, t.cid) /\ serving' = [serving EXCEPT ![q] = {[t EXCEPT !.begun = TRUE]}]
    <3>1. PubBounded'
      BY <2>2, <2>3, <2>4, PublishBounded
    <3>2. PICK u : u = [t EXCEPT !.begun = TRUE]
      OBVIOUS
    <3>3. IsTask(u) /\ u.id = t.id /\ CidOf(u) = t.cid
      BY <2>1, <2>3, <3>2, BegunForm DEF CidOf
    <3>4. Bound(u.id, CidOf(u))'
      BY <2>2, <2>3, <3>3 DEF Kept
    <3> QED  BY <2>2, <2>4, <3>1, <3>2, <3>3, <3>4, TasksBecome
  <2>5. CASE Answer(q) /\ UNCHANGED pubVars
    BY <2>2, <2>5, TasksEnd, PubsKept DEF pubVars
  <2> QED  BY <2>1, <2>4, <2>5
<1>4. ASSUME NEW q \in Callers, EndPublish(q)
      PROVE  CidsBounded'
  <2>1. PICK good : replicate(good)
    BY <1>4 DEF EndPublish
  <2>2. Kept /\ RecordBounded'
    BY <1>4, SameRecords, RecordsKept DEF EndPublish
  <2>3. Answer(q)
    BY <1>4 DEF EndPublish
  <2> QED  BY <2>1, <2>2, <2>3, TasksEnd, ReplicateBounded
<1>5. ASSUME NEW q \in Callers, Interrupted(q)
      PROVE  CidsBounded'
  <2>1. Kept /\ RecordBounded' /\ Answer(q)
    BY <1>5, SameRecords, RecordsKept DEF Interrupted
  <2>2. GivesUp("request") \/ UNCHANGED pubVars
    BY <1>5 DEF Interrupted
  <2>3. PubBounded'
    BY <2>1, <2>2, PubDrops, PubsKept DEF GivesUp, pubVars, Actors
  <2> QED  BY <2>1, <2>3, TasksEnd
<1>6. ASSUME NEW q \in Callers, NEW r \in RecordIds, ReadRecord(q, r)
      PROVE  CidsBounded'
  <2>1. Kept /\ RecordBounded' /\ PubBounded'
    BY <1>6, SameRecords, RecordsKept, PubsKept DEF ReadRecord
  <2>2. PICK d \in records[r] : Serve(q, [kind |-> "reissue", id |-> r, doc |-> d])
    BY <1>6 DEF ReadRecord
  <2>3. PICK t : t = [kind |-> "reissue", id |-> r, doc |-> d]
    OBVIOUS
  <2>4. serving' = [serving EXCEPT ![q] = {t}]
    BY <2>2, <2>3 DEF Serve
  <2>5. IsTask(t) /\ Bound(t.id, CidOf(t))
    BY <2>2, <2>3 DEF IsTask, CidOf, RecordBounded
  <2>6. Bound(t.id, CidOf(t))'
    BY <2>1, <2>5 DEF Kept
  <2> QED  BY <2>1, <2>4, <2>5, <2>6, TasksBecome
<1>7. ASSUME NEW q \in Callers, ReissueRecord(q)
      PROVE  CidsBounded'
  <2>1. PICK t \in serving[q] : t.kind = "reissue" /\ ReissueRecord(q)!(t)
    BY <1>7 DEF ReissueRecord
  <2>2. PICK v, w :
          records' = records \/ records' = [records EXCEPT ![t.id] =
                                    {[[t.doc EXCEPT !["version"] = v] EXCEPT !["validUntil"] = w]}]
    <3>1. PICK v, w : v = t.doc.version + 1 /\ w = clock + attestationValidUntilWindow
      OBVIOUS
    <3> QED  BY <2>1, <3>1
  <2>3. IsTask(t) /\ Bound(t.id, t.doc.cid)
    BY <2>1 DEF TaskBounded, CidOf
  <2>4. IsRecord(t.doc)
    BY <2>1, <2>3 DEF IsTask
  <2>5. minting' = minting /\ Answer(q) /\ UNCHANGED <<pubs, work>>
    BY <1>7 DEF ReissueRecord, pubVars
  <2>6. CASE records' = records
    BY <2>5, <2>6, SameRecords, RecordsKept, TasksEnd, PubsKept
  <2>7. CASE records' # records
    <3>1. PICK c : c = [t.doc EXCEPT !["version"] = v]
      OBVIOUS
    <3>2. PICK e : e = [c EXCEPT !["validUntil"] = w]
      OBVIOUS
    <3>3. IsRecord(c) /\ c.cid = t.doc.cid
      BY <2>4, <3>1, RecordFieldSet, SettableFields
    <3>4. IsRecord(e) /\ e.cid = t.doc.cid
      BY <3>2, <3>3, RecordFieldSet, SettableFields
    <3>5. records' = [records EXCEPT ![t.id] = {e}]
      BY <2>2, <2>7, <3>1, <3>2
    <3>6. t.id \in RecordIds
      BY <2>7, <3>5 DEF RecordBounded
    <3>7. Kept /\ RecordBounded'
      BY <2>3, <2>5, <3>4, <3>5, <3>6, RecordsWrite
    <3> QED  BY <2>5, <3>7, TasksEnd, PubsKept
  <2> QED  BY <2>6, <2>7
<1> QED  BY <1>1, <1>2, <1>3, <1>4, <1>5, <1>6, <1>7 DEF Request

LEMMA PassCids ==
  ASSUME CidsBounded, Pass
  PROVE  CidsBounded'
<1> USE DEF CidsBounded
<1>1. CASE ListMinted
  <2>1. Kept /\ PubBounded' /\ TaskBounded'
    BY <1>1, SameRecords, PubsKept, TasksKept DEF ListMinted, pubVars
  <2>2. ASSUME NEW m \in minting'
        PROVE  m.id \in RecordIds /\ IsRecord(m.doc) /\ Bound(m.id, m.doc.cid)
    <3>1. PICK r \in RecordIds : m \in Promoted(r) \/ m \in Demoted(r)
      BY <1>1, <2>2 DEF ListMinted, OutOfDate
    <3>2. PICK d \in records[r] : \E v, w :
             m = [id |-> r, doc |-> [[d EXCEPT !["status"] = v] EXCEPT !["txHash"] = w]]
      <4>1. CASE m \in Promoted(r)
        <5>1. PICK e \in EventOf(r, indexed) :
                m \in {[id |-> r, doc |-> [d EXCEPT !.status = "Minted", !.txHash = e.tx]] :
                         d \in {c \in records[r] : c.status # "Minted"}}
          BY <4>1 DEF Promoted
        <5>2. PICK d \in records[r] : m = [id |-> r, doc |-> [d EXCEPT !.status = "Minted", !.txHash = e.tx]]
          BY <5>1
        <5> QED  BY <5>2
      <4>2. CASE m \in Demoted(r)
        <5>1. PICK d \in records[r] : m = [id |-> r, doc |-> [d EXCEPT !.status = "Signed", !.txHash = 0]]
          BY <4>2 DEF Demoted
        <5> QED  BY <5>1
      <4> QED  BY <3>1, <4>1, <4>2
    <3>3. PICK v, w : m = [id |-> r, doc |-> [[d EXCEPT !["status"] = v] EXCEPT !["txHash"] = w]]
      BY <3>2
    <3>4. IsRecord(d) /\ Bound(r, d.cid)
      BY DEF RecordBounded
    <3>5. PICK c : c = [d EXCEPT !["status"] = v]
      OBVIOUS
    <3>6. PICK e : e = [c EXCEPT !["txHash"] = w]
      OBVIOUS
    <3>7. IsRecord(c) /\ c.cid = d.cid
      BY <3>4, <3>5, RecordFieldSet, SettableFields
    <3>8. IsRecord(e) /\ e.cid = d.cid
      BY <3>6, <3>7, RecordFieldSet, SettableFields
    <3>9. m.id = r /\ m.doc = e
      BY <3>3, <3>5, <3>6
    <3> QED  BY <3>4, <3>8, <3>9
  <2>3. records' = records
    BY <1>1 DEF ListMinted
  <2> QED  BY <2>1, <2>2, <2>3 DEF RecordBounded, Kept
<1>2. CASE ReconcileMinted
  <2>1. PICK m \in minting : minting' = minting \ {m} /\ records' = [records EXCEPT ![m.id] = {m.doc}]
    BY <1>2 DEF ReconcileMinted
  <2>2. m.id \in RecordIds /\ IsRecord(m.doc) /\ Bound(m.id, m.doc.cid)
    BY DEF RecordBounded
  <2>3. Kept /\ RecordBounded'
    BY <2>1, <2>2, RecordsWrite
  <2> QED  BY <1>2, <2>3, PubsKept, TasksKept DEF ReconcileMinted, pubVars
<1>3. CASE ListBurned
  BY <1>3, SameRecords, RecordsKept, PubsKept, TasksKept DEF ListBurned, pubVars
<1>4. CASE ReconcileBurned
  BY <1>4, SameRecords, RecordsKept, PubsKept, TasksKept DEF ReconcileBurned, pubVars
<1> QED  BY <1>1, <1>2, <1>3, <1>4 DEF Pass

LEMMA CidsStep ==
  ASSUME CidsBounded, BurnShapes, [Next]_vars
  PROVE  CidsBounded'
<1>1. ASSUME UNCHANGED <<records, minting, serving, pubs, work>>
      PROVE  CidsBounded'
  BY <1>1, SameRecords, RecordsKept, PubsKept, TasksKept DEF CidsBounded
<1>2. ASSUME NEW b \in BurnIds, ReissueBurn(b) \/ Burn(b)
      PROVE  CidsBounded'
  BY <1>1, <1>2 DEF ReissueBurn, Burn, pubVars
<1>3. ASSUME NEW r \in RecordIds, Mint(r)
      PROVE  CidsBounded'
  BY <1>1, <1>3 DEF Mint, pubVars
<1>4. ASSUME NEW e, Reorg(e)
      PROVE  CidsBounded'
  BY <1>1, <1>4 DEF Reorg
<1>5. CASE Index
  BY <1>1, <1>5 DEF Index, pubVars
<1>6. CASE Tick
  BY <1>1, <1>6 DEF Tick, pubVars
<1>7. CASE Upkeep /\ UNCHANGED recVars
  BY <1>7, SameRecords, RecordsKept, TasksKept, UpkeepBounded DEF CidsBounded, recVars
<1>8. CASE UNCHANGED vars
  BY <1>1, <1>8 DEF vars, pubVars, recVars
<1> QED  BY <1>2, <1>3, <1>4, <1>5, <1>6, <1>7, <1>8, RequestCids, PassCids DEF Next

-----------------------------------------------------------------------------
(* The burns of a record.                                                  *)

\* The burns against r that were executed or can still be.
LiveFor(r) ==
    {b \in BurnIds : \E d \in burns[b] : d.record = r /\ (ExecutedBurn(b) \/ d.validUntil > clock)}

IsCreation(t) == t.kind = "burn"

\* At most one burn is being created, under an id that has none.
OneCreated ==
    /\ \A p, q \in Callers : \A t \in serving[p], u \in serving[q] :
          IsCreation(t) /\ IsCreation(u) => p = q
    /\ \A q \in Callers : \A t \in serving[q] : IsCreation(t) => t.id \in BurnIds /\ burns[t.id] = {}

ExecutedStored == \A b \in BurnIds : ExecutedBurn(b) => burns[b] # {}

ExecutedHeld ==
    ~late => \A b \in BurnIds : ExecutedBurn(b) => \A d \in burns[b] : Reserved(d)

Within ==
    ~late => \A r \in RecordIds :
        /\ TotalAmount(LiveFor(r)) <= recordAmount
        /\ \A q \in Callers : \A t \in serving[q] :
              IsCreation(t) /\ t.burn.record = r => TotalAmount(LiveFor(r)) + t.burn.amount <= recordAmount

Reservations == BurnShapes /\ OneCreated /\ ExecutedStored /\ ExecutedHeld /\ Within

amounts == [b \in BurnIds |-> Get(burns, b).amount]

LEMMA TotalUnits ==
  ASSUME NEW bs, bs \subseteq BurnIds
  PROVE  TotalAmount(bs) = Cardinality(Units(bs, amounts))
<1>1. Units(bs, amounts) = UNION {{b} \X (1..Get(burns, b).amount) : b \in bs}
  BY DEF Units, amounts
<1> QED  BY <1>1 DEF TotalAmount

LEMMA BurnOf ==
  ASSUME BurnShapes, NEW b \in BurnIds, NEW d \in burns[b]
  PROVE  burns[b] = {d} /\ IsBurn(d) /\ Get(burns, b) = d /\ amounts[b] = d.amount
BY DEF BurnShapes, Get, amounts

\* When the burns that count become no more, neither does their sum.
LEMMA TotalShrinks ==
  ASSUME BurnShapes, BurnShapes',
         NEW bs, NEW cs, cs \subseteq BurnIds, bs \subseteq cs,
         \A b \in cs : burns[b] # {}, \A b \in bs : burns'[b] # {},
         \A b \in bs : \A d \in burns[b], e \in burns'[b] : d.amount = e.amount
  PROVE  TotalAmount(bs)' <= TotalAmount(cs)
<1>1. PICK f, g : f = amounts /\ g = amounts'
  OBVIOUS
<1>2. \A b \in cs : f[b] \in Nat
  BY <1>1, BurnOf DEF IsBurn
<1>3. \A b \in bs : g[b] = f[b]
  <2>1. ASSUME NEW b \in bs PROVE amounts'[b] = amounts[b]
    <3>1. PICK d \in burns[b], e \in burns'[b] : TRUE
      OBVIOUS
    <3>2. burns[b] = {d} /\ amounts[b] = d.amount
      BY BurnOf
    <3>3. \A x : burns'[b] = {x} => x = e
      BY <3>1
    <3>4. burns'[b] = {e}
      BY <3>3 DEF BurnShapes
    <3>5. amounts'[b] = e.amount
      BY <3>4 DEF amounts, Get
    <3> QED  BY <3>1, <3>2, <3>5
  <2> QED  BY <1>1, <2>1
<1>4. IsFiniteSet(cs)
  BY FS_Subset, RecordsAssumption
<1>5. Cardinality(Units(bs, g)) <= Cardinality(Units(cs, f))
  BY <1>2, <1>3, <1>4, UnitsGrow
<1>6. TotalAmount(cs) = Cardinality(Units(cs, f))
  BY <1>1, TotalUnits
<1>7. TotalAmount(bs)' = Cardinality(Units(bs, g))
  <2>1. Units(bs, amounts') = UNION {{b} \X (1..Get(burns', b).amount) : b \in bs}
    BY DEF Units, amounts, Get
  <2> QED  BY <1>1, <2>1 DEF TotalAmount, Get
<1> QED  BY <1>5, <1>6, <1>7

LEMMA TotalNat ==
  ASSUME BurnShapes, NEW cs, cs \subseteq BurnIds, \A b \in cs : burns[b] # {}
  PROVE  TotalAmount(cs) \in Nat
<1>1. PICK f : f = amounts
  OBVIOUS
<1>2. \A b \in cs : f[b] \in Nat
  BY <1>1, BurnOf DEF IsBurn
<1>3. IsFiniteSet(cs)
  BY FS_Subset, RecordsAssumption
<1> QED  BY <1>1, <1>2, <1>3, UnitsFinite, TotalUnits

LEMMA TotalGrows ==
  ASSUME BurnShapes, NEW bs, NEW cs, bs \subseteq cs, cs \subseteq BurnIds, \A b \in cs : burns[b] # {}
  PROVE  TotalAmount(bs) <= TotalAmount(cs)
<1>1. PICK f : f = amounts
  OBVIOUS
<1>2. \A b \in cs : f[b] \in Nat
  BY <1>1, BurnOf DEF IsBurn
<1>3. IsFiniteSet(cs) /\ bs \subseteq BurnIds
  BY FS_Subset, RecordsAssumption
<1>4. Cardinality(Units(bs, f)) <= Cardinality(Units(cs, f))
  BY <1>2, <1>3, UnitsGrow
<1> QED  BY <1>1, <1>3, <1>4, TotalUnits

LEMMA TotalNext ==
  ASSUME NEW bs, bs \subseteq BurnIds
  PROVE  TotalAmount(bs)' = Cardinality(Units(bs, amounts'))
<1>1. Units(bs, amounts') = UNION {{b} \X (1..Get(burns', b).amount) : b \in bs}
  BY DEF Units, amounts, Get
<1> QED  BY <1>1 DEF TotalAmount, Get

LEMMA AmountNext ==
  ASSUME NEW b \in BurnIds, NEW e, burns'[b] = {e}
  PROVE  amounts'[b] = e.amount
BY DEF amounts, Get

LEMMA TotalNatNext ==
  ASSUME BurnShapes', NEW bs, bs \subseteq BurnIds, \A b \in bs : burns'[b] # {}
  PROVE  TotalAmount(bs)' \in Nat
<1>1. PICK h : h = amounts'
  OBVIOUS
<1>2. \A b \in bs : h[b] \in Nat
  <2>1. ASSUME NEW b \in bs PROVE h[b] \in Nat
    <3>1. PICK e : burns'[b] = {e} /\ IsBurn(e)
      BY DEF BurnShapes
    <3> QED  BY <1>1, <3>1, AmountNext DEF IsBurn
  <2> QED  BY <2>1
<1>3. IsFiniteSet(bs)
  BY FS_Subset, RecordsAssumption
<1> QED  BY <1>1, <1>2, <1>3, TotalNext, UnitsFinite

\* One burn more, of amount n, adds no more than n.
LEMMA TotalPlusOne ==
  ASSUME BurnShapes, BurnShapes',
         NEW bs, NEW cs, cs \subseteq BurnIds, NEW b \in BurnIds \ cs, bs \subseteq cs \cup {b},
         \A c \in cs : burns[c] # {}, \A c \in bs : burns'[c] # {},
         NEW n \in Nat, \A e \in burns'[b] : e.amount = n,
         \A c \in cs : \A d \in burns[c], e \in burns'[c] : d.amount = e.amount
  PROVE  TotalAmount(bs)' <= TotalAmount(cs) + n
<1>1. PICK g, h : g = amounts /\ h = amounts'
  OBVIOUS
<1>2. PICK f : f = [c \in cs \cup {b} |-> IF c = b THEN n ELSE g[c]]
  OBVIOUS
<1>3. \A c \in cs : g[c] \in Nat
  BY <1>1, BurnOf DEF IsBurn
<1>4. \A c \in cs \cup {b} : f[c] \in Nat
  BY <1>2, <1>3
<1>5. \A c \in bs : h[c] = f[c]
  <2>1. ASSUME NEW c \in bs PROVE h[c] = f[c]
    <3>1. PICK e : burns'[c] = {e}
      BY DEF BurnShapes
    <3>2. h[c] = e.amount
      BY <1>1, <3>1, AmountNext
    <3>3. CASE c = b
      BY <1>2, <3>1, <3>2, <3>3
    <3>4. CASE c # b
      <4>1. c \in cs /\ f[c] = g[c]
        BY <1>2, <3>4
      <4>2. PICK d : d \in burns[c]
        BY <4>1
      <4>3. g[c] = d.amount
        BY <1>1, <4>1, <4>2, BurnOf
      <4> QED  BY <3>1, <3>2, <4>1, <4>2, <4>3
    <3> QED  BY <3>3, <3>4
  <2> QED  BY <2>1
<1>6. IsFiniteSet(cs) /\ IsFiniteSet(cs \cup {b})
  BY FS_Subset, RecordsAssumption, FS_AddElement
<1>7. Cardinality(Units(bs, h)) <= Cardinality(Units(cs \cup {b}, f))
  BY <1>4, <1>5, <1>6, UnitsGrow
<1>8. Cardinality(Units(cs \cup {b}, f)) = Cardinality(Units(cs, f)) + n
  <2>1. f[b] = n
    BY <1>2
  <2> QED  BY <1>4, <1>6, <2>1, UnitsAdd
<1>9. Units(cs, f) = Units(cs, g)
  BY <1>2 DEF Units
<1>10. TotalAmount(bs)' = Cardinality(Units(bs, h))
  BY <1>1, TotalNext
<1>11. TotalAmount(cs) = Cardinality(Units(cs, g))
  BY <1>1, TotalUnits
<1> QED  BY <1>7, <1>8, <1>9, <1>10, <1>11

LEMMA LiveParts ==
  ASSUME NEW r
  PROVE  LiveFor(r) \subseteq BurnIds /\ \A b \in LiveFor(r) : burns[b] # {}
BY DEF LiveFor

LEMMA TotalOf ==
  ASSUME NEW r, NEW bs, bs = LiveFor(r)'
  PROVE  TotalAmount(LiveFor(r))' = TotalAmount(bs)'
BY DEF TotalAmount

\* No creation begins, and one that goes on keeps its id and its burn.
CreationsKept ==
    \A q \in Callers : \A t \in serving'[q] : IsCreation(t) =>
        \E u \in serving[q] : IsCreation(u) /\ u.id = t.id /\ u.burn = t.burn

LEMMA WithinShrinks ==
  ASSUME BurnShapes, BurnShapes', Within, TaskBounded, late => late', CreationsKept,
         ~late' => \A r \in RecordIds : LiveFor(r)' \subseteq LiveFor(r),
         \A b \in BurnIds : \A d \in burns[b], e \in burns'[b] : d.amount = e.amount
  PROVE  Within'
<1> SUFFICES ASSUME ~late', NEW r \in RecordIds
             PROVE  /\ TotalAmount(LiveFor(r))' <= recordAmount
                    /\ \A q \in Callers : \A t \in serving'[q] :
                          IsCreation(t) /\ t.burn.record = r =>
                              TotalAmount(LiveFor(r))' + t.burn.amount <= recordAmount
  BY DEF Within, IsCreation
<1>1. PICK bs : bs = LiveFor(r)'
  OBVIOUS
<1>2. PICK cs : cs = LiveFor(r)
  OBVIOUS
<1>3. /\ cs \subseteq BurnIds /\ bs \subseteq cs
      /\ \A b \in cs : burns[b] # {}
      /\ \A b \in bs : burns'[b] # {}
  <2>1. \A b \in bs : burns'[b] # {}
    BY <1>1 DEF LiveFor
  <2> QED  BY <1>1, <1>2, <2>1, LiveParts
<1>4. TotalAmount(bs)' <= TotalAmount(cs)
  BY <1>3, TotalShrinks
<1>5. TotalAmount(LiveFor(r))' <= TotalAmount(LiveFor(r))
  BY <1>1, <1>2, <1>4, TotalOf
<1>6. TotalAmount(LiveFor(r)) \in Nat /\ TotalAmount(LiveFor(r))' \in Nat
  <2>1. TotalAmount(cs) \in Nat
    BY <1>3, TotalNat
  <2>2. TotalAmount(bs)' \in Nat
    BY <1>3, TotalNatNext
  <2> QED  BY <1>1, <1>2, <2>1, <2>2, TotalOf
<1>7. ~late
  OBVIOUS
<1>8. ASSUME NEW q \in Callers, NEW t \in serving'[q], IsCreation(t), t.burn.record = r
      PROVE  TotalAmount(LiveFor(r))' + t.burn.amount <= recordAmount
  <2>1. PICK u \in serving[q] : IsCreation(u) /\ u.burn = t.burn
    BY <1>8 DEF CreationsKept
  <2>2. TotalAmount(LiveFor(r)) + t.burn.amount <= recordAmount
    BY <1>7, <1>8, <2>1 DEF Within
  <2>3. t.burn.amount \in Nat
    BY <2>1 DEF TaskBounded, IsTask, IsCreation, IsBurn
  <2> QED  BY <1>5, <1>6, <2>2, <2>3, RecordsAssumption
<1>9. TotalAmount(LiveFor(r)) <= recordAmount
  BY <1>7 DEF Within
<1> QED  BY <1>5, <1>6, <1>8, <1>9, RecordsAssumption

\* A step that leaves the burns alone and executes none.
LEMMA QuietKeeps ==
  ASSUME Reservations, TaskBounded, UNCHANGED <<clock, burns, late>>, CreationsKept,
         \A b \in BurnIds : ExecutedBurn(b)' => ExecutedBurn(b)
  PROVE  Reservations'
<1> USE DEF Reservations
<1>1. BurnShapes'
  BY DEF BurnShapes
<1>2. OneCreated'
  BY DEF OneCreated, CreationsKept, IsCreation
<1>3. ExecutedStored' /\ ExecutedHeld'
  BY DEF ExecutedStored, ExecutedHeld, Reserved
<1>4. \A r \in RecordIds : LiveFor(r)' \subseteq LiveFor(r)
  BY DEF LiveFor
<1>5. \A b \in BurnIds : \A d \in burns[b], e \in burns'[b] : d.amount = e.amount
  BY DEF BurnShapes
<1> QED  BY <1>1, <1>2, <1>3, <1>4, <1>5, WithinShrinks

LEMMA EndsCreations ==
  ASSUME TaskBounded, NEW q \in Callers, Answer(q)
  PROVE  CreationsKept
BY DEF Answer, CreationsKept, TaskBounded

LEMMA SameCreations ==
  ASSUME UNCHANGED serving
  PROVE  CreationsKept
BY DEF CreationsKept

\* A request goes on, or one that creates no burn begins.
LEMMA TaskCreations ==
  ASSUME TaskBounded, NEW q \in Callers, NEW t, serving' = [serving EXCEPT ![q] = {t}],
         IsCreation(t) => \E u \in serving[q] : IsCreation(u) /\ u.id = t.id /\ u.burn = t.burn
  PROVE  CreationsKept
BY DEF CreationsKept, TaskBounded

\* A new burn takes no more than the reservations leave.
LEMMA CreateKeeps ==
  ASSUME Reservations, TaskBounded, NEW q \in Callers, NEW b \in BurnIds, NEW r \in RecordIds,
         NEW amount \in BurnAmounts, CreateBurn(q, b, r, amount)
  PROVE  Reservations'
<1> USE DEF Reservations
<1>1. PICK n : n = NewBurn(r, amount)
  OBVIOUS
<1>2. PICK t : t = [kind |-> "burn", id |-> b, cid |-> b, begun |-> FALSE, burn |-> n]
  OBVIOUS
<1>3. serving' = [serving EXCEPT ![q] = {t}]
  BY <1>1, <1>2 DEF CreateBurn, Serve
<1>4. UNCHANGED <<clock, burns, late, mined>> /\ burns[b] = {}
  BY DEF CreateBurn, Fresh
<1>5. \A p \in Callers : \A u \in serving[p] : ~IsCreation(u)
  BY DEF CreateBurn, Locked, IsCreation
<1>6. \A p \in Callers : \A u \in serving'[p] : IsCreation(u) => p = q /\ u = t
  BY <1>3, <1>5 DEF TaskBounded
<1>7. BurnShapes' /\ ExecutedStored' /\ ExecutedHeld'
  BY <1>4 DEF BurnShapes, ExecutedStored, ExecutedHeld, ExecutedBurn, Reserved
<1>8. OneCreated'
  <2>1. t.id = b
    BY <1>2
  <2> QED  BY <1>4, <1>6, <2>1 DEF OneCreated, IsCreation
<1>9. \A s : LiveFor(s)' = LiveFor(s)
  BY <1>4 DEF LiveFor, ExecutedBurn
<1>10. \A s : TotalAmount(LiveFor(s))' = TotalAmount(LiveFor(s))
  <2>1. ASSUME NEW s PROVE TotalAmount(LiveFor(s))' = TotalAmount(LiveFor(s))
    <3>1. PICK bs : bs = LiveFor(s)
      OBVIOUS
    <3>2. bs = LiveFor(s)'
      BY <1>9, <3>1
    <3>3. TotalAmount(bs)' = TotalAmount(bs)
      BY <1>4 DEF TotalAmount, Get
    <3> QED  BY <3>1, <3>2, <3>3, TotalOf
  <2> QED  BY <2>1
<1>11. ~late => TotalAmount(LiveFor(r)) + amount <= recordAmount
  <2> SUFFICES ASSUME ~late PROVE TotalAmount(LiveFor(r)) + amount <= recordAmount
    OBVIOUS
  <2>1. PICK cs : cs = {c \in BurnIds \ {} : \E d \in burns[c] : d.record = r /\ Reserved(d)}
    OBVIOUS
  <2>2. amount <= recordAmount - TotalAmount(cs)
    BY <2>1 DEF CreateBurn, Remaining
  <2>3. PICK bs : bs = LiveFor(r)
    OBVIOUS
  <2>4. bs \subseteq cs
    BY <2>1, <2>3 DEF LiveFor, ExecutedHeld, Reserved
  <2>5. cs \subseteq BurnIds /\ \A c \in cs : burns[c] # {}
    BY <2>1
  <2>6. TotalAmount(bs) <= TotalAmount(cs) /\ TotalAmount(cs) \in Nat /\ TotalAmount(bs) \in Nat
    BY <2>4, <2>5, TotalGrows, TotalNat
  <2>7. amount \in Nat
    BY RecordsAssumption
  <2> QED  BY <2>2, <2>3, <2>6, <2>7, RecordsAssumption
<1>12. t.burn.record = r /\ t.burn.amount = amount
  BY <1>1, <1>2 DEF NewBurn
<1>13. Within'
  <2>1. ASSUME ~late', NEW s \in RecordIds
        PROVE  /\ TotalAmount(LiveFor(s))' <= recordAmount
               /\ \A p \in Callers : \A u \in serving'[p] :
                     IsCreation(u) /\ u.burn.record = s =>
                         TotalAmount(LiveFor(s))' + u.burn.amount <= recordAmount
    <3>1. ~late
      BY <1>4, <2>1
    <3>2. TotalAmount(LiveFor(s))' <= recordAmount
      BY <1>10, <3>1 DEF Within
    <3>3. ASSUME NEW p \in Callers, NEW u \in serving'[p], IsCreation(u), u.burn.record = s
          PROVE  TotalAmount(LiveFor(s))' + u.burn.amount <= recordAmount
      BY <1>6, <1>10, <1>11, <1>12, <3>1, <3>3
    <3> QED  BY <3>2, <3>3
  <2> QED  BY <2>1 DEF Within, IsCreation
<1> QED  BY <1>7, <1>8, <1>13

\* The burn is stored that was counted while it was being created.
LEMMA StoreKeeps ==
  ASSUME Reservations, TaskBounded, NEW q \in Callers, EndPublish(q)
  PROVE  Reservations'
<1> USE DEF Reservations
<1>1. PICK t \in serving[q] : burns' = burns \/ (t.kind = "burn" /\ burns' = [burns EXCEPT ![t.id] = {t.burn}])
  BY DEF EndPublish, StoreBurn
<1>2. Answer(q) /\ UNCHANGED <<clock, mined, late>>
  BY DEF EndPublish
<1>3. CASE burns' = burns
  BY <1>2, <1>3, QuietKeeps, EndsCreations DEF ExecutedBurn
<1>4. CASE t.kind = "burn" /\ burns' = [burns EXCEPT ![t.id] = {t.burn}]
  <2>1. PICK b, n : b = t.id /\ n = t.burn
    OBVIOUS
  <2>2. b \in BurnIds /\ burns[b] = {} /\ IsBurn(n)
    BY <1>4, <2>1 DEF OneCreated, IsCreation, TaskBounded, IsTask
  <2>3. burns' = [burns EXCEPT ![b] = {n}]
    BY <1>4, <2>1
  <2>4. \A c \in BurnIds : burns'[c] = IF c = b THEN {n} ELSE burns[c]
    BY <2>3 DEF BurnShapes
  <2>5. BurnShapes'
    BY <1>2, <2>2, <2>3, <2>4 DEF BurnShapes
  <2>6. \A p \in Callers : \A u \in serving'[p] : ~IsCreation(u)
    BY <1>2, <1>4 DEF Answer, OneCreated, IsCreation, TaskBounded
  <2>7. OneCreated'
    BY <2>6 DEF OneCreated, IsCreation
  <2>8. \A c \in BurnIds : ExecutedBurn(c)' = ExecutedBurn(c)
    BY <1>2 DEF ExecutedBurn
  <2>9. ~ExecutedBurn(b)
    BY <2>2 DEF ExecutedStored
  <2>10. ExecutedStored' /\ ExecutedHeld'
    BY <1>2, <2>2, <2>4, <2>8, <2>9 DEF ExecutedStored, ExecutedHeld, Reserved
  <2>11. ASSUME ~late, NEW r \in RecordIds
         PROVE  TotalAmount(LiveFor(r))' <= recordAmount
    <3>1. PICK bs : bs = LiveFor(r)'
      OBVIOUS
    <3>2. PICK cs : cs = LiveFor(r)
      OBVIOUS
    <3>3. bs \subseteq BurnIds /\ \A c \in bs : burns'[c] # {}
      BY <3>1 DEF LiveFor
    <3>4. cs \subseteq BurnIds /\ b \notin cs /\ \A c \in cs : burns[c] # {}
      BY <2>2, <3>2 DEF LiveFor
    <3>5. \A c \in cs : burns'[c] = burns[c]
      BY <2>4, <3>4
    <3>6. \A c \in cs : \A d \in burns[c], e \in burns'[c] : d.amount = e.amount
      BY <3>4, <3>5 DEF BurnShapes
    <3>7. TotalAmount(cs) <= recordAmount /\ TotalAmount(cs) \in Nat
      BY <2>11, <3>2, <3>4, TotalNat DEF Within
    <3>8. CASE n.record = r
      <4>1. TotalAmount(cs) + n.amount <= recordAmount
        BY <1>4, <2>1, <2>11, <3>2, <3>8 DEF Within, IsCreation
      <4>2. bs \subseteq cs \cup {b}
        BY <1>2, <2>4, <2>8, <3>1, <3>2 DEF LiveFor
      <4>3. n.amount \in Nat /\ \A e \in burns'[b] : e.amount = n.amount
        BY <2>2, <2>4 DEF IsBurn
      <4>4. TotalAmount(bs)' <= TotalAmount(cs) + n.amount
        BY <2>2, <2>5, <3>3, <3>4, <3>6, <4>2, <4>3, TotalPlusOne
      <4>5. TotalAmount(bs)' \in Nat
        BY <2>5, <3>3, TotalNatNext
      <4> QED  BY <3>1, <3>7, <4>1, <4>3, <4>4, <4>5, TotalOf, RecordsAssumption
    <3>9. CASE n.record # r
      <4>1. bs \subseteq cs
        BY <1>2, <2>4, <2>8, <3>1, <3>2, <3>9 DEF LiveFor
      <4>2. TotalAmount(bs)' <= TotalAmount(cs)
        BY <2>5, <3>3, <3>4, <3>6, <4>1, TotalShrinks
      <4>3. TotalAmount(bs)' \in Nat
        BY <2>5, <3>3, TotalNatNext
      <4> QED  BY <3>1, <3>7, <4>2, <4>3, TotalOf, RecordsAssumption
    <3> QED  BY <3>8, <3>9
  <2>12. Within'
    BY <1>2, <2>6, <2>11 DEF Within, IsCreation
  <2> QED  BY <2>5, <2>7, <2>10, <2>12
<1> QED  BY <1>1, <1>3, <1>4

\* A burn is offered again within what the other reservations leave.
LEMMA ReissueKeeps ==
  ASSUME Reservations, TaskBounded, NEW b \in BurnIds, ReissueBurn(b)
  PROVE  Reservations'
<1> USE DEF Reservations
<1>1. PICK d \in burns[b] :
        /\ d.status # "Burned"
        /\ d.amount <= Remaining(d.record, {b})
        /\ burns' = [burns EXCEPT ![b] = {[d EXCEPT !.validUntil = clock + attestationValidUntilWindow]}]
  BY DEF ReissueBurn
<1>2. PICK w : w = clock + attestationValidUntilWindow
  OBVIOUS
<1>3. PICK n : n = [d EXCEPT !.validUntil = w]
  OBVIOUS
<1>4. burns[b] = {d} /\ IsBurn(d)
  BY BurnOf
<1>5. w \in Int /\ w > clock
  BY <1>2, RecordsAssumption DEF BurnShapes
<1>6. /\ IsBurn(n) /\ n.status = d.status /\ n.record = d.record /\ n.amount = d.amount
      /\ n.validUntil = w
  BY <1>3, <1>4, <1>5 DEF IsBurn, BurnFields
<1>7. burns' = [burns EXCEPT ![b] = {n}]
  BY <1>1, <1>2, <1>3
<1>8. \A c \in BurnIds : burns'[c] = IF c = b THEN {n} ELSE burns[c]
  BY <1>7 DEF BurnShapes
<1>9. UNCHANGED <<clock, mined, late, serving>> /\ ~Locked
  BY DEF ReissueBurn
<1>10. \A p \in Callers : \A u \in serving'[p] : ~IsCreation(u)
  BY <1>9 DEF Locked, IsCreation
<1>11. BurnShapes'
  BY <1>6, <1>7, <1>8, <1>9 DEF BurnShapes
<1>12. OneCreated'
  BY <1>10 DEF OneCreated, IsCreation
<1>13. \A c \in BurnIds : ExecutedBurn(c)' = ExecutedBurn(c)
  BY <1>9 DEF ExecutedBurn
<1>14. ExecutedStored' /\ ExecutedHeld'
  BY <1>5, <1>6, <1>8, <1>9, <1>13 DEF ExecutedStored, ExecutedHeld, Reserved
<1>15. ASSUME ~late, NEW r \in RecordIds
       PROVE  TotalAmount(LiveFor(r))' <= recordAmount
  <2>1. ~late
    BY <1>15
  <2>2. PICK bs : bs = LiveFor(r)'
    OBVIOUS
  <2>3. bs \subseteq BurnIds /\ \A c \in bs : burns'[c] # {}
    BY <2>2 DEF LiveFor
  <2>4. TotalAmount(bs)' \in Nat
    BY <1>11, <2>3, TotalNatNext
  <2>5. \A c \in BurnIds : \A x \in burns[c], y \in burns'[c] : x.amount = y.amount
    <3>1. ASSUME NEW c \in BurnIds, NEW x \in burns[c], NEW y \in burns'[c]
          PROVE  x.amount = y.amount
      <4>1. CASE c = b
        BY <1>4, <1>6, <1>8, <3>1, <4>1
      <4>2. CASE c # b
        <5>1. y \in burns[c]
          BY <1>8, <3>1, <4>2
        <5> QED  BY <5>1 DEF BurnShapes
      <4> QED  BY <4>1, <4>2
    <3> QED  BY <3>1
  <2>6. CASE d.record = r
    <3>1. PICK cs : cs = {c \in BurnIds \ {b} : \E x \in burns[c] : x.record = r /\ Reserved(x)}
      OBVIOUS
    <3>2. d.amount <= recordAmount - TotalAmount(cs)
      BY <1>1, <2>6, <3>1 DEF Remaining
    <3>3. cs \subseteq BurnIds /\ b \notin cs /\ \A c \in cs : burns[c] # {}
      BY <3>1
    <3>4. bs \subseteq cs \cup {b}
      <4>1. ASSUME NEW c \in bs, c # b
            PROVE  c \in cs
        <5>1. c \in BurnIds /\ burns'[c] = burns[c]
          BY <1>8, <2>3, <4>1
        <5>2. PICK x \in burns[c] : x.record = r /\ (ExecutedBurn(c) \/ x.validUntil > clock)
          BY <1>9, <1>13, <2>2, <4>1, <5>1 DEF LiveFor
        <5>3. Reserved(x)
          BY <2>1, <5>1, <5>2 DEF ExecutedHeld, Reserved
        <5> QED  BY <3>1, <4>1, <5>1, <5>2, <5>3
      <4> QED  BY <4>1
    <3>5. d.amount \in Nat /\ \A e \in burns'[b] : e.amount = d.amount
      BY <1>4, <1>6, <1>8 DEF IsBurn
    <3>6. TotalAmount(bs)' <= TotalAmount(cs) + d.amount
      BY <1>11, <2>3, <2>5, <3>3, <3>4, <3>5, TotalPlusOne
    <3>7. TotalAmount(cs) \in Nat
      BY <3>3, TotalNat
    <3> QED  BY <2>2, <2>4, <3>2, <3>5, <3>6, <3>7, TotalOf, RecordsAssumption
  <2>7. CASE d.record # r
    <3>1. PICK cs : cs = LiveFor(r)
      OBVIOUS
    <3>2. cs \subseteq BurnIds /\ \A c \in cs : burns[c] # {}
      BY <3>1 DEF LiveFor
    <3>3. bs \subseteq cs
      <4>1. ASSUME NEW c \in bs
            PROVE  c \in cs
        <5>1. c \in BurnIds /\ c # b
          BY <1>6, <1>8, <2>2, <2>7, <4>1 DEF LiveFor
        <5>2. burns'[c] = burns[c]
          BY <1>8, <5>1
        <5> QED  BY <1>9, <1>13, <2>2, <3>1, <4>1, <5>1, <5>2 DEF LiveFor
      <4> QED  BY <4>1
    <3>4. TotalAmount(bs)' <= TotalAmount(cs)
      BY <1>11, <2>3, <2>5, <3>2, <3>3, TotalShrinks
    <3>5. TotalAmount(cs) <= recordAmount /\ TotalAmount(cs) \in Nat
      BY <2>1, <3>1, <3>2, TotalNat DEF Within
    <3> QED  BY <2>2, <2>4, <3>4, <3>5, TotalOf, RecordsAssumption
  <2> QED  BY <2>6, <2>7
<1>16. Within'
  BY <1>9, <1>10, <1>15 DEF Within, IsCreation
<1> QED  BY <1>11, <1>12, <1>14, <1>16

LEMMA BurnKeeps ==
  ASSUME Reservations, TaskBounded, NEW b \in BurnIds, Burn(b)
  PROVE  Reservations'
<1> USE DEF Reservations
<1>1. PICK d \in burns[b] : Executes(b, d) /\ late' = (late \/ d.validUntil <= clock)
  BY DEF Burn
<1>2. UNCHANGED <<clock, burns, serving>>
  BY DEF Burn
<1>3. burns[b] = {d} /\ IsBurn(d)
  BY BurnOf
<1>4. \A c \in BurnIds : ExecutedBurn(c)' => ExecutedBurn(c) \/ c = b
  BY <1>1 DEF Executes, ExecutedBurn
<1>5. ~late' => ~late /\ d.validUntil > clock
  <2>1. ~late' => ~late /\ ~(d.validUntil <= clock)
    BY <1>1, Zenon
  <2>2. d.validUntil \in Int /\ clock \in Int
    BY <1>3 DEF IsBurn, BurnShapes
  <2> QED  BY <2>1, <2>2
<1>6. BurnShapes' /\ OneCreated'
  BY <1>2 DEF BurnShapes, OneCreated, IsCreation
<1>7. ExecutedStored' /\ ExecutedHeld'
  BY <1>2, <1>3, <1>4, <1>5 DEF ExecutedStored, ExecutedHeld, Reserved
<1>8. ~late' => \A r \in RecordIds : LiveFor(r)' \subseteq LiveFor(r)
  <2>1. ASSUME ~late', NEW r \in RecordIds, NEW c \in LiveFor(r)'
        PROVE  c \in LiveFor(r)
    <3>1. c \in BurnIds
      BY <2>1 DEF LiveFor
    <3>2. PICK x \in burns[c] : x.record = r /\ (ExecutedBurn(c)' \/ x.validUntil > clock)
      BY <1>2, <2>1 DEF LiveFor
    <3>3. ExecutedBurn(c) \/ x.validUntil > clock
      BY <1>3, <1>4, <1>5, <2>1, <3>1, <3>2
    <3> QED  BY <3>1, <3>2, <3>3 DEF LiveFor
  <2> QED  BY <2>1
<1>9. \A c \in BurnIds : \A x \in burns[c], y \in burns'[c] : x.amount = y.amount
  BY <1>2 DEF BurnShapes
<1>10. late => late'
  BY <1>1
<1> QED  BY <1>2, <1>6, <1>7, <1>8, <1>9, <1>10, WithinShrinks, SameCreations

LEMMA TickKeeps ==
  ASSUME Reservations, TaskBounded, Tick
  PROVE  Reservations'
<1> USE DEF Reservations
<1>1. UNCHANGED <<burns, serving, mined>> /\ clock' = clock + 1 /\ late' = (late \/ Unreserved')
  BY DEF Tick
<1>2. BurnShapes' /\ OneCreated' /\ ExecutedStored'
  BY <1>1 DEF BurnShapes, OneCreated, IsCreation, ExecutedStored, ExecutedBurn
<1>3. ExecutedHeld'
  BY <1>1 DEF ExecutedHeld, Unreserved
<1>4. \A r \in RecordIds : LiveFor(r)' \subseteq LiveFor(r)
  <2>1. ASSUME NEW r \in RecordIds, NEW c \in LiveFor(r)'
        PROVE  c \in LiveFor(r)
    <3>1. c \in BurnIds
      BY <2>1 DEF LiveFor
    <3>2. PICK x \in burns[c] : x.record = r /\ (ExecutedBurn(c) \/ x.validUntil > clock + 1)
      BY <1>1, <2>1 DEF LiveFor, ExecutedBurn
    <3>3. x.validUntil \in Int /\ clock \in Int
      BY <3>1, BurnOf DEF IsBurn, BurnShapes
    <3> QED  BY <3>1, <3>2, <3>3 DEF LiveFor
  <2> QED  BY <2>1
<1>5. \A c \in BurnIds : \A x \in burns[c], y \in burns'[c] : x.amount = y.amount
  BY <1>1 DEF BurnShapes
<1> QED  BY <1>1, <1>2, <1>3, <1>4, <1>5, WithinShrinks, SameCreations

LEMMA BurnStatusForm ==
  ASSUME NEW d, IsBurn(d), NEW evs, NEW e, e = BurnStatus(d, evs)
  PROVE  IsBurn(e) /\ e.record = d.record /\ e.amount = d.amount /\ e.validUntil = d.validUntil
<1>1. PICK s, h : e = d \/ e = [[d EXCEPT !["status"] = s] EXCEPT !["txHash"] = h]
  BY DEF BurnStatus
<1>2. CASE e = d
  BY <1>2
<1>3. CASE e = [[d EXCEPT !["status"] = s] EXCEPT !["txHash"] = h]
  <2>1. PICK c : c = [d EXCEPT !["status"] = s]
    OBVIOUS
  <2>2. IsBurn(c) /\ c.record = d.record /\ c.amount = d.amount /\ c.validUntil = d.validUntil
    BY <2>1 DEF IsBurn, BurnFields
  <2>3. e = [c EXCEPT !["txHash"] = h]
    BY <1>3, <2>1
  <2> QED  BY <2>2, <2>3 DEF IsBurn, BurnFields
<1> QED  BY <1>1, <1>2, <1>3

\* A pass changes how burns are marked, never what they reserve.
LEMMA MarkKeeps ==
  ASSUME Reservations, TaskBounded, ReconcileBurned
  PROVE  Reservations'
<1> USE DEF Reservations
<1>1. PICK b \in burning.todo :
        burns' = [burns EXCEPT ![b] = {BurnStatus(d, EventOf(b, burning.events)) : d \in burns[b]}]
  BY DEF ReconcileBurned
<1>2. UNCHANGED <<clock, serving, mined>> /\ late' = (late \/ Unreserved')
  BY DEF ReconcileBurned
<1>3. ASSUME NEW c \in BurnIds
      PROVE  \/ burns[c] = {} /\ burns'[c] = {}
             \/ \E d, e : /\ burns[c] = {d} /\ burns'[c] = {e} /\ IsBurn(d) /\ IsBurn(e)
                          /\ e.record = d.record /\ e.amount = d.amount /\ e.validUntil = d.validUntil
  <2>1. CASE burns[c] = {}
    BY <1>1, <2>1 DEF BurnShapes
  <2>2. CASE burns[c] # {}
    <3>1. PICK d : burns[c] = {d} /\ IsBurn(d)
      BY <2>2 DEF BurnShapes
    <3>2. PICK e : e = BurnStatus(d, EventOf(b, burning.events))
      OBVIOUS
    <3>3. CASE c = b
      <4>1. burns'[c] = {e}
        BY <1>1, <3>1, <3>2, <3>3 DEF BurnShapes
      <4> QED  BY <3>1, <3>2, <4>1, BurnStatusForm
    <3>4. CASE c # b
      <4>1. burns'[c] = {d}
        BY <1>1, <3>1, <3>4 DEF BurnShapes
      <4> QED  BY <3>1, <4>1
    <3> QED  BY <3>3, <3>4
  <2> QED  BY <2>1, <2>2
<1>4. BurnShapes'
  <2>1. burns' = [c \in BurnIds |-> burns'[c]]
    BY <1>1 DEF BurnShapes
  <2> QED  BY <1>2, <1>3, <2>1 DEF BurnShapes
<1>5. OneCreated' /\ ExecutedStored'
  BY <1>2, <1>3 DEF OneCreated, IsCreation, ExecutedStored, ExecutedBurn
<1>6. ExecutedHeld'
  BY <1>2 DEF ExecutedHeld, Unreserved
<1>7. \A r \in RecordIds : LiveFor(r)' \subseteq LiveFor(r)
  BY <1>2, <1>3 DEF LiveFor, ExecutedBurn
<1>8. \A c \in BurnIds : \A x \in burns[c], y \in burns'[c] : x.amount = y.amount
  <2>1. ASSUME NEW c \in BurnIds, NEW x \in burns[c], NEW y \in burns'[c]
        PROVE  x.amount = y.amount
    BY <1>3, <2>1
  <2> QED  BY <2>1
<1> QED  BY <1>2, <1>4, <1>5, <1>6, <1>7, <1>8, WithinShrinks, SameCreations

LEMMA ReservationsStep ==
  ASSUME Reservations, CidsBounded, [Next]_vars
  PROVE  Reservations'
<1>0. TaskBounded
  BY DEF CidsBounded
<1>1. ASSUME UNCHANGED <<clock, burns, serving, mined, late>>
      PROVE  Reservations'
  BY <1>0, <1>1, QuietKeeps, SameCreations DEF ExecutedBurn
<1>2. ASSUME NEW q \in Callers, NEW r \in RecordIds, NEW cid, CreateRecord(q, r, cid)
      PROVE  Reservations'
  <2>1. PICK t : t = [kind |-> "record", id |-> r, cid |-> cid, begun |-> FALSE]
    OBVIOUS
  <2>2. serving' = [serving EXCEPT ![q] = {t}] /\ ~IsCreation(t)
    BY <1>2, <2>1 DEF CreateRecord, Serve, IsCreation
  <2>3. CreationsKept
    BY <1>0, <2>2, TaskCreations
  <2> QED  BY <1>0, <1>2, <2>3, QuietKeeps DEF CreateRecord, ExecutedBurn
<1>3. ASSUME NEW q \in Callers, NEW b \in BurnIds, NEW r \in RecordIds, NEW amount \in BurnAmounts,
             CreateBurn(q, b, r, amount)
      PROVE  Reservations'
  BY <1>0, <1>3, CreateKeeps
<1>4. ASSUME NEW q \in Callers, BeginPublish(q)
      PROVE  Reservations'
  <2>1. PICK t \in serving[q] :
          /\ t.kind # "reissue"
          /\ Answer(q) \/ serving' = [serving EXCEPT ![q] = {[t EXCEPT !.begun = TRUE]}]
    BY <1>4 DEF BeginPublish
  <2>2. CASE Answer(q)
    BY <1>0, <1>4, <2>2, EndsCreations, QuietKeeps DEF BeginPublish, ExecutedBurn
  <2>3. CASE serving' = [serving EXCEPT ![q] = {[t EXCEPT !.begun = TRUE]}]
    <3>1. PICK u : u = [t EXCEPT !.begun = TRUE]
      OBVIOUS
    <3>2. IsTask(t)
      BY <1>0 DEF TaskBounded
    <3>3. IsCreation(u) => IsCreation(t) /\ t.id = u.id /\ t.burn = u.burn
      BY <2>1, <3>1, <3>2, BegunForm DEF IsCreation
    <3>4. CreationsKept
      BY <1>0, <2>3, <3>1, <3>3, TaskCreations
    <3> QED  BY <1>0, <1>4, <3>4, QuietKeeps DEF BeginPublish, ExecutedBurn
  <2> QED  BY <2>1, <2>2, <2>3
<1>5. ASSUME NEW q \in Callers, EndPublish(q)
      PROVE  Reservations'
  BY <1>0, <1>5, StoreKeeps
<1>6. ASSUME NEW q \in Callers, Interrupted(q)
      PROVE  Reservations'
  BY <1>0, <1>6, EndsCreations, QuietKeeps DEF Interrupted, ExecutedBurn
<1>7. ASSUME NEW q \in Callers, NEW r \in RecordIds, ReadRecord(q, r)
      PROVE  Reservations'
  <2>1. PICK d \in records[r] : Serve(q, [kind |-> "reissue", id |-> r, doc |-> d])
    BY <1>7 DEF ReadRecord
  <2>2. PICK t : t = [kind |-> "reissue", id |-> r, doc |-> d]
    OBVIOUS
  <2>3. serving' = [serving EXCEPT ![q] = {t}] /\ ~IsCreation(t)
    BY <2>1, <2>2 DEF Serve, IsCreation
  <2>4. CreationsKept
    BY <1>0, <2>3, TaskCreations
  <2> QED  BY <1>0, <1>7, <2>4, QuietKeeps DEF ReadRecord, ExecutedBurn
<1>8. ASSUME NEW q \in Callers, ReissueRecord(q)
      PROVE  Reservations'
  BY <1>0, <1>8, EndsCreations, QuietKeeps DEF ReissueRecord, ExecutedBurn
<1>9. CASE Request
  BY <1>9, <1>2, <1>3, <1>4, <1>5, <1>6, <1>7, <1>8 DEF Request
<1>10. ASSUME NEW b \in BurnIds, ReissueBurn(b) \/ Burn(b)
       PROVE  Reservations'
  BY <1>0, <1>10, ReissueKeeps, BurnKeeps
<1>11. ASSUME NEW r \in RecordIds, Mint(r)
       PROVE  Reservations'
  <2>1. \A b \in BurnIds : ExecutedBurn(b)' => ExecutedBurn(b)
    BY <1>11, RecordsAssumption DEF Mint, Executes, ExecutedBurn
  <2> QED  BY <1>0, <1>11, <2>1, QuietKeeps, SameCreations DEF Mint
<1>12. ASSUME NEW e, Reorg(e)
       PROVE  Reservations'
  <2>1. \A b \in BurnIds : ExecutedBurn(b)' => ExecutedBurn(b)
    BY <1>12 DEF Reorg, ExecutedBurn
  <2> QED  BY <1>0, <1>12, <2>1, QuietKeeps, SameCreations DEF Reorg
<1>13. CASE Index
  BY <1>1, <1>13 DEF Index
<1>14. CASE Tick
  BY <1>0, <1>14, TickKeeps
<1>15. CASE Pass
  BY <1>0, <1>1, <1>15, MarkKeeps DEF Pass, ListMinted, ReconcileMinted, ListBurned
<1>16. CASE Upkeep /\ UNCHANGED recVars
  BY <1>1, <1>16 DEF recVars
<1>17. CASE UNCHANGED vars
  BY <1>1, <1>17 DEF vars, recVars
<1> QED  BY <1>9, <1>10, <1>11, <1>12, <1>13, <1>14, <1>15, <1>16, <1>17 DEF Next

-----------------------------------------------------------------------------

RecordsInv == CidsBounded /\ Reservations

LEMMA RecordsInit == Init => RecordsInv
<1> SUFFICES ASSUME Init PROVE RecordsInv
  OBVIOUS
<1> USE DEF Init, PubInit
<1>1. PubBounded
  BY DEF PubBounded
<1>2. TaskBounded /\ RecordBounded
  BY DEF TaskBounded, RecordBounded
<1>3. BurnShapes /\ OneCreated /\ ExecutedStored /\ ExecutedHeld
  BY DEF BurnShapes, OneCreated, ExecutedStored, ExecutedHeld, ExecutedBurn
<1>4. Within
  <2>1. ASSUME NEW r \in RecordIds PROVE TotalAmount(LiveFor(r)) = 0
    <3>1. LiveFor(r) = {}
      BY DEF LiveFor
    <3>2. UNION {{b} \X (1..Get(burns, b).amount) : b \in LiveFor(r)} = {}
      BY <3>1
    <3> QED  BY <3>2, FS_EmptySet DEF TotalAmount
  <2> QED  BY <2>1, RecordsAssumption DEF Within
<1> QED  BY <1>1, <1>2, <1>3, <1>4 DEF RecordsInv, CidsBounded, Reservations

LEMMA RecordsStep == RecordsInv /\ [Next]_vars => RecordsInv'
BY CidsStep, ReservationsStep DEF RecordsInv, Reservations

LEMMA RecordsInvImplies == RecordsInv => BurnsWithinRecord /\ PublishedMatches
<1> SUFFICES ASSUME RecordsInv PROVE BurnsWithinRecord /\ PublishedMatches
  OBVIOUS
<1> USE DEF RecordsInv
<1>1. ASSUME ~late, NEW r \in RecordIds
      PROVE  TotalAmount(ExecutedFor(r)) <= recordAmount
  <2>1. PICK bs, cs : bs = ExecutedFor(r) /\ cs = LiveFor(r)
    OBVIOUS
  <2>2. bs \subseteq cs /\ cs \subseteq BurnIds /\ \A b \in cs : burns[b] # {}
    BY <2>1 DEF ExecutedFor, LiveFor
  <2>3. \A b \in bs : burns[b] # {}
    BY <2>2
  <2>4. TotalAmount(bs) <= TotalAmount(cs) /\ TotalAmount(bs) \in Nat /\ TotalAmount(cs) \in Nat
    BY <2>2, <2>3, TotalGrows, TotalNat DEF Reservations
  <2>5. TotalAmount(cs) <= recordAmount
    BY <1>1, <2>1 DEF Reservations, Within
  <2> QED  BY <2>1, <2>4, <2>5, RecordsAssumption
<1>2. PublishedMatches
  BY DEF PublishedMatches, CidsBounded, PubBounded, Bound
<1> QED  BY <1>1, <1>2 DEF BurnsWithinRecord

(* For any number of requests, records, burns and backups, the burns the   *)
(* chain executes against a record never burn more than the record's       *)
(* amount while every executed burn held its reservation.  It is about     *)
(* CreateBurn, ReissueBurn and Remaining under the service's mutex.        *)
THEOREM BurnsStayWithinRecord == Spec => []BurnsWithinRecord
<1>1. Spec => []RecordsInv
  BY RecordsInit, RecordsStep, PTL DEF Spec
<1> QED  BY <1>1, RecordsInvImplies, PTL

(* What is published for a record or a burn is its own metadata, whichever *)
(* requests, reissues, passes and repairs of copies overlap.  It is about  *)
(* CreateRecord reserving the id before Publish.                           *)
THEOREM PublicationsMatch == Spec => []PublishedMatches
<1>1. Spec => []RecordsInv
  BY RecordsInit, RecordsStep, PTL DEF Spec
<1> QED  BY <1>1, RecordsInvImplies, PTL
=============================================================================
