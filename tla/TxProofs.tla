------------------------------ MODULE TxProofs ------------------------------
(***************************************************************************)
(* The safety of the transaction manager for any number of servers, keys,  *)
(* records, crashes, reorganisations and uses of the key from outside,     *)
(* when a refresh tick does not run during Submit or Replace and no holder *)
(* stalls past its lease between renewing it and its last write (with      *)
(* either, DoneOnce is lost: see tx_overlap).                              *)
(***************************************************************************)
EXTENDS TxManager, FiniteSetTheorems, NaturalsInduction, WellFoundedInduction, TLAPS

Disciplined == ~Overlap /\ ~Stalls

-----------------------------------------------------------------------------
(* The repository and the network.                                         *)

\* The server's transactions in a pool or on chain.
onNet == (mempool \cup {chain[i] : i \in DOMAIN chain}) \ {External}

\* The part of a record that says what it stands for.
sameCore(a, b) ==
  /\ a.key = b.key /\ a.nonce = b.nonce /\ a.hash = b.hash
  /\ a.attempts = b.attempts /\ a.allowReorgRetry = b.allowReorgRetry

\* A record names a transaction that was signed for it.
fits(tx) ==
  /\ tx.hash \in DOMAIN signed
  /\ tx.nonce = signed[tx.hash].nonce
  /\ tx.key # NoKey => signed[tx.hash].key = tx.key
  /\ tx.allowReorgRetry => tx.key \in RepeatableKeys

RecordsFit == \A id \in DOMAIN txs : fits(txs[id])

KeysUnique ==
  \A i, j \in DOMAIN txs : txs[i].key = txs[j].key /\ txs[i].key # NoKey => i = j

MinedInOrder == \A i \in DOMAIN chain : chain[i] # External => signed[chain[i]].nonce = i - 1

\* A transaction of an operation that is done once has the nonce of that
\* operation's record, which has not failed.
homed(h) ==
  \/ signed[h].key \in RepeatableKeys
  \/ \E id \in DOMAIN txs :
       txs[id].key = signed[h].key /\ txs[id].status # "failed" /\ txs[id].nonce = signed[h].nonce

settled(tx) == tx.status \in {"failed", "replaced"}

Homed ==
  /\ \A h \in onNet : homed(h)
  /\ \A id \in DOMAIN txs : ~settled(txs[id]) => homed(txs[id].hash)

NoncesBounded == \E b \in Nat : \A h \in DOMAIN signed : signed[h].nonce <= b

DataTypeOK ==
  /\ signed \in Seq([key : Keys, nonce : Nat])
  /\ mempool \subseteq DOMAIN signed
  /\ chain \in Seq(DOMAIN signed \cup {External})
  /\ txs \in Seq(Transaction)

Repository ==
  DataTypeOK /\ NoncesBounded /\ RecordsFit /\ KeysUnique /\ MinedInOrder /\ Homed /\ Tracked /\ NonceNotShared

-----------------------------------------------------------------------------
(* The lease.                                                              *)

Ticks == [at : {"idle", "links", "each", "receipt", "missing"}, todo : SUBSET [id : Nat, tx : Transaction]]

ControlTypeOK ==
  /\ LeaseTypeOK
  /\ call \in [Servers -> Call]
  /\ tick \in [Servers -> Ticks]

owns(s) == holds(s, call[s].token)

\* Past its renewal a call holds the lease, and the lease is live.
Fenced == \A s \in Servers : call[s].at \in AfterRenewal => owns(s) /\ lease.live

\* Ticks and calls do not overlap.
Apart == (\E s \in Servers : tick[s].at # "idle") => idle

-----------------------------------------------------------------------------
(* Calls and ticks.                                                        *)

Submitting == {"check", "lookup", "sign", "renew", "persist", "send", "refused"}
Signed == {"renew", "persist", "send", "refused"}
Loaded == {"bump", "renewReplacement", "create", "link", "sendReplacement", "abandon", "revert"}
Replacing == {"load"} \cup Loaded
SignedAgain == Loaded \ {"bump"}

\* What a call knows of itself, whether or not it still holds the lease.
Local(s) ==
  LET c == call[s] IN
  /\ c.at \in Submitting => c.key \in Keys
  /\ c.at \in {"check", "lookup"} => c.id = 0
  /\ c.at \in Signed =>
       /\ c.record.key = c.key /\ fits(c.record) /\ c.record.status = "broadcast_unknown"
  /\ c.at \in Replacing => c.oldId \in DOMAIN txs
  /\ c.at \in Loaded => fits(c.old)
  /\ c.at \in SignedAgain =>
       /\ c.record.key = NoKey /\ fits(c.record) /\ c.record.status = "broadcast_unknown"
       /\ c.record.nonce = c.old.nonce /\ signed[c.record.hash].key = signed[c.old.hash].key

\* The record a Submit retries: that of its key, and failed unless repeatable.
retries(s) ==
  /\ call[s].id \in DOMAIN txs
  /\ txs[call[s].id].key = call[s].key
  /\ call[s].key \notin RepeatableKeys => txs[call[s].id].status = "failed"

\* What a call knows of the repository while it holds the lease.
Owned(s) ==
  LET c == call[s] IN
  /\ c.at = "sign" /\ c.id # 0 => retries(s) /\ sameCore(c.record, txs[c.id])
  /\ c.at \in {"renew", "persist"} =>
       /\ \A id \in DOMAIN txs : inFlight(id) => txs[id].nonce # c.record.nonce
       /\ c.id # 0 => retries(s) /\ c.record.attempts = txs[c.id].attempts \cup {txs[c.id].hash}
  /\ c.at \in {"send", "refused", "sent", "link", "sendReplacement", "abandon"} =>
       c.id \in DOMAIN txs /\ txs[c.id] = c.record /\ c.record.status = "broadcast_unknown"
  /\ c.at \in {"send", "refused"} /\ c.key \notin RepeatableKeys =>
       /\ \A h \in onNet : signed[h].key # c.key
       /\ \A id \in DOMAIN txs : id # c.id /\ ~settled(txs[id]) => signed[txs[id].hash].key # c.key
  /\ c.at \in Loaded =>
       /\ sameCore(txs[c.oldId], c.old)
       /\ homed(c.old.hash)
       /\ \A id \in DOMAIN txs :
            inFlight(id) /\ txs[id].nonce = c.old.nonce => signed[txs[id].hash].key = signed[c.old.hash].key
  /\ c.at \in {"link", "sendReplacement", "abandon"} => c.id # c.oldId

CallsOK == \A s \in Servers : Local(s) /\ (owns(s) => Owned(s))

\* What a tick knows of the records it read.
Informed(k) ==
  k.at # "idle" => \A r \in k.todo :
    /\ r.id \in DOMAIN txs
    /\ sameCore(r.tx, txs[r.id])
    /\ k.at # "links" => ~settled(r.tx) /\ homed(r.tx.hash)

TicksOK == \A s \in Servers : Informed(tick[s])

Inv == ControlTypeOK /\ Repository /\ Fenced /\ Apart /\ CallsOK /\ TicksOK

-----------------------------------------------------------------------------
(* Nonces.                                                                 *)

\* A bounded set of naturals has a largest element.
LEMMA LargestExists ==
  ASSUME NEW b \in Nat, NEW S \in SUBSET (0..b), S # {}
  PROVE  largest(S) \in S /\ \A m \in S : m <= largest(S)
<1> DEFINE T == {b - n : n \in S}
<1>1. T \subseteq Nat /\ T # {}
  <2>1. \A n \in S : b - n \in Nat
    OBVIOUS
  <2>2. PICK n \in S : TRUE
    OBVIOUS
  <2>3. b - n \in T
    BY <2>2
  <2> QED  BY <2>1, <2>3
<1>2. PICK x \in T : \A y \in T : ~(<<y, x>> \in OpToRel(<, Nat))
  BY <1>1, NatLessThanWellFounded, WFMin, Zenon
<1>3. \A y \in T : ~(y < x)
  BY <1>1, <1>2 DEF OpToRel
<1>4. PICK n \in S : x = b - n
  OBVIOUS
<1>5. \A m \in S : m <= n
  BY <1>3, <1>4
<1> QED  BY <1>5 DEF largest

LEMMA ElementType ==
  ASSUME NEW S, NEW q \in Seq(S)
  PROVE  /\ \A i \in DOMAIN q : q[i] \in S
         /\ DOMAIN q = 1..Len(q) /\ Len(q) \in Nat
OBVIOUS

LEMMA AppendType ==
  ASSUME NEW S, NEW q \in Seq(S), NEW e \in S
  PROVE  /\ Append(q, e) \in Seq(S) /\ Len(Append(q, e)) = Len(q) + 1
         /\ DOMAIN Append(q, e) = 1..(Len(q) + 1)
         /\ DOMAIN q \subseteq DOMAIN Append(q, e)
         /\ \A i \in DOMAIN q : Append(q, e)[i] = q[i]
         /\ Append(q, e)[Len(q) + 1] = e
OBVIOUS

\* The elements of the sequences have their types.
LEMMA Elements ==
  ASSUME DataTypeOK
  PROVE  /\ \A h \in DOMAIN signed : signed[h].key \in Keys /\ signed[h].key # NoKey /\ signed[h].nonce \in Nat
         /\ DOMAIN signed = 1..Len(signed) /\ Len(signed) \in Nat
         /\ \A id \in DOMAIN txs : txs[id] \in Transaction
         /\ DOMAIN txs = 1..Len(txs) /\ Len(txs) \in Nat
         /\ onNet \subseteq DOMAIN signed
         /\ DOMAIN chain = 1..Len(chain) /\ Len(chain) \in Nat
         /\ \A i \in DOMAIN chain : chain[i] # External => chain[i] \in DOMAIN signed /\ chain[i] \in onNet
         /\ External \notin DOMAIN signed
<1>1. \A h \in DOMAIN signed : signed[h] \in [key : Keys, nonce : Nat]
  BY ElementType, Zenon DEF DataTypeOK
<1>2. \A h \in DOMAIN signed : signed[h].key \in Keys /\ signed[h].nonce \in Nat
  BY <1>1
<1>3. \A h \in DOMAIN signed : signed[h].key # NoKey
  BY <1>2, TxAssumption
<1>4. /\ DOMAIN signed = 1..Len(signed) /\ Len(signed) \in Nat
      /\ DOMAIN txs = 1..Len(txs) /\ Len(txs) \in Nat
      /\ DOMAIN chain = 1..Len(chain) /\ Len(chain) \in Nat
  BY ElementType, Zenon DEF DataTypeOK
<1>5. External \notin DOMAIN signed
  BY <1>4, NodeAssumption
<1>6. \A id \in DOMAIN txs : txs[id] \in Transaction
  BY DEF DataTypeOK
<1>7. \A i \in DOMAIN chain : chain[i] \in DOMAIN signed \cup {External}
  BY DEF DataTypeOK
<1>8. /\ onNet \subseteq DOMAIN signed
      /\ \A i \in DOMAIN chain : chain[i] # External => chain[i] \in DOMAIN signed /\ chain[i] \in onNet
  BY <1>7 DEF DataTypeOK, onNet
<1> QED  BY <1>2, <1>3, <1>4, <1>5, <1>6, <1>8

\* allocateNonce is above every nonce that a record still holds.
LEMMA NonceIsNew ==
  ASSUME Repository, NEW pending \in pendingNonces
  PROVE  /\ allocateNonce(pending) \in Nat
         /\ \A id \in DOMAIN txs : inFlight(id) => txs[id].nonce # allocateNonce(pending)
<1> DEFINE S == {pending, nonceAt} \cup {n + 1 : n \in heldNonces}
<1>1. nonceAt \in Nat /\ pending \in Nat
  BY NodeAssumption DEF Repository, DataTypeOK, nonceAt, pendingNonces
<1>2. PICK b \in Nat : \A h \in DOMAIN signed : signed[h].nonce <= b
  BY DEF Repository, NoncesBounded
<1>3. \A n \in heldNonces : n \in Nat /\ n <= b
  BY <1>2, Elements DEF heldNonces, Repository, RecordsFit, fits
<1>4. S \subseteq 0..(b + pending + nonceAt + 1)
  BY <1>1, <1>3
<1>5. largest(S) \in S /\ \A m \in S : m <= largest(S)
  <2>1. S # {} /\ b + pending + nonceAt + 1 \in Nat
    BY <1>1
  <2> HIDE DEF S
  <2> QED  BY <1>4, <2>1, LargestExists
<1>6. allocateNonce(pending) = largest(S)
  BY DEF allocateNonce
<1>7. largest(S) \in Nat
  BY <1>4, <1>5
<1>8. ASSUME NEW id \in DOMAIN txs, inFlight(id)
      PROVE  txs[id].nonce # largest(S)
  <2>1. txs[id].nonce \in heldNonces
    BY <1>8 DEF inFlight, heldNonces, Released
  <2>2. txs[id].nonce + 1 \in S
    BY <2>1
  <2>3. txs[id].nonce + 1 <= largest(S) /\ txs[id].nonce \in Nat
    BY <1>3, <1>5, <2>1, <2>2
  <2> QED  BY <1>7, <2>3
<1> QED  BY <1>6, <1>7, <1>8

-----------------------------------------------------------------------------
(* What a step does to the repository and the network.                     *)

\* A step that keeps what every record stands for, fails none but
\* replacements, lets at most record k enter flight, and adds to the network
\* only what is tracked and homed.
Settles(k) ==
  /\ signed' = signed
  /\ txs' \in Seq(Transaction) /\ DOMAIN txs' = DOMAIN txs
  /\ \A id \in DOMAIN txs :
       /\ sameCore(txs'[id], txs[id])
       /\ txs'[id].status = "failed" => txs[id].status = "failed" \/ txs[id].key = NoKey
       /\ ~settled(txs'[id]) => homed(txs[id].hash)
       /\ inFlight(id)' => inFlight(id) \/ id = k
  /\ k \in DOMAIN txs /\ inFlight(k)' => \A id \in DOMAIN txs :
       inFlight(id) /\ txs[id].nonce = txs[k].nonce => signed[txs[id].hash].key = signed[txs[k].hash].key
  /\ mempool' \subseteq DOMAIN signed /\ chain' \in Seq(DOMAIN signed \cup {External})
  /\ MinedInOrder'
  /\ \A h \in onNet' : h \in onNet \/ (tracked(h) /\ homed(h))

LEMMA SettlesHomes ==
  ASSUME Repository, NEW k, Settles(k), NEW h \in DOMAIN signed, homed(h)
  PROVE  homed(h)'
<1>1. signed[h].key # NoKey /\ signed' = signed
  BY Elements DEF Repository, Settles
<1>2. CASE signed[h].key \in RepeatableKeys
  BY <1>1, <1>2 DEF homed
<1>3. CASE signed[h].key \notin RepeatableKeys
  <2>1. PICK id \in DOMAIN txs :
          txs[id].key = signed[h].key /\ txs[id].status # "failed" /\ txs[id].nonce = signed[h].nonce
    BY <1>3 DEF homed
  <2>2. id \in DOMAIN txs' /\ txs'[id].key = txs[id].key /\ txs'[id].nonce = txs[id].nonce /\ txs'[id].status # "failed"
    BY <1>1, <2>1 DEF Settles, sameCore
  <2> QED  BY <1>1, <2>1, <2>2 DEF homed
<1> QED  BY <1>2, <1>3

LEMMA SettlesKeeps ==
  ASSUME Repository, NEW k, Settles(k)
  PROVE  Repository'
<1>0. /\ signed' = signed /\ DOMAIN txs' = DOMAIN txs
      /\ \A id \in DOMAIN txs : sameCore(txs'[id], txs[id])
  BY DEF Settles
<1>1. DataTypeOK'
  BY DEF Repository, DataTypeOK, Settles
<1>2. NoncesBounded' /\ KeysUnique'
  BY <1>0 DEF Repository, NoncesBounded, KeysUnique, sameCore
<1>3. RecordsFit'
  BY <1>0 DEF Repository, RecordsFit, fits, sameCore
<1>4. Homed'
  <2>1. ASSUME NEW h \in onNet'
        PROVE  homed(h)'
    <3>1. h \in DOMAIN signed
      BY <1>0, <1>1 DEF DataTypeOK, onNet
    <3>2. homed(h)
      BY <2>1 DEF Settles, Repository, Homed
    <3> QED  BY <3>1, <3>2, SettlesHomes
  <2>2. ASSUME NEW id \in DOMAIN txs', ~settled(txs'[id])
        PROVE  homed(txs[id].hash)'
    <3>1. txs'[id].hash = txs[id].hash /\ homed(txs[id].hash)
      BY <1>0, <2>2 DEF Settles, sameCore
    <3>2. PICK h \in DOMAIN signed : h = txs[id].hash
      BY <1>0, <2>2 DEF Repository, RecordsFit, fits
    <3>3. homed(h)'
      BY <3>1, <3>2, SettlesHomes
    <3> QED  BY <3>1, <3>2, <3>3 DEF homed
  <2> QED  BY <2>1, <2>2 DEF Homed
<1>5. Tracked'
  <2>1. \A h : tracked(h) => tracked(h)'
    BY <1>0 DEF tracked, sameCore
  <2>2. \A h \in onNet : tracked(h)
    BY DEF Repository, Tracked, onNet
  <2>3. \A h \in onNet' : tracked(h)'
    BY <2>1, <2>2 DEF Settles
  <2> QED  BY <2>3 DEF Tracked, onNet
<1>6. NonceNotShared'
  <2> SUFFICES ASSUME NEW i \in DOMAIN txs', NEW j \in DOMAIN txs', inFlight(i)', inFlight(j)',
                      txs'[i].nonce = txs'[j].nonce
               PROVE  signed'[txs'[i].hash].key = signed'[txs'[j].hash].key
    BY DEF NonceNotShared
  <2>1. /\ txs[i].nonce = txs[j].nonce /\ txs'[i].hash = txs[i].hash /\ txs'[j].hash = txs[j].hash
        /\ i \in DOMAIN txs /\ j \in DOMAIN txs
    BY <1>0 DEF sameCore
  <2>2. (inFlight(i) \/ i = k) /\ (inFlight(j) \/ j = k)
    BY <2>1 DEF Settles
  <2>3. CASE inFlight(i) /\ inFlight(j)
    BY <1>0, <2>1, <2>3 DEF Repository, NonceNotShared
  <2>4. CASE i = k
    BY <1>0, <2>1, <2>2, <2>4 DEF Settles
  <2>5. CASE j = k
    BY <1>0, <2>1, <2>2, <2>5 DEF Settles
  <2> QED  BY <2>2, <2>3, <2>4, <2>5
<1> QED  BY <1>1, <1>2, <1>3, <1>4, <1>5, <1>6 DEF Repository, Settles

\* One more transaction is signed.
LEMMA SignKeeps ==
  ASSUME Repository, NEW key \in Keys, NEW nonce \in Nat,
         signed' = Append(signed, [key |-> key, nonce |-> nonce]),
         UNCHANGED <<mempool, chain, txs>>
  PROVE  /\ Repository'
         /\ DOMAIN signed \subseteq DOMAIN signed' /\ \A h \in DOMAIN signed : signed'[h] = signed[h]
         /\ Len(signed) + 1 \in DOMAIN signed'
         /\ signed'[Len(signed) + 1].key = key /\ signed'[Len(signed) + 1].nonce = nonce
         /\ onNet' = onNet
<1> DEFINE new == [key |-> key, nonce |-> nonce]
<1>1. new \in [key : Keys, nonce : Nat] /\ new.key = key /\ new.nonce = nonce
  OBVIOUS
<1>2. signed \in Seq([key : Keys, nonce : Nat])
  BY DEF Repository, DataTypeOK
<1>3. /\ signed' \in Seq([key : Keys, nonce : Nat])
      /\ DOMAIN signed' = 1..(Len(signed) + 1)
      /\ DOMAIN signed \subseteq DOMAIN signed'
      /\ \A h \in DOMAIN signed : signed'[h] = signed[h]
      /\ signed'[Len(signed) + 1] = new
  <2> HIDE DEF new
  <2>1. signed' = Append(signed, new)
    BY DEF new
  <2> QED  BY <1>1, <1>2, <2>1, AppendType
<1>4. Len(signed) \in Nat
  BY Elements DEF Repository
<1>5. Len(signed) + 1 \in DOMAIN signed'
  BY <1>3, <1>4
<1>6. onNet' = onNet
  BY DEF onNet
<1>7. /\ \A h \in DOMAIN signed : homed(h) => homed(h)'
      /\ \A tx : fits(tx) => fits(tx)'
  BY <1>3 DEF homed, fits
<1>8. DataTypeOK'
  <2>1. chain' \in Seq(DOMAIN signed' \cup {External})
    <3>1. chain \in Seq(DOMAIN signed \cup {External}) /\ chain' = chain
      BY DEF Repository, DataTypeOK
    <3>2. DOMAIN signed \cup {External} \subseteq DOMAIN signed' \cup {External}
      BY <1>3
    <3> QED  BY <3>1, <3>2
  <2> QED  BY <1>3, <2>1 DEF Repository, DataTypeOK
<1>9. NoncesBounded'
  <2>1. PICK b \in Nat : \A h \in DOMAIN signed : signed[h].nonce <= b
    BY DEF Repository, NoncesBounded
  <2>2. \A h \in DOMAIN signed' : signed'[h].nonce \in Nat /\ signed'[h].nonce <= b + nonce
    <3>1. \A h \in DOMAIN signed' : h \in DOMAIN signed \/ h = Len(signed) + 1
      BY <1>3, <1>4, Elements DEF Repository
    <3>2. \A h \in DOMAIN signed : signed[h].nonce \in Nat
      BY Elements DEF Repository
    <3>3. \A h \in DOMAIN signed : signed'[h].nonce \in Nat /\ signed'[h].nonce <= b + nonce
      BY <1>3, <2>1, <3>2
    <3>4. signed'[Len(signed) + 1].nonce \in Nat /\ signed'[Len(signed) + 1].nonce <= b + nonce
      BY <1>1, <1>3
    <3> QED  BY <3>1, <3>3, <3>4
  <2>3. b + nonce \in Nat
    OBVIOUS
  <2> QED  BY <2>2, <2>3 DEF NoncesBounded
<1>10. RecordsFit' /\ KeysUnique'
  BY <1>7 DEF Repository, RecordsFit, KeysUnique
<1>11. MinedInOrder'
  <2>1. \A i \in DOMAIN chain : chain[i] # External => chain[i] \in DOMAIN signed
    BY Elements DEF Repository
  <2> QED  BY <1>3, <2>1 DEF Repository, MinedInOrder
<1>12. Homed'
  <2>1. \A h \in onNet : h \in DOMAIN signed /\ homed(h)
    BY Elements DEF Repository, Homed
  <2>2. \A id \in DOMAIN txs : txs[id].hash \in DOMAIN signed
    BY DEF Repository, RecordsFit, fits
  <2>3. ASSUME NEW id \in DOMAIN txs', ~settled(txs'[id])
        PROVE  homed(txs[id].hash)'
    <3>1. PICK h \in DOMAIN signed : h = txs[id].hash
      BY <2>2
    <3>2. homed(h)
      BY <2>3, <3>1 DEF Repository, Homed
    <3>3. homed(h)'
      BY <1>7, <3>2
    <3> QED  BY <3>1, <3>3 DEF homed
  <2>4. \A h \in onNet' : homed(h)'
    BY <1>6, <1>7, <2>1
  <2> QED  BY <2>3, <2>4 DEF Homed
<1>13. Tracked'
  BY DEF Repository, Tracked, tracked
<1>14. NonceNotShared'
  <2>1. \A id \in DOMAIN txs : txs[id].hash \in DOMAIN signed
    BY DEF Repository, RecordsFit, fits
  <2> QED  BY <1>3, <2>1 DEF Repository, NonceNotShared, inFlight
<1> QED
  BY <1>1, <1>3, <1>5, <1>6, <1>8, <1>9, <1>10, <1>11, <1>12, <1>13, <1>14 DEF Repository

\* Nothing is on the network for an operation whose only record failed.
LEMMA Unspent ==
  ASSUME Repository, NEW key \in Keys \ RepeatableKeys,
         \A id \in DOMAIN txs : txs[id].key = key => txs[id].status = "failed"
  PROVE  /\ \A h \in onNet : signed[h].key # key
         /\ \A id \in DOMAIN txs : ~settled(txs[id]) => signed[txs[id].hash].key # key
BY DEF Repository, Homed, homed

\* A record is created: for a new operation, or for a replacement.
LEMMA AppendKeeps ==
  ASSUME Repository, NEW tx \in Transaction, fits(tx), tx.status = "broadcast_unknown",
         tx.key # NoKey => withKey(tx.key) = {},
         tx.key = NoKey => homed(tx.hash),
         \A id \in DOMAIN txs : inFlight(id) /\ txs[id].nonce = tx.nonce =>
           signed[txs[id].hash].key = signed[tx.hash].key,
         txs' = Append(txs, tx), UNCHANGED <<signed, mempool, chain>>
  PROVE  /\ Repository'
         /\ DOMAIN txs \subseteq DOMAIN txs' /\ \A id \in DOMAIN txs : txs'[id] = txs[id]
         /\ DOMAIN txs' = DOMAIN txs \cup {Len(txs) + 1}
         /\ Len(txs) + 1 \notin DOMAIN txs /\ txs'[Len(txs) + 1] = tx
         /\ \A h \in DOMAIN signed : homed(h) => homed(h)'
<1> DEFINE new == Len(txs) + 1
<1>1. /\ txs' \in Seq(Transaction) /\ DOMAIN txs' = DOMAIN txs \cup {new} /\ new \notin DOMAIN txs
      /\ \A id \in DOMAIN txs : txs'[id] = txs[id]
      /\ txs'[new] = tx
  <2>1. txs \in Seq(Transaction) /\ DOMAIN txs = 1..Len(txs) /\ Len(txs) \in Nat
    BY Elements DEF Repository, DataTypeOK
  <2>2. 1..(Len(txs) + 1) = (1..Len(txs)) \cup {Len(txs) + 1} /\ Len(txs) + 1 \notin 1..Len(txs)
    BY <2>1
  <2> QED  BY <2>1, <2>2, AppendType
<1> HIDE DEF new
<1>2. onNet' = onNet
  BY DEF onNet
<1>3. \A h : homed(h) => homed(h)'
  BY <1>1 DEF homed
<1>4. \A h \in DOMAIN signed : h = tx.hash => homed(h)'
  <2>1. CASE tx.key = NoKey
    BY <1>3, <2>1
  <2>2. CASE tx.key # NoKey
    BY <1>1, <2>2 DEF homed, fits
  <2> QED  BY <2>1, <2>2
<1>5. DataTypeOK'
  BY <1>1 DEF Repository, DataTypeOK
<1>6. NoncesBounded' /\ MinedInOrder'
  BY DEF Repository, NoncesBounded, MinedInOrder
<1>7. RecordsFit'
  BY <1>1 DEF Repository, RecordsFit, fits
<1>8. KeysUnique'
  <2>1. \A id \in DOMAIN txs : tx.key # NoKey => txs[id].key # tx.key
    BY DEF withKey
  <2> QED  BY <1>1, <2>1 DEF Repository, KeysUnique
<1>9. Homed'
  <2>1. \A h \in onNet' : homed(h)'
    BY <1>2, <1>3 DEF Repository, Homed
  <2>2. ASSUME NEW id \in DOMAIN txs', ~settled(txs'[id])
        PROVE  \E h \in DOMAIN signed : h = txs'[id].hash /\ homed(h)'
    <3>1. CASE id = new
      BY <1>1, <1>4, <3>1 DEF fits
    <3>2. CASE id # new
      <4>1. id \in DOMAIN txs /\ txs'[id] = txs[id]
        BY <1>1, <3>2
      <4>2. txs[id].hash \in DOMAIN signed /\ homed(txs[id].hash)
        BY <2>2, <4>1 DEF Repository, RecordsFit, fits, Homed
      <4>3. PICK h \in DOMAIN signed : h = txs[id].hash
        BY <4>2
      <4>4. homed(h)'
        BY <1>3, <4>2, <4>3
      <4> QED  BY <4>1, <4>3, <4>4
    <3> QED  BY <3>1, <3>2
  <2>3. ASSUME NEW id \in DOMAIN txs', ~settled(txs'[id])
        PROVE  homed(txs[id].hash)'
    <3>1. PICK h \in DOMAIN signed : h = txs'[id].hash /\ homed(h)'
      BY <2>2, <2>3
    <3> QED  BY <3>1 DEF homed
  <2> QED  BY <2>1, <2>3 DEF Homed
<1>10. Tracked'
  <2>1. \A h : tracked(h) => tracked(h)'
    BY <1>1 DEF tracked
  <2> QED  BY <2>1 DEF Repository, Tracked
<1>11. NonceNotShared'
  <2> SUFFICES ASSUME NEW i \in DOMAIN txs', NEW j \in DOMAIN txs', inFlight(i)', inFlight(j)',
                      txs'[i].nonce = txs'[j].nonce
               PROVE  signed[txs'[i].hash].key = signed[txs'[j].hash].key
    BY DEF NonceNotShared
  <2>1. CASE i # new /\ j # new
    BY <1>1, <2>1 DEF Repository, NonceNotShared, inFlight
  <2>2. CASE i = new /\ j # new
    BY <1>1, <2>2 DEF inFlight
  <2>3. CASE i # new /\ j = new
    BY <1>1, <2>3 DEF inFlight
  <2> QED  BY <2>1, <2>2, <2>3
<1> QED  BY <1>1, <1>3, <1>5, <1>6, <1>7, <1>8, <1>9, <1>10, <1>11 DEF Repository, new

\* A retry overwrites the record of its key.
LEMMA RetryKeeps ==
  ASSUME Repository, NEW id \in DOMAIN txs, NEW tx \in Transaction, fits(tx), tx.status = "broadcast_unknown",
         tx.key = txs[id].key, tx.key \in Keys,
         tx.key \notin RepeatableKeys => txs[id].status = "failed",
         tx.attempts = txs[id].attempts \cup {txs[id].hash},
         \A i \in DOMAIN txs : inFlight(i) => txs[i].nonce # tx.nonce,
         txs' = [txs EXCEPT ![id] = tx], UNCHANGED <<signed, mempool, chain>>
  PROVE  Repository'
<1>0. tx.key # NoKey
  BY TxAssumption
<1>1. /\ txs' \in Seq(Transaction) /\ DOMAIN txs' = DOMAIN txs
      /\ \A i \in DOMAIN txs : i # id => txs'[i] = txs[i]
      /\ txs'[id] = tx
  BY DEF Repository, DataTypeOK
<1>2. onNet' = onNet
  BY DEF onNet
<1>3. \A i \in DOMAIN txs : txs[i].key = tx.key => i = id
  BY <1>0 DEF Repository, KeysUnique
<1>4. ASSUME NEW h \in DOMAIN signed, homed(h)
      PROVE  homed(h)'
  <2>1. CASE signed[h].key \in RepeatableKeys
    BY <2>1 DEF homed
  <2>2. CASE signed[h].key \notin RepeatableKeys
    <3>1. PICK i \in DOMAIN txs :
            txs[i].key = signed[h].key /\ txs[i].status # "failed" /\ txs[i].nonce = signed[h].nonce
      BY <1>4, <2>2 DEF homed
    <3>2. i # id
      BY <2>2, <3>1
    <3> QED  BY <1>1, <3>1, <3>2 DEF homed
  <2> QED  BY <2>1, <2>2
<1>5. DataTypeOK'
  BY <1>1 DEF Repository, DataTypeOK
<1>6. NoncesBounded' /\ MinedInOrder'
  BY DEF Repository, NoncesBounded, MinedInOrder
<1>7. RecordsFit'
  BY <1>1 DEF Repository, RecordsFit, fits
<1>8. KeysUnique'
  BY <1>1, <1>3 DEF Repository, KeysUnique
<1>9. Homed'
  <2>1. \A h \in onNet' : homed(h)'
    BY <1>2, <1>4, Elements DEF Repository, Homed
  <2>2. ASSUME NEW i \in DOMAIN txs', ~settled(txs'[i])
        PROVE  homed(txs[i].hash)'
    <3>1. CASE i = id
      <4>1. PICK h \in DOMAIN signed : h = tx.hash /\ signed[h].key = tx.key /\ signed[h].nonce = tx.nonce
        BY <1>0 DEF fits
      <4>2. homed(h)'
        BY <1>1, <4>1 DEF homed
      <4> QED  BY <1>1, <3>1, <4>1, <4>2 DEF homed
    <3>2. CASE i # id
      <4>1. i \in DOMAIN txs /\ txs'[i] = txs[i]
        BY <1>1, <3>2
      <4>2. PICK h \in DOMAIN signed : h = txs[i].hash
        BY <4>1 DEF Repository, RecordsFit, fits
      <4>3. homed(h)'
        BY <1>4, <2>2, <4>1, <4>2 DEF Repository, Homed
      <4> QED  BY <4>1, <4>2, <4>3 DEF homed
    <3> QED  BY <3>1, <3>2
  <2> QED  BY <2>1, <2>2 DEF Homed
<1>10. Tracked'
  <2>1. \A h : tracked(h) => tracked(h)'
    BY <1>1 DEF tracked
  <2> QED  BY <2>1 DEF Repository, Tracked
<1>11. NonceNotShared'
  BY <1>1 DEF Repository, NonceNotShared, inFlight
<1> QED  BY <1>5, <1>6, <1>7, <1>8, <1>9, <1>10, <1>11 DEF Repository

\* The node refuses a transaction that is nowhere on the network.
LEMMA RefusalKeeps ==
  ASSUME Repository, NEW id \in DOMAIN txs, NEW tx, tx = [txs[id] EXCEPT !.status = "failed"],
         txs[id].key \in Keys,
         txs[id].key \notin RepeatableKeys =>
           /\ \A h \in onNet : signed[h].key # txs[id].key
           /\ \A i \in DOMAIN txs : i # id /\ ~settled(txs[i]) => signed[txs[i].hash].key # txs[id].key,
         txs' = [txs EXCEPT ![id] = tx], UNCHANGED <<signed, mempool, chain>>
  PROVE  Repository'
<1>0. tx \in Transaction /\ sameCore(tx, txs[id]) /\ tx.status = "failed"
  <2>1. txs[id] \in Transaction
    BY Elements DEF Repository
  <2> QED  BY <2>1 DEF Transaction, TxStatus, sameCore
<1>1. /\ txs' \in Seq(Transaction) /\ DOMAIN txs' = DOMAIN txs
      /\ \A i \in DOMAIN txs : i # id => txs'[i] = txs[i]
      /\ txs'[id] = tx
  BY <1>0 DEF Repository, DataTypeOK
<1>2. onNet' = onNet /\ \A i \in DOMAIN txs : sameCore(txs'[i], txs[i])
  BY <1>0, <1>1 DEF onNet, sameCore
<1>3. ASSUME NEW h \in DOMAIN signed, homed(h), signed[h].key # txs[id].key \/ txs[id].key \in RepeatableKeys
      PROVE  homed(h)'
  <2>1. CASE signed[h].key \in RepeatableKeys
    BY <2>1 DEF homed
  <2>2. CASE signed[h].key \notin RepeatableKeys
    <3>1. PICK i \in DOMAIN txs :
            txs[i].key = signed[h].key /\ txs[i].status # "failed" /\ txs[i].nonce = signed[h].nonce
      BY <1>3, <2>2 DEF homed
    <3>2. i # id
      BY <1>3, <2>2, <3>1
    <3> QED  BY <1>1, <3>1, <3>2 DEF homed
  <2> QED  BY <2>1, <2>2
<1>5. DataTypeOK'
  BY <1>1 DEF Repository, DataTypeOK
<1>6. NoncesBounded' /\ MinedInOrder'
  BY DEF Repository, NoncesBounded, MinedInOrder
<1>7. RecordsFit' /\ KeysUnique'
  BY <1>1, <1>2 DEF Repository, RecordsFit, KeysUnique, fits, sameCore
<1>9. Homed'
  <2>1. \A h \in onNet' : homed(h)'
    BY <1>2, <1>3, Elements DEF Repository, Homed
  <2>2. ASSUME NEW i \in DOMAIN txs', ~settled(txs'[i])
        PROVE  homed(txs[i].hash)'
    <3>1. i # id /\ i \in DOMAIN txs /\ txs'[i] = txs[i]
      BY <1>0, <1>1, <2>2 DEF settled
    <3>2. PICK h \in DOMAIN signed : h = txs[i].hash
      BY <3>1 DEF Repository, RecordsFit, fits
    <3>3. homed(h)'
      BY <1>3, <2>2, <3>1, <3>2 DEF Repository, Homed
    <3> QED  BY <3>1, <3>2, <3>3 DEF homed
  <2> QED  BY <2>1, <2>2 DEF Homed
<1>10. Tracked'
  <2>1. \A h : tracked(h) => tracked(h)'
    BY <1>1, <1>2 DEF tracked, sameCore
  <2> QED  BY <2>1 DEF Repository, Tracked
<1>11. NonceNotShared'
  <2>1. \A i \in DOMAIN txs : inFlight(i)' => inFlight(i) /\ i # id
    BY <1>0, <1>1 DEF inFlight
  <2> QED  BY <1>1, <2>1 DEF Repository, NonceNotShared
<1> QED  BY <1>5, <1>6, <1>7, <1>9, <1>10, <1>11 DEF Repository

\* A step that touches neither the repository nor what was signed, and adds to
\* the network at most a transaction that is tracked and homed.
LEMMA NetworkKeeps ==
  ASSUME Repository, UNCHANGED <<signed, txs>>,
         mempool' \subseteq DOMAIN signed, chain' \in Seq(DOMAIN signed \cup {External}), MinedInOrder',
         \A h \in onNet' : h \in onNet \/ (tracked(h) /\ homed(h))
  PROVE  Repository'
<1>1. 0 \notin DOMAIN txs
  BY Elements DEF Repository
<1>2. Settles(0)
  BY <1>1 DEF Settles, sameCore, inFlight, Repository, DataTypeOK, Homed
<1> QED  BY <1>2, SettlesKeeps

\* The node answers a call with the hash of a transaction.
LEMMA Sending ==
  ASSUME DataTypeOK, NEW hash \in DOMAIN signed, NEW answer, sendTransaction(hash, answer), UNCHANGED chain
  PROVE  /\ mempool' \subseteq DOMAIN signed
         /\ onNet' \subseteq onNet \cup {hash}
         /\ answer = "rejected" => mempool' = mempool
BY DEF DataTypeOK, sendTransaction, onNet

NetworkShrinks ==
  /\ signed' = signed /\ mempool' \subseteq DOMAIN signed /\ chain' \in Seq(DOMAIN signed \cup {External})
  /\ MinedInOrder' /\ onNet' \subseteq onNet

\* The network of its own mines, reorganises and drops.
LEMMA NodeKeeps ==
  ASSUME Repository, NodeNext, UNCHANGED txs
  PROVE  Repository' /\ onNet' \subseteq onNet /\ signed' = signed
<1>0. /\ chain \in Seq(DOMAIN signed \cup {External}) /\ mempool \subseteq DOMAIN signed
      /\ DOMAIN chain = 1..Len(chain) /\ Len(chain) \in Nat /\ External \notin DOMAIN signed
      /\ \A i \in DOMAIN chain : chain[i] # External => chain[i] \in DOMAIN signed /\ chain[i] \in onNet
  BY Elements DEF Repository, DataTypeOK
<1>1. NetworkShrinks
  <2>1. ASSUME NEW x \in DOMAIN signed \cup {External}, chain' = Append(chain, x), mempool' \subseteq mempool,
               signed' = signed, x # External => x \in mempool /\ signed[x].nonce = nonceAt
        PROVE  NetworkShrinks
    <3>1. /\ chain' \in Seq(DOMAIN signed \cup {External}) /\ DOMAIN chain' = 1..(Len(chain) + 1)
          /\ \A i \in DOMAIN chain : chain'[i] = chain[i]
          /\ chain'[Len(chain) + 1] = x
      BY <1>0, <2>1, AppendType
    <3>2. \A i \in DOMAIN chain' : i \in DOMAIN chain \/ i = Len(chain) + 1
      BY <1>0, <3>1
    <3> QED  BY <1>0, <2>1, <3>1, <3>2 DEF NetworkShrinks, onNet, Repository, MinedInOrder, nonceAt
  <2>2. CASE \E h \in mempool : mine(h)
    BY <1>0, <2>1, <2>2 DEF mine
  <2>3. CASE useExternally
    BY <2>1, <2>3 DEF useExternally
  <2>4. ASSUME NEW kept \in BOOLEAN, reorg(kept)
        PROVE  NetworkShrinks
    <3>1. /\ chain' \in Seq(DOMAIN signed \cup {External}) /\ DOMAIN chain' \subseteq DOMAIN chain
          /\ \A i \in DOMAIN chain' : chain'[i] = chain[i]
      BY <1>0, <2>4 DEF reorg, Front
    <3>2. Last(chain) # External => Last(chain) \in DOMAIN signed /\ Last(chain) \in onNet
      BY <1>0, <2>4 DEF reorg, Last
    <3>3. mempool' \subseteq mempool \cup (IF Last(chain) # External THEN {Last(chain)} ELSE {}) /\ signed' = signed
      BY <2>4 DEF reorg
    <3> QED  BY <1>0, <3>1, <3>2, <3>3 DEF NetworkShrinks, onNet, Repository, MinedInOrder
  <2>5. CASE \E h \in mempool : evict(h)
    BY <1>0, <2>5 DEF evict, NetworkShrinks, onNet, Repository, MinedInOrder
  <2> QED  BY <2>2, <2>3, <2>4, <2>5 DEF NodeNext
<1> QED  BY <1>1, NetworkKeeps DEF NetworkShrinks

-----------------------------------------------------------------------------
(* What the others know after a step.                                      *)

\* Transactions stay signed and records stay.
Extends ==
  /\ DOMAIN signed \subseteq DOMAIN signed' /\ \A h \in DOMAIN signed : signed'[h] = signed[h]
  /\ DOMAIN txs \subseteq DOMAIN txs'

\* What a step may do that is not the lease holder's: nothing to what is in
\* flight but hand a pending record to the operator.
Calm ==
  /\ Extends
  /\ onNet' \subseteq onNet
  /\ DOMAIN txs' = DOMAIN txs
  /\ \A id \in DOMAIN txs :
       \/ txs'[id] = txs[id]
       \/ txs[id].status = "pending" /\ txs'[id] = [txs[id] EXCEPT !.status = "needs_intervention"]

LEMMA LocalKept ==
  ASSUME NEW t \in Servers, Local(t), call'[t] = call[t], Extends
  PROVE  Local(t)'
<1> DEFINE c == call[t]
<1>1. \A tx : fits(tx) => fits(tx)' /\ tx.hash \in DOMAIN signed /\ signed'[tx.hash] = signed[tx.hash]
  BY DEF Extends, fits
<1>2. c.at \in Signed => fits(c.record)'
  BY <1>1 DEF Local
<1>3. c.at \in Loaded => fits(c.old)' /\ c.old.hash \in DOMAIN signed /\ signed'[c.old.hash] = signed[c.old.hash]
  BY <1>1 DEF Local
<1>4. c.at \in SignedAgain =>
        fits(c.record)' /\ c.record.hash \in DOMAIN signed /\ signed'[c.record.hash] = signed[c.record.hash]
  BY <1>1 DEF Local
<1>5. SignedAgain \subseteq Loaded
  BY DEF SignedAgain
<1>6. c.at \in Replacing => c.oldId \in DOMAIN txs'
  BY DEF Local, Extends
<1> QED  BY <1>2, <1>3, <1>4, <1>5, <1>6 DEF Local, fits

LEMMA CalmRecords ==
  ASSUME Repository, Calm
  PROVE  /\ \A id \in DOMAIN txs :
              /\ sameCore(txs'[id], txs[id])
              /\ inFlight(id)' => inFlight(id)
              /\ txs'[id].status = "failed" <=> txs[id].status = "failed"
              /\ settled(txs'[id]) <=> settled(txs[id])
              /\ txs[id].status # "pending" => txs'[id] = txs[id]
         /\ \A h \in DOMAIN signed : homed(h) => homed(h)'
<1>1. ASSUME NEW id \in DOMAIN txs
      PROVE  /\ sameCore(txs'[id], txs[id])
             /\ inFlight(id)' => inFlight(id)
             /\ txs'[id].status = "failed" <=> txs[id].status = "failed"
             /\ settled(txs'[id]) <=> settled(txs[id])
             /\ txs[id].status # "pending" => txs'[id] = txs[id]
  <2>1. CASE txs'[id] = txs[id]
    BY <2>1 DEF sameCore, inFlight
  <2>2. CASE txs[id].status = "pending" /\ txs'[id] = [txs[id] EXCEPT !.status = "needs_intervention"]
    <3>1. txs[id] \in Transaction
      BY Elements DEF Repository
    <3> QED  BY <2>2, <3>1 DEF Transaction, sameCore, inFlight, settled
  <2> QED  BY <2>1, <2>2 DEF Calm
<1>2. \A h \in DOMAIN signed : homed(h) => homed(h)'
  BY <1>1 DEF homed, Calm, Extends, sameCore
<1> QED  BY <1>1, <1>2

LEMMA OwnedKept ==
  ASSUME Repository, NEW t \in Servers, Local(t), Owned(t), call'[t] = call[t], Calm
  PROVE  Owned(t)'
<1> DEFINE c == call[t]
<1>1. /\ \A id \in DOMAIN txs :
           /\ sameCore(txs'[id], txs[id])
           /\ inFlight(id)' => inFlight(id)
           /\ txs'[id].status = "failed" <=> txs[id].status = "failed"
           /\ settled(txs'[id]) <=> settled(txs[id])
           /\ txs[id].status # "pending" => txs'[id] = txs[id]
      /\ \A h \in DOMAIN signed : homed(h) => homed(h)'
  BY CalmRecords
<1>2. /\ DOMAIN txs' = DOMAIN txs /\ onNet' \subseteq onNet
      /\ DOMAIN signed \subseteq DOMAIN signed' /\ \A h \in DOMAIN signed : signed'[h] = signed[h]
      /\ \A h \in onNet : h \in DOMAIN signed
      /\ \A id \in DOMAIN txs : txs[id].hash \in DOMAIN signed
  BY Elements DEF Calm, Extends, Repository, RecordsFit, fits
<1>3. retries(t) => retries(t)'
  BY <1>1, <1>2 DEF retries, sameCore
<1>4. c.at = "sign" /\ c.id # 0 => retries(t)' /\ sameCore(c.record, txs'[c.id])
  BY <1>1, <1>3 DEF Owned, retries, sameCore
<1>5. c.at \in {"renew", "persist"} =>
        /\ \A id \in DOMAIN txs : inFlight(id)' => txs'[id].nonce # c.record.nonce
        /\ c.id # 0 => retries(t)' /\ c.record.attempts = txs'[c.id].attempts \cup {txs'[c.id].hash}
  BY <1>1, <1>3 DEF Owned, retries, sameCore
<1>6. c.at \in {"send", "refused", "sent", "link", "sendReplacement", "abandon"} =>
        c.id \in DOMAIN txs /\ txs'[c.id] = c.record /\ c.record.status = "broadcast_unknown"
  BY <1>1 DEF Owned
<1>7. c.at \in {"send", "refused"} /\ c.key \notin RepeatableKeys =>
        /\ \A h \in onNet' : signed'[h].key # c.key
        /\ \A id \in DOMAIN txs : id # c.id /\ ~settled(txs'[id]) => signed'[txs'[id].hash].key # c.key
  BY <1>1, <1>2 DEF Owned, sameCore
<1>8. c.at \in Loaded =>
        /\ sameCore(txs'[c.oldId], c.old)
        /\ homed(c.old.hash)'
        /\ \A id \in DOMAIN txs :
             inFlight(id)' /\ txs'[id].nonce = c.old.nonce => signed'[txs'[id].hash].key = signed'[c.old.hash].key
  <2> SUFFICES ASSUME c.at \in Loaded
               PROVE  /\ sameCore(txs'[c.oldId], c.old)
                      /\ homed(c.old.hash)'
                      /\ \A id \in DOMAIN txs :
                           inFlight(id)' /\ txs'[id].nonce = c.old.nonce =>
                             signed'[txs'[id].hash].key = signed'[c.old.hash].key
    OBVIOUS
  <2>1. c.oldId \in DOMAIN txs /\ sameCore(txs[c.oldId], c.old)
    BY DEF Local, Owned, Replacing
  <2>2. PICK h \in DOMAIN signed : h = c.old.hash /\ homed(h)
    BY DEF Local, Owned, fits
  <2>3. homed(h)'
    BY <1>1, <2>2
  <2>4. homed(c.old.hash)'
    BY <2>2, <2>3 DEF homed
  <2>5. \A id \in DOMAIN txs :
          inFlight(id) /\ txs[id].nonce = c.old.nonce => signed[txs[id].hash].key = signed[c.old.hash].key
    BY DEF Owned
  <2> QED  BY <1>1, <1>2, <2>1, <2>2, <2>4, <2>5 DEF sameCore
<1>9. c.at \in {"link", "sendReplacement", "abandon"} => c.id # c.oldId
  BY DEF Owned
<1> QED  BY <1>2, <1>4, <1>5, <1>6, <1>7, <1>8, <1>9 DEF Owned, homed

SameHolder == lease'.holder = lease.holder /\ lease'.token = lease.token

\* What the steps of a call have in common: it changes only its own place, the
\* ticks rest, and the lease stays with its holder or is taken when it is free.
CallMoves(s) ==
  /\ quiet /\ UNCHANGED tick
  /\ LeaseTypeOK' /\ call' \in [Servers -> Call]
  /\ \A t \in Servers : t # s => call'[t] = call[t]
  /\ SameHolder \/ (lease'.holder = s /\ ~lease.live)
  /\ lease' = lease \/ lease'.live \/ owns(s)
  /\ call'[s].at \in AfterRenewal => owns(s)' /\ lease'.live
  /\ Extends
  /\ Calm \/ (call[s].at \in AfterRenewal /\ SameHolder)

LEMMA OthersKept ==
  ASSUME Inv, NEW s \in Servers, CallMoves(s), NEW t \in Servers, t # s
  PROVE  Local(t)' /\ (owns(t)' => Owned(t)')
<1>1. Local(t) /\ (owns(t) => Owned(t)) /\ call'[t] = call[t]
  BY DEF Inv, CallsOK, CallMoves
<1>2. Local(t)'
  BY <1>1, LocalKept DEF CallMoves
<1>3. ASSUME owns(t)'
      PROVE  Owned(t)'
  <2>1. SameHolder /\ owns(t)
    BY <1>1, <1>3 DEF CallMoves, SameHolder, owns, holds
  <2>2. ~owns(s)
    BY <2>1 DEF owns, holds
  <2>3. Calm
    BY <2>2 DEF CallMoves, Inv, Fenced
  <2> QED  BY <1>1, <2>1, <2>3, OwnedKept DEF Inv
<1> QED  BY <1>2, <1>3

LEMMA CallMovesKeep ==
  ASSUME Inv, NEW s \in Servers, CallMoves(s), Repository', Local(s)', owns(s)' => Owned(s)'
  PROVE  Inv'
<1>1. ControlTypeOK'
  BY DEF Inv, ControlTypeOK, CallMoves
<1>2. Fenced'
  <2> SUFFICES ASSUME NEW t \in Servers, call'[t].at \in AfterRenewal
               PROVE  owns(t)' /\ lease'.live
    BY DEF Fenced
  <2>1. CASE t = s
    BY <2>1 DEF CallMoves
  <2>2. CASE t # s
    <3>1. call'[t] = call[t] /\ owns(t) /\ lease.live
      BY <2>2 DEF CallMoves, Inv, Fenced
    <3>2. SameHolder /\ ~owns(s)
      BY <2>2, <3>1 DEF CallMoves, owns, holds
    <3> QED  BY <3>1, <3>2 DEF CallMoves, SameHolder, owns, holds
  <2> QED  BY <2>1, <2>2
<1>3. Apart' /\ TicksOK'
  BY DEF CallMoves, quiet, Apart, TicksOK, Informed
<1>4. CallsOK'
  BY OthersKept DEF CallsOK
<1> QED  BY <1>1, <1>2, <1>3, <1>4 DEF Inv

\* A call that is under way meets no tick.
LEMMA CallsQuiet ==
  ASSUME Inv, NEW s \in Servers, call[s].at # "idle"
  PROVE  quiet
BY DEF Inv, Apart, idle, quiet

LEMMA NoCallType == NoRecord \in Transaction /\ NoCall \in Call
BY TxAssumption DEF NoRecord, NoCall, Transaction, TxStatus, Call

\* A call returns and releases its lease.
LEMMA ReturnKeeps ==
  ASSUME Inv, NEW s \in Servers, call[s].at # "idle", return(s), UNCHANGED tick, Repository', Extends,
         Calm \/ call[s].at \in AfterRenewal
  PROVE  Inv'
<1>1. call \in [Servers -> Call] /\ LeaseTypeOK
  BY DEF Inv, ControlTypeOK
<1>2. call' \in [Servers -> Call] /\ call'[s] = NoCall /\ \A t \in Servers : t # s => call'[t] = call[t]
  BY <1>1, NoCallType DEF return
<1>3. /\ LeaseTypeOK' /\ SameHolder
      /\ lease' = lease \/ owns(s)
  BY <1>1 DEF return, released, owns, LeaseTypeOK, SameHolder
<1>4. call'[s].at = "idle"
  BY <1>2 DEF NoCall
<1>5. CallMoves(s)
  BY <1>2, <1>3, <1>4, CallsQuiet DEF CallMoves, AfterRenewal
<1>6. Local(s)' /\ Owned(s)'
  BY <1>4 DEF Local, Owned, Submitting, Signed, Loaded, Replacing, SignedAgain
<1> QED  BY <1>5, <1>6, CallMovesKeep

\* A call goes on under the lease it has, or has lost.
LEMMA GoOnKeeps ==
  ASSUME Inv, NEW s \in Servers, call[s].at # "idle", NEW c \in Call, c.token = call[s].token,
         call' = [call EXCEPT ![s] = c], UNCHANGED <<lease, tick>>, Repository', Extends,
         Calm \/ call[s].at \in AfterRenewal,
         c.at \in AfterRenewal => call[s].at \in AfterRenewal,
         Local(s)', owns(s) => Owned(s)'
  PROVE  Inv'
<1>1. call \in [Servers -> Call] /\ LeaseTypeOK
  BY DEF Inv, ControlTypeOK
<1>2. call' \in [Servers -> Call] /\ call'[s] = c /\ \A t \in Servers : t # s => call'[t] = call[t]
  BY <1>1
<1>3. LeaseTypeOK' /\ SameHolder /\ (owns(s)' <=> owns(s))
  BY <1>1, <1>2 DEF LeaseTypeOK, SameHolder, owns, holds
<1>4. CallMoves(s)
  BY <1>2, <1>3, CallsQuiet DEF CallMoves, Inv, Fenced
<1> QED  BY <1>3, <1>4, CallMovesKeep

\* A step that leaves the repository and the network alone.
LEMMA RestKeeps ==
  ASSUME Repository, UNCHANGED <<nodeVars, txs>>
  PROVE  Repository' /\ Extends /\ Calm
<1>1. Extends /\ Calm
  BY DEF Extends, Calm, onNet, nodeVars
<1>2. /\ mempool' \subseteq DOMAIN signed /\ chain' \in Seq(DOMAIN signed \cup {External}) /\ MinedInOrder'
      /\ \A h \in onNet' : h \in onNet
  BY DEF nodeVars, Repository, DataTypeOK, MinedInOrder, onNet
<1>3. UNCHANGED <<signed, txs>>
  BY DEF nodeVars
<1> QED  BY <1>1, <1>2, <1>3, NetworkKeeps

-----------------------------------------------------------------------------
(* The steps of Submit.                                                    *)

LEMMA BeginKeeps ==
  ASSUME Inv, NEW s \in Servers, call[s].at = "idle", quiet, acquire(s), NEW c \in Call,
         c.at \in {"check", "load"}, call' = [call EXCEPT ![s] = c],
         c.at = "check" => c.key \in Keys /\ c.id = 0, c.at = "load" => c.oldId \in DOMAIN txs,
         UNCHANGED <<nodeVars, txs, tick>>
  PROVE  Inv'
<1>1. Repository' /\ Extends /\ Calm
  BY RestKeeps DEF Inv
<1>2. call \in [Servers -> Call] /\ LeaseTypeOK
  BY DEF Inv, ControlTypeOK
<1>3. call' \in [Servers -> Call] /\ call'[s] = c /\ \A t \in Servers : t # s => call'[t] = call[t]
  BY <1>2
<1>4. LeaseTypeOK' /\ lease'.holder = s /\ ~lease.live /\ lease'.live
  BY <1>2 DEF LeaseTypeOK, acquire
<1>5. CallMoves(s)
  BY <1>1, <1>3, <1>4 DEF CallMoves, AfterRenewal
<1>6. Local(s)' /\ Owned(s)'
  BY <1>3 DEF Local, Owned, Submitting, Signed, Loaded, Replacing, SignedAgain
<1> QED  BY <1>1, <1>5, <1>6, CallMovesKeep

LEMMA SubmitStart ==
  ASSUME Inv, Disciplined, NEW s \in Servers,
         (\E key \in Keys : submit(s, key)) \/ (\E id \in DOMAIN txs : replace(s, id))
  PROVE  Inv'
<1>0. lease.token \in Nat /\ \A id \in DOMAIN txs : id \in Nat
  BY Elements DEF Inv, ControlTypeOK, LeaseTypeOK, Repository
<1>3. acquire(s) => lease'.token \in Nat
  BY <1>0 DEF acquire
<1>1. ASSUME NEW key \in Keys, submit(s, key)
      PROVE  Inv'
  <2> DEFINE c == [NoCall EXCEPT !.at = "check", !.key = key, !.token = lease'.token]
  <2>1. lease'.token \in Nat
    BY <1>3, <1>1 DEF submit
  <2>2. c \in Call /\ c.at = "check" /\ c.key = key /\ c.id = 0
    <3>1. c \in Call /\ c.at = "check" /\ c.key = key /\ c.id = NoCall.id
      BY <2>1, NoCallType DEF Call
    <3> QED  BY <3>1 DEF NoCall
  <2>3. /\ call[s].at = "idle" /\ quiet /\ acquire(s) /\ call' = [call EXCEPT ![s] = c]
        /\ UNCHANGED <<nodeVars, txs, tick>>
    BY <1>1 DEF submit, Disciplined
  <2> HIDE DEF c
  <2> QED  BY <2>2, <2>3, BeginKeeps
<1>2. ASSUME NEW id \in DOMAIN txs, replace(s, id)
      PROVE  Inv'
  <2> DEFINE c == [NoCall EXCEPT !.at = "load", !.oldId = id, !.token = lease'.token]
  <2>1. lease'.token \in Nat
    BY <1>3, <1>2 DEF replace
  <2>2. c \in Call /\ c.at = "load" /\ c.oldId = id
    BY <1>0, <2>1, NoCallType DEF Call
  <2>3. /\ call[s].at = "idle" /\ quiet /\ acquire(s) /\ call' = [call EXCEPT ![s] = c]
        /\ UNCHANGED <<nodeVars, txs, tick>>
    BY <1>2 DEF replace, Disciplined
  <2> HIDE DEF c
  <2> QED  BY <2>2, <2>3, BeginKeeps
<1> QED  BY <1>1, <1>2

\* The fields of a call that moves to another place.
LEMMA GoToFields ==
  ASSUME NEW c \in Call, NEW label \in {"lookup", "sign", "persist", "create", "send", "sent", "refused",
                                       "sendReplacement", "abandon", "revert"}
  PROVE  LET d == [c EXCEPT !.at = label]
         IN  /\ d \in Call /\ d.at = label
             /\ d.key = c.key /\ d.id = c.id /\ d.record = c.record /\ d.oldId = c.oldId /\ d.old = c.old
             /\ d.token = c.token
BY DEF Call, AfterRenewal

LEMMA CheckKeeps ==
  ASSUME Inv, NEW s \in Servers, checkBlockers(s)
  PROVE  Inv'
<1>1. Repository' /\ Extends /\ Calm /\ UNCHANGED tick /\ call[s].at = "check"
  BY RestKeeps DEF checkBlockers, Inv
<1>2. CASE return(s)
  BY <1>1, <1>2, ReturnKeeps
<1>3. CASE goTo(s, "lookup") /\ UNCHANGED lease
  <2> DEFINE c == [call[s] EXCEPT !.at = "lookup"]
  <2>1. call[s] \in Call /\ call \in [Servers -> Call] /\ Local(s)
    BY DEF Inv, ControlTypeOK, CallsOK
  <2>2. c \in Call /\ c.at = "lookup" /\ c.key = call[s].key /\ c.token = call[s].token /\ c.id = call[s].id
    BY <2>1, GoToFields
  <2>3. call' = [call EXCEPT ![s] = c]
    BY <1>3 DEF goTo
  <2> HIDE DEF c
  <2>4. call'[s] = c
    BY <2>1, <2>3
  <2>5. Local(s)' /\ Owned(s)'
    BY <1>1, <2>1, <2>2, <2>4 DEF Local, Owned, Submitting, Signed, Loaded, Replacing, SignedAgain
  <2> QED  BY <1>1, <1>3, <2>2, <2>3, <2>5, GoOnKeeps DEF AfterRenewal
<1> QED  BY <1>2, <1>3 DEF checkBlockers

LEMMA LookupKeeps ==
  ASSUME Inv, NEW s \in Servers, lookupKey(s)
  PROVE  Inv'
<1>1. Repository' /\ Extends /\ Calm /\ UNCHANGED <<signed, txs, tick>> /\ call[s].at = "lookup"
  BY RestKeeps DEF lookupKey, Inv, nodeVars
<1>2. call[s] \in Call /\ call \in [Servers -> Call] /\ Local(s)
  BY DEF Inv, ControlTypeOK, CallsOK
<1>3. CASE return(s)
  BY <1>1, <1>3, ReturnKeeps
<1>4. CASE goTo(s, "sign") /\ UNCHANGED lease /\ withKey(call[s].key) = {}
  <2> DEFINE c == [call[s] EXCEPT !.at = "sign"]
  <2>1. c \in Call /\ c.at = "sign" /\ c.key = call[s].key /\ c.token = call[s].token /\ c.id = call[s].id
    BY <1>2, GoToFields
  <2>2. call' = [call EXCEPT ![s] = c]
    BY <1>4 DEF goTo
  <2> HIDE DEF c
  <2>3. call'[s] = c
    BY <1>2, <2>2
  <2>4. Local(s)'
    BY <1>1, <1>2, <2>1, <2>3 DEF Local, Submitting, Signed, Loaded, Replacing, SignedAgain
  <2>5. Owned(s)'
    BY <1>1, <1>2, <2>1, <2>3 DEF Local, Owned, Loaded
  <2> QED  BY <1>1, <1>4, <2>1, <2>2, <2>4, <2>5, GoOnKeeps DEF AfterRenewal
<1>5. ASSUME NEW id \in withKey(call[s].key), isRetryableStatus(txs[id]), UNCHANGED lease,
             call' = [call EXCEPT ![s].at = "sign", ![s].id = id, ![s].record = txs[id]]
      PROVE  Inv'
  <2> DEFINE c == [call[s] EXCEPT !.at = "sign", !.id = id, !.record = txs[id]]
  <2>1. /\ id \in DOMAIN txs /\ id \in Nat /\ txs[id] \in Transaction /\ txs[id].key = call[s].key
        /\ fits(txs[id])
    BY Elements DEF withKey, Inv, Repository, RecordsFit
  <2>2. /\ c \in Call /\ c.at = "sign" /\ c.key = call[s].key /\ c.token = call[s].token
        /\ c.id = id /\ c.record = txs[id]
    BY <1>2, <2>1 DEF Call
  <2>3. call' = [call EXCEPT ![s] = c]
    BY <1>2, <1>5
  <2> HIDE DEF c
  <2>4. call'[s] = c
    BY <1>2, <2>3
  <2>5. Local(s)'
    BY <1>1, <1>2, <2>2, <2>4 DEF Local, Submitting, Signed, Loaded, Replacing, SignedAgain
  <2>6. call[s].key \notin RepeatableKeys => txs[id].status = "failed"
    BY <1>5, <2>1 DEF isRetryableStatus, fits
  <2>7. Owned(s)'
    BY <1>1, <2>1, <2>2, <2>4, <2>6 DEF Owned, retries, sameCore, Loaded
  <2> QED  BY <1>1, <1>5, <2>2, <2>3, <2>5, <2>7, GoOnKeeps DEF AfterRenewal
<1> QED  BY <1>3, <1>4, <1>5 DEF lookupKey

fresh(key, nonce, hash, retry, attempts) ==
  [NoRecord EXCEPT !.key = key, !.nonce = nonce, !.hash = hash, !.status = "broadcast_unknown",
                   !.allowReorgRetry = retry, !.attempts = attempts]

LEMMA FreshRecord ==
  ASSUME NEW key \in Keys \cup {NoKey}, NEW nonce \in Nat, NEW hash \in Nat, NEW retry \in BOOLEAN,
         NEW attempts \in SUBSET Nat, NEW tx, tx = fresh(key, nonce, hash, retry, attempts)
  PROVE  /\ tx \in Transaction /\ tx.key = key /\ tx.nonce = nonce /\ tx.hash = hash
         /\ tx.status = "broadcast_unknown" /\ tx.allowReorgRetry = retry /\ tx.attempts = attempts
BY NoCallType DEF Transaction, TxStatus, fresh

LEMMA SignSubmissionKeeps ==
  ASSUME Inv, NEW s \in Servers, signSubmission(s)
  PROVE  Inv'
<1>1. call[s] \in Call /\ call \in [Servers -> Call] /\ Local(s) /\ (owns(s) => Owned(s)) /\ Repository
  BY DEF Inv, ControlTypeOK, CallsOK
<1> DEFINE key == call[s].key
           prior == call[s].record
           hash == Len(signed) + 1
           tx(n) == [NoRecord EXCEPT
                       !.key = key, !.nonce = n, !.hash = hash, !.status = "broadcast_unknown",
                       !.allowReorgRetry = key \in RepeatableKeys,
                       !.attempts = IF call[s].id = 0 THEN {} ELSE prior.attempts \cup {prior.hash}]
<1>2. PICK n \in Nat :
        /\ \A id \in DOMAIN txs : inFlight(id) => txs[id].nonce # n
        /\ signed' = Append(signed, [key |-> key, nonce |-> n])
        /\ call' = [call EXCEPT ![s] = [call[s] EXCEPT !.at = "renew", !.record = tx(n)]]
  BY <1>1, NonceIsNew DEF signSubmission
<1>3. call[s].at = "sign" /\ UNCHANGED <<lease, mempool, chain, txs, tick>>
  BY DEF signSubmission
<1>4. key \in Keys /\ hash \in Nat /\ prior.attempts \in SUBSET Nat /\ prior.hash \in Nat
  <2>1. prior \in Transaction
    BY <1>1 DEF Call
  <2>2. key \in Keys
    BY <1>1, <1>3 DEF Local, Submitting
  <2> QED  BY <1>1, <2>1, <2>2, Elements DEF Transaction, Repository
<1>5. /\ tx(n) \in Transaction /\ tx(n).key = key /\ tx(n).nonce = n /\ tx(n).hash = hash
      /\ tx(n).status = "broadcast_unknown"
      /\ tx(n).allowReorgRetry => key \in RepeatableKeys
      /\ call[s].id # 0 => tx(n).attempts = prior.attempts \cup {prior.hash}
  <2> DEFINE attempts == IF call[s].id = 0 THEN {} ELSE prior.attempts \cup {prior.hash}
             retry == key \in RepeatableKeys
  <2>1. attempts \in SUBSET Nat /\ retry \in BOOLEAN
    BY <1>4
  <2>2. call[s].id # 0 => attempts = prior.attempts \cup {prior.hash}
    OBVIOUS
  <2>3. retry => key \in RepeatableKeys
    OBVIOUS
  <2>4. tx(n) = fresh(key, n, hash, retry, attempts)
    BY DEF fresh
  <2> HIDE DEF attempts, retry, tx, key, hash
  <2>5. /\ tx(n) \in Transaction /\ tx(n).key = key /\ tx(n).nonce = n /\ tx(n).hash = hash
        /\ tx(n).status = "broadcast_unknown" /\ tx(n).allowReorgRetry = retry /\ tx(n).attempts = attempts
    BY <1>4, <2>1, <2>4, FreshRecord
  <2> QED  BY <2>2, <2>3, <2>5
<1> HIDE DEF tx
<1> DEFINE c == [call[s] EXCEPT !.at = "renew", !.record = tx(n)]
<1>6. c \in Call /\ c.at = "renew" /\ c.key = key /\ c.id = call[s].id /\ c.record = tx(n) /\ c.token = call[s].token
  BY <1>1, <1>5 DEF Call
<1>7. call' = [call EXCEPT ![s] = c]
  BY <1>2
<1> HIDE DEF c
<1>8. call'[s] = c
  BY <1>1, <1>7
<1>9. /\ Repository'
      /\ DOMAIN signed \subseteq DOMAIN signed' /\ \A h \in DOMAIN signed : signed'[h] = signed[h]
      /\ hash \in DOMAIN signed' /\ signed'[hash].key = key /\ signed'[hash].nonce = n
      /\ onNet' = onNet
  BY <1>1, <1>2, <1>3, <1>4, SignKeeps
<1>10. Extends /\ Calm
  BY <1>3, <1>9 DEF Extends, Calm
<1>11. Local(s)'
  BY <1>4, <1>5, <1>6, <1>8, <1>9 DEF Local, fits, Submitting, Signed, Loaded, Replacing, SignedAgain
<1>12. owns(s) => Owned(s)'
  <2> SUFFICES ASSUME owns(s)
               PROVE  Owned(s)'
    OBVIOUS
  <2>1. call[s].id # 0 => retries(s)' /\ c.record.attempts = txs[call[s].id].attempts \cup {txs[call[s].id].hash}
    BY <1>1, <1>3, <1>5, <1>6, <1>8 DEF Owned, retries, sameCore
  <2>2. \A id \in DOMAIN txs : inFlight(id)' => txs[id].nonce # c.record.nonce
    BY <1>2, <1>3, <1>5, <1>6 DEF inFlight
  <2> QED  BY <1>3, <1>6, <1>8, <2>1, <2>2 DEF Owned, Loaded
<1> QED  BY <1>3, <1>6, <1>7, <1>9, <1>10, <1>11, <1>12, GoOnKeeps DEF AfterRenewal

LEMMA RenewKeeps ==
  ASSUME Inv, NEW s \in Servers, renewLease(s)
  PROVE  Inv'
<1>1. Repository' /\ Extends /\ Calm /\ UNCHANGED <<nodeVars, txs, tick>> /\ call[s].at \in {"renew", "renewReplacement"}
  BY RestKeeps DEF renewLease, Inv
<1>2. call[s] \in Call /\ call \in [Servers -> Call] /\ LeaseTypeOK /\ Local(s) /\ (owns(s) => Owned(s))
  BY DEF Inv, ControlTypeOK, CallsOK
<1>3. CASE ~owns(s)
  BY <1>1, <1>3, ReturnKeeps DEF renewLease, owns
<1>4. CASE owns(s)
  <2>0. PICK label \in {"persist", "create"} : label = IF call[s].at = "renew" THEN "persist" ELSE "create"
    OBVIOUS
  <2> DEFINE c == [call[s] EXCEPT !.at = label]
  <2>1. /\ c \in Call /\ c.at = (IF call[s].at = "renew" THEN "persist" ELSE "create")
        /\ c.key = call[s].key /\ c.id = call[s].id /\ c.record = call[s].record
        /\ c.oldId = call[s].oldId /\ c.old = call[s].old /\ c.token = call[s].token
    <3>1. /\ c \in Call /\ c.at = label
          /\ c.key = call[s].key /\ c.id = call[s].id /\ c.record = call[s].record
          /\ c.oldId = call[s].oldId /\ c.old = call[s].old /\ c.token = call[s].token
      BY <1>2 DEF Call, AfterRenewal
    <3> QED  BY <2>0, <3>1
  <2>2. call' = [call EXCEPT ![s] = c] /\ renew(s, call[s].token)
    BY <1>4, <2>0 DEF renewLease, goTo, owns
  <2> HIDE DEF c
  <2>3. call' \in [Servers -> Call] /\ call'[s] = c /\ \A t \in Servers : t # s => call'[t] = call[t]
    BY <1>2, <2>1, <2>2
  <2>4. LeaseTypeOK' /\ SameHolder /\ lease'.live
    BY <1>2, <2>2 DEF LeaseTypeOK, SameHolder, renew
  <2>5. owns(s)'
    BY <1>4, <2>1, <2>3, <2>4 DEF owns, holds, SameHolder
  <2>6. CallMoves(s)
    BY <1>1, <2>3, <2>4, <2>5, CallsQuiet DEF CallMoves
  <2>7. Local(s)'
    BY <1>1, <1>2, <2>1, <2>3 DEF Local, nodeVars, fits, Submitting, Signed, Loaded, Replacing, SignedAgain
  <2>8. Owned(s)'
    BY <1>1, <1>2, <1>4, <2>1, <2>3 DEF Owned, nodeVars, retries, inFlight, homed, Loaded
  <2> QED  BY <1>1, <2>6, <2>7, <2>8, CallMovesKeep
<1> QED  BY <1>3, <1>4

LEMMA PersistKeeps ==
  ASSUME Inv, NEW s \in Servers, persist(s)
  PROVE  Inv'
<1>1. /\ call[s] \in Call /\ call \in [Servers -> Call] /\ Local(s) /\ Repository
      /\ call[s].at = "persist" /\ UNCHANGED <<signed, mempool, chain, tick>>
  BY DEF Inv, ControlTypeOK, CallsOK, persist, nodeVars
<1>2. owns(s) /\ Owned(s) /\ call[s].at \in AfterRenewal
  BY <1>1 DEF Inv, Fenced, CallsOK, AfterRenewal
<1> DEFINE tx == call[s].record
           key == call[s].key
<1>3. /\ key \in Keys /\ key # NoKey /\ tx \in Transaction /\ fits(tx) /\ tx.key = key /\ tx.status = "broadcast_unknown"
      /\ \A id \in DOMAIN txs : inFlight(id) => txs[id].nonce # tx.nonce
  BY <1>1, <1>2, TxAssumption DEF Local, Owned, Submitting, Signed, Call
<1>4. onNet' = onNet
  BY <1>1 DEF onNet
<1>5. CASE call[s].id # 0 /\ txs' = [txs EXCEPT ![call[s].id] = tx] /\ goTo(s, "send") /\ UNCHANGED lease
  <2> DEFINE id == call[s].id
             c == [call[s] EXCEPT !.at = "send"]
  <2>1. /\ id \in DOMAIN txs /\ txs[id].key = key /\ tx.attempts = txs[id].attempts \cup {txs[id].hash}
        /\ key \notin RepeatableKeys => txs[id].status = "failed"
    BY <1>1, <1>2, <1>5 DEF Owned, retries
  <2>2. Repository'
    BY <1>1, <1>3, <1>5, <2>1, RetryKeeps
  <2>3. DOMAIN txs' = DOMAIN txs /\ txs'[id] = tx /\ \A i \in DOMAIN txs : i # id => txs'[i] = txs[i]
    BY <1>1, <1>3, <1>5, <2>1 DEF Repository, DataTypeOK
  <2>4. Extends
    BY <1>1, <2>3 DEF Extends
  <2>5. c \in Call /\ c.at = "send" /\ c.key = key /\ c.id = id /\ c.record = tx /\ c.token = call[s].token
    BY <1>1, GoToFields
  <2>6. call' = [call EXCEPT ![s] = c]
    BY <1>5 DEF goTo
  <2> HIDE DEF c
  <2>7. call'[s] = c
    BY <1>1, <2>6
  <2>8. Local(s)'
    BY <1>1, <1>3, <2>5, <2>7 DEF Local, fits, Submitting, Signed, Loaded, Replacing, SignedAgain
  <2>9. key \notin RepeatableKeys =>
          /\ \A h \in onNet : signed[h].key # key
          /\ \A i \in DOMAIN txs : ~settled(txs[i]) => signed[txs[i].hash].key # key
    <3>1. \A i \in DOMAIN txs : txs[i].key = key => i = id
      BY <1>1, <1>3, <2>1 DEF Repository, KeysUnique
    <3> QED  BY <1>1, <1>3, <2>1, <3>1, Unspent
  <2>10. Owned(s)'
    BY <1>1, <1>3, <1>4, <2>1, <2>3, <2>5, <2>7, <2>9 DEF Owned, Loaded
  <2> QED  BY <1>1, <1>2, <1>5, <2>2, <2>4, <2>5, <2>6, <2>8, <2>10, GoOnKeeps
<1>6. CASE /\ withKey(key) = {} /\ txs' = Append(txs, tx) /\ UNCHANGED lease
           /\ call' = [call EXCEPT ![s].at = "send", ![s].id = Len(txs) + 1]
  <2> DEFINE id == Len(txs) + 1
             c == [call[s] EXCEPT !.at = "send", !.id = id]
  <2>1. /\ Repository' /\ DOMAIN txs \subseteq DOMAIN txs' /\ \A i \in DOMAIN txs : txs'[i] = txs[i]
        /\ DOMAIN txs' = DOMAIN txs \cup {id} /\ id \notin DOMAIN txs /\ txs'[id] = tx
    <3>1. \A i \in DOMAIN txs : inFlight(i) /\ txs[i].nonce = tx.nonce => signed[txs[i].hash].key = signed[tx.hash].key
      BY <1>3
    <3> QED  BY <1>1, <1>3, <1>6, <3>1, AppendKeeps
  <2>2. Extends
    BY <1>1, <2>1 DEF Extends
  <2>3. id \in Nat
    BY <1>1, Elements DEF Repository
  <2>4. c \in Call /\ c.at = "send" /\ c.key = key /\ c.id = id /\ c.record = tx /\ c.token = call[s].token
    BY <1>1, <2>3 DEF Call, AfterRenewal
  <2>5. call' = [call EXCEPT ![s] = c]
    BY <1>1, <1>6
  <2> HIDE DEF c
  <2>6. call'[s] = c
    BY <1>1, <2>5
  <2>7. Local(s)'
    BY <1>1, <1>3, <2>4, <2>6 DEF Local, fits, Submitting, Signed, Loaded, Replacing, SignedAgain
  <2>8. key \notin RepeatableKeys =>
          /\ \A h \in onNet : signed[h].key # key
          /\ \A i \in DOMAIN txs : ~settled(txs[i]) => signed[txs[i].hash].key # key
    <3>1. \A i \in DOMAIN txs : txs[i].key # key
      BY <1>3, <1>6 DEF withKey
    <3> QED  BY <1>1, <1>3, <3>1, Unspent
  <2>9. Owned(s)'
    BY <1>1, <1>3, <1>4, <2>1, <2>4, <2>6, <2>8 DEF Owned, Loaded
  <2> QED  BY <1>1, <1>2, <1>6, <2>1, <2>2, <2>4, <2>5, <2>7, <2>9, GoOnKeeps
<1>7. CASE return(s) /\ UNCHANGED txs
  <2>1. Repository' /\ Extends
    BY <1>1, <1>7, RestKeeps DEF nodeVars, persist
  <2> QED  BY <1>1, <1>2, <1>7, <2>1, ReturnKeeps
<1> QED  BY <1>5, <1>6, <1>7 DEF persist

\* The transaction of a record that is in flight is sent.
LEMMA SendKeeps ==
  ASSUME Repository, NEW id \in DOMAIN txs, ~settled(txs[id]), NEW answer, sendTransaction(txs[id].hash, answer),
         UNCHANGED <<signed, chain, txs>>
  PROVE  Repository' /\ Extends /\ (answer = "rejected" => Calm)
<1>1. txs[id].hash \in DOMAIN signed /\ homed(txs[id].hash) /\ tracked(txs[id].hash)
  BY DEF Repository, RecordsFit, fits, Homed, tracked
<1>2. /\ mempool' \subseteq DOMAIN signed /\ onNet' \subseteq onNet \cup {txs[id].hash}
      /\ answer = "rejected" => mempool' = mempool
  BY <1>1, Sending DEF Repository
<1>3. chain' \in Seq(DOMAIN signed \cup {External}) /\ MinedInOrder'
  BY DEF Repository, DataTypeOK, MinedInOrder
<1>4. Repository'
  BY <1>1, <1>2, <1>3, NetworkKeeps
<1>5. Extends /\ (mempool' = mempool => Calm)
  BY DEF Extends, Calm, onNet
<1> QED  BY <1>2, <1>4, <1>5

LEMMA SubmissionSent ==
  ASSUME Inv, NEW s \in Servers, send(s)
  PROVE  Inv'
<1>1. /\ call[s] \in Call /\ call \in [Servers -> Call] /\ Local(s) /\ Repository
      /\ call[s].at = "send" /\ UNCHANGED <<signed, chain, txs, tick>>
  BY DEF Inv, ControlTypeOK, CallsOK, send
<1>2. owns(s) /\ Owned(s) /\ call[s].at \in AfterRenewal
  BY <1>1 DEF Inv, Fenced, CallsOK, AfterRenewal
<1> DEFINE id == call[s].id
<1>3. id \in DOMAIN txs /\ txs[id] = call[s].record /\ ~settled(txs[id]) /\ txs[id].status = "broadcast_unknown"
  BY <1>1, <1>2 DEF Owned, settled
<1>4. ASSUME NEW answer, sendTransaction(call[s].record.hash, answer)
      PROVE  Repository' /\ Extends /\ (answer = "rejected" => Calm)
  BY <1>1, <1>3, <1>4, SendKeeps
<1>5. CASE sendTransaction(call[s].record.hash, "accepted") /\ goTo(s, "sent") /\ UNCHANGED lease
  <2> DEFINE c == [call[s] EXCEPT !.at = "sent"]
  <2>1. c \in Call /\ c.at = "sent" /\ c.id = id /\ c.record = call[s].record /\ c.token = call[s].token
    BY <1>1, GoToFields
  <2>2. call' = [call EXCEPT ![s] = c]
    BY <1>5 DEF goTo
  <2> HIDE DEF c
  <2>3. call'[s] = c
    BY <1>1, <2>2
  <2>4. Local(s)' /\ Owned(s)'
    BY <1>1, <1>3, <2>1, <2>3 DEF Local, Owned, Submitting, Signed, Loaded, Replacing, SignedAgain
  <2> QED  BY <1>1, <1>2, <1>4, <1>5, <2>1, <2>2, <2>4, GoOnKeeps
<1>6. CASE sendTransaction(call[s].record.hash, "rejected") /\ goTo(s, "refused") /\ UNCHANGED lease
  <2> DEFINE c == [call[s] EXCEPT !.at = "refused"]
  <2>1. /\ c \in Call /\ c.at = "refused" /\ c.key = call[s].key /\ c.id = id /\ c.record = call[s].record
        /\ c.token = call[s].token
    BY <1>1, GoToFields
  <2>2. call' = [call EXCEPT ![s] = c]
    BY <1>6 DEF goTo
  <2> HIDE DEF c
  <2>3. call'[s] = c
    BY <1>1, <2>2
  <2>4. Local(s)'
    BY <1>1, <2>1, <2>3 DEF Local, fits, Submitting, Signed, Loaded, Replacing, SignedAgain
  <2>5. Owned(s)'
    <3>1. onNet' \subseteq onNet
      BY <1>4, <1>6 DEF Calm
    <3> QED  BY <1>1, <1>2, <1>3, <2>1, <2>3, <3>1 DEF Owned, Loaded
  <2> QED  BY <1>1, <1>2, <1>4, <1>6, <2>1, <2>2, <2>4, <2>5, GoOnKeeps
<1>7. CASE sendTransaction(call[s].record.hash, "lost") /\ return(s)
  BY <1>1, <1>2, <1>4, <1>7, ReturnKeeps
<1> QED  BY <1>5, <1>6, <1>7 DEF send

\* A record is given another status while it stands for the same.
LEMMA RestatedKeeps ==
  ASSUME Repository, NEW id \in DOMAIN txs, NEW tx \in Transaction, sameCore(tx, txs[id]),
         txs' = [txs EXCEPT ![id] = tx],
         tx.status = "failed" => txs[id].status = "failed" \/ txs[id].key = NoKey,
         ~settled(tx) => homed(txs[id].hash),
         tx.status \in {"broadcast_unknown", "pending"} =>
           \/ inFlight(id)
           \/ \A i \in DOMAIN txs :
                inFlight(i) /\ txs[i].nonce = txs[id].nonce => signed[txs[i].hash].key = signed[txs[id].hash].key,
         UNCHANGED <<signed, mempool, chain>>
  PROVE  /\ Repository' /\ Extends /\ DOMAIN txs' = DOMAIN txs /\ txs'[id] = tx
         /\ \A i \in DOMAIN txs : i # id => txs'[i] = txs[i]
         /\ \A h \in DOMAIN signed : homed(h) => homed(h)'
         /\ \A i \in DOMAIN txs : sameCore(txs'[i], txs[i])
<1>1. /\ txs' \in Seq(Transaction) /\ DOMAIN txs' = DOMAIN txs /\ txs'[id] = tx
      /\ \A i \in DOMAIN txs : i # id => txs'[i] = txs[i]
  BY DEF Repository, DataTypeOK
<1>2. \A i \in DOMAIN txs : sameCore(txs'[i], txs[i])
  BY <1>1 DEF sameCore
<1>3. /\ \A i \in DOMAIN txs : i # id => (inFlight(i)' => inFlight(i))
      /\ inFlight(id)' <=> tx.status \in {"broadcast_unknown", "pending"}
  BY <1>1 DEF inFlight
<1>4. onNet' = onNet /\ MinedInOrder'
  BY DEF onNet, Repository, MinedInOrder
<1>5. ASSUME inFlight(id)'
      PROVE  \A i \in DOMAIN txs :
               inFlight(i) /\ txs[i].nonce = txs[id].nonce => signed[txs[i].hash].key = signed[txs[id].hash].key
  <2>1. inFlight(id) =>
          \A i \in DOMAIN txs :
            inFlight(i) /\ txs[i].nonce = txs[id].nonce => signed[txs[i].hash].key = signed[txs[id].hash].key
    BY DEF Repository, NonceNotShared
  <2> QED  BY <1>3, <1>5, <2>1
<1>6. \A i \in DOMAIN txs : ~settled(txs[i]) => homed(txs[i].hash)
  BY DEF Repository, Homed
<1>7. \A i \in DOMAIN txs :
        /\ txs'[i].status = "failed" => txs[i].status = "failed" \/ txs[i].key = NoKey
        /\ ~settled(txs'[i]) => homed(txs[i].hash)
  BY <1>1, <1>6
<1>8. Settles(id)
  BY <1>1, <1>2, <1>3, <1>4, <1>5, <1>7 DEF Settles, Repository, DataTypeOK
<1>9. Repository' /\ \A h \in DOMAIN signed : homed(h) => homed(h)'
  BY <1>8, SettlesKeeps, SettlesHomes
<1>10. Extends
  BY <1>1 DEF Extends
<1> QED  BY <1>1, <1>2, <1>9, <1>10

LEMMA OutcomeKeeps ==
  ASSUME Inv, NEW s \in Servers, recordOutcome(s)
  PROVE  Inv'
<1>1. /\ call[s] \in Call /\ Local(s) /\ Repository
      /\ call[s].at \in {"sent", "refused"} /\ UNCHANGED <<signed, mempool, chain, tick>> /\ return(s)
  BY DEF Inv, ControlTypeOK, CallsOK, recordOutcome, nodeVars
<1>2. owns(s) /\ Owned(s) /\ call[s].at \in AfterRenewal
  BY <1>1 DEF Inv, Fenced, CallsOK, AfterRenewal
<1> DEFINE id == call[s].id
<1>3. /\ id \in DOMAIN txs /\ txs[id] = call[s].record /\ txs[id].status = "broadcast_unknown"
      /\ txs[id] \in Transaction
  <2>1. id \in DOMAIN txs /\ txs[id] = call[s].record /\ call[s].record.status = "broadcast_unknown"
    BY <1>1, <1>2 DEF Owned
  <2>2. \A i \in DOMAIN txs : txs[i] \in Transaction
    BY <1>1, Elements DEF Repository
  <2> QED  BY <2>1, <2>2
<1>4. CASE call[s].at = "sent"
  <2> DEFINE tx == [txs[id] EXCEPT !.status = "pending"]
  <2>1. txs' = [txs EXCEPT ![id] = tx]
    BY <1>3, <1>4 DEF recordOutcome
  <2>2. tx \in Transaction /\ sameCore(tx, txs[id]) /\ tx.status = "pending"
    BY <1>3 DEF Transaction, TxStatus, sameCore
  <2>3. inFlight(id) /\ homed(txs[id].hash)
    BY <1>1, <1>3 DEF inFlight, Repository, Homed, settled
  <2> HIDE DEF tx
  <2>4. Repository' /\ Extends
    BY <1>1, <1>3, <2>1, <2>2, <2>3, RestatedKeeps
  <2> QED  BY <1>1, <1>2, <2>4, ReturnKeeps
<1>5. CASE call[s].at = "refused"
  <2> DEFINE tx == [txs[id] EXCEPT !.status = "failed"]
  <2>1. txs' = [txs EXCEPT ![id] = tx]
    BY <1>3, <1>5 DEF recordOutcome
  <2>2. txs[id].key \in Keys /\ txs[id].key = call[s].key
    BY <1>1, <1>3, <1>5 DEF Local, Submitting, Signed
  <2>3. txs[id].key \notin RepeatableKeys =>
          /\ \A h \in onNet : signed[h].key # txs[id].key
          /\ \A i \in DOMAIN txs : i # id /\ ~settled(txs[i]) => signed[txs[i].hash].key # txs[id].key
    BY <1>2, <1>5, <2>2 DEF Owned
  <2>4. Repository'
    BY <1>1, <1>3, <2>1, <2>2, <2>3, RefusalKeeps
  <2>5. Extends
    BY <1>1, <2>1 DEF Extends
  <2> QED  BY <1>1, <1>2, <2>4, <2>5, ReturnKeeps
<1> QED  BY <1>1, <1>4, <1>5

-----------------------------------------------------------------------------
(* The steps of Replace.                                                   *)

LEMMA LoadKeeps ==
  ASSUME Inv, NEW s \in Servers, loadOriginal(s)
  PROVE  Inv'
<1> DEFINE id == call[s].oldId
           old == txs[id]
<1>1. /\ call[s] \in Call /\ call \in [Servers -> Call] /\ Local(s) /\ Repository /\ call[s].at = "load"
      /\ UNCHANGED <<signed, mempool, chain, tick, crashes>> /\ UNCHANGED nodeVars
  BY DEF Inv, ControlTypeOK, CallsOK, loadOriginal, nodeVars
<1>2. id \in DOMAIN txs /\ old \in Transaction /\ fits(old)
  BY <1>1, Elements DEF Local, Replacing, Repository, RecordsFit
<1>3. CASE return(s) /\ UNCHANGED txs
  BY <1>1, <1>3, RestKeeps, ReturnKeeps
<1>4. CASE old.status = "pending" /\ return(s) /\ txs' = [txs EXCEPT ![id].status = "needs_intervention"]
  <2> DEFINE tx == [old EXCEPT !.status = "needs_intervention"]
  <2>1. tx \in Transaction /\ sameCore(tx, old) /\ tx.status = "needs_intervention"
    BY <1>2 DEF Transaction, TxStatus, sameCore
  <2>2. txs' = [txs EXCEPT ![id] = tx] /\ homed(old.hash)
    BY <1>1, <1>2, <1>4 DEF Repository, Homed, settled
  <2>3. Calm
    BY <1>1, <1>2, <1>4, <2>2 DEF Calm, Extends, onNet, Repository, DataTypeOK
  <2> HIDE DEF tx
  <2>4. Repository' /\ Extends
    BY <1>1, <1>2, <2>1, <2>2, RestatedKeeps
  <2> QED  BY <1>1, <1>4, <2>3, <2>4, ReturnKeeps
<1>5. CASE /\ old.status = "pending" /\ UNCHANGED <<lease, txs>>
           /\ call' = [call EXCEPT ![s].at = "bump", ![s].old = old]
  <2> DEFINE c == [call[s] EXCEPT !.at = "bump", !.old = old]
  <2>1. c \in Call /\ c.at = "bump" /\ c.oldId = id /\ c.old = old /\ c.token = call[s].token
    BY <1>1, <1>2 DEF Call
  <2>2. call' = [call EXCEPT ![s] = c]
    BY <1>1, <1>5
  <2> HIDE DEF c
  <2>3. call'[s] = c
    BY <1>1, <2>2
  <2>4. Local(s)'
    BY <1>1, <1>2, <1>5, <2>1, <2>3 DEF Local, fits, Submitting, Signed, Loaded, Replacing, SignedAgain
  <2>5. Owned(s)'
    <3>1. homed(old.hash) /\ inFlight(id)
      BY <1>1, <1>2, <1>5 DEF Repository, Homed, settled, inFlight
    <3>2. \A i \in DOMAIN txs :
            inFlight(i) /\ txs[i].nonce = old.nonce => signed[txs[i].hash].key = signed[old.hash].key
      BY <1>1, <1>2, <3>1 DEF Repository, NonceNotShared
    <3> QED  BY <1>1, <1>5, <2>1, <2>3, <3>1, <3>2 DEF Owned, Loaded, sameCore, homed, inFlight
  <2> QED  BY <1>1, <1>5, <2>1, <2>2, <2>4, <2>5, RestKeeps, GoOnKeeps DEF AfterRenewal
<1> QED  BY <1>3, <1>4, <1>5 DEF loadOriginal

freshReplacement(nonce, hash, replaces, count) ==
  [NoRecord EXCEPT !.nonce = nonce, !.hash = hash, !.status = "broadcast_unknown",
                   !.replaces = replaces, !.replacementCount = count]

LEMMA FreshReplacement ==
  ASSUME NEW nonce \in Nat, NEW hash \in Nat, NEW replaces \in Nat, NEW count \in Nat,
         NEW x, x = freshReplacement(nonce, hash, replaces, count)
  PROVE  /\ x \in Transaction /\ x.key = NoKey /\ x.nonce = nonce /\ x.hash = hash
         /\ x.status = "broadcast_unknown" /\ ~x.allowReorgRetry
<1>1. NoRecord.key = NoKey /\ NoRecord.allowReorgRetry = FALSE
  BY DEF NoRecord
<1> QED  BY <1>1, NoCallType DEF Transaction, TxStatus, freshReplacement

LEMMA SignReplacementKeeps ==
  ASSUME Inv, NEW s \in Servers, signReplacement(s)
  PROVE  Inv'
<1>1. call[s] \in Call /\ call \in [Servers -> Call] /\ Local(s) /\ (owns(s) => Owned(s)) /\ Repository
  BY DEF Inv, ControlTypeOK, CallsOK
<1> DEFINE old == call[s].old
           key == signed[old.hash].key
           hash == Len(signed) + 1
           tx == [NoRecord EXCEPT
                    !.nonce = old.nonce, !.hash = hash, !.status = "broadcast_unknown",
                    !.replaces = call[s].oldId, !.replacementCount = old.replacementCount + 1]
           c == [call[s] EXCEPT !.at = "renewReplacement", !.record = tx]
<1>2. /\ call[s].at = "bump" /\ UNCHANGED <<lease, mempool, chain, txs, tick>>
      /\ signed' = Append(signed, [key |-> key, nonce |-> old.nonce])
      /\ call' = [call EXCEPT ![s] = c]
  BY <1>1 DEF signReplacement
<1>3. old \in Transaction /\ fits(old) /\ call[s].oldId \in Nat /\ call[s].oldId \in DOMAIN txs
  BY <1>1, <1>2 DEF Call, Local, Loaded, Replacing
<1>4. /\ key \in Keys /\ key # NoKey /\ hash \in Nat /\ old.nonce \in Nat /\ old.replacementCount \in Nat
      /\ old.hash \in DOMAIN signed /\ old.nonce = signed[old.hash].nonce
  <2>1. old.nonce \in Nat /\ old.replacementCount \in Nat
    BY <1>3 DEF Transaction
  <2>2. old.hash \in DOMAIN signed /\ old.nonce = signed[old.hash].nonce
    BY <1>3 DEF fits
  <2> QED  BY <1>1, <2>1, <2>2, Elements DEF Repository
<1>5. /\ tx \in Transaction /\ tx.key = NoKey /\ tx.nonce = old.nonce /\ tx.hash = hash
      /\ tx.status = "broadcast_unknown" /\ ~tx.allowReorgRetry
  <2>1. tx = freshReplacement(old.nonce, hash, call[s].oldId, old.replacementCount + 1)
    BY DEF freshReplacement
  <2>2. old.nonce \in Nat /\ hash \in Nat /\ call[s].oldId \in Nat /\ old.replacementCount + 1 \in Nat
    BY <1>3, <1>4
  <2>3. PICK count \in Nat : count = old.replacementCount + 1
    BY <2>2
  <2>4. PICK replaces \in Nat : replaces = call[s].oldId
    BY <2>2
  <2>5. PICK nonce \in Nat : nonce = old.nonce
    BY <2>2
  <2>6. PICK h \in Nat : h = hash
    BY <2>2
  <2>7. tx = freshReplacement(nonce, h, replaces, count)
    BY <2>1, <2>3, <2>4, <2>5, <2>6
  <2> HIDE DEF tx
  <2>8. /\ tx \in Transaction /\ tx.key = NoKey /\ tx.nonce = nonce /\ tx.hash = h
        /\ tx.status = "broadcast_unknown" /\ ~tx.allowReorgRetry
    BY <2>7, FreshReplacement
  <2> QED  BY <2>5, <2>6, <2>8
<1> HIDE DEF tx
<1>6. /\ c \in Call /\ c.at = "renewReplacement" /\ c.record = tx /\ c.token = call[s].token
      /\ c.oldId = call[s].oldId /\ c.old = old
  BY <1>1, <1>5 DEF Call
<1> HIDE DEF c
<1>7. call'[s] = c
  BY <1>1, <1>2
<1>8. /\ Repository'
      /\ DOMAIN signed \subseteq DOMAIN signed' /\ \A h \in DOMAIN signed : signed'[h] = signed[h]
      /\ hash \in DOMAIN signed' /\ signed'[hash].key = key /\ signed'[hash].nonce = old.nonce
      /\ onNet' = onNet
  BY <1>1, <1>2, <1>4, SignKeeps
<1>9. Extends /\ Calm
  BY <1>2, <1>8 DEF Extends, Calm
<1>10. Local(s)'
  <2>1. \A x : x = old \/ x = tx => fits(x)'
    BY <1>3, <1>4, <1>5, <1>8 DEF fits
  <2>2. signed'[c.record.hash].key = signed'[c.old.hash].key
    BY <1>4, <1>5, <1>6, <1>8
  <2>3. c.oldId \in DOMAIN txs'
    BY <1>2, <1>3, <1>6
  <2> QED  BY <1>5, <1>6, <1>7, <2>1, <2>2, <2>3 DEF Local, fits, Submitting, Signed, Loaded, Replacing, SignedAgain
<1>11. owns(s) => Owned(s)'
  <2> SUFFICES ASSUME owns(s)
               PROVE  Owned(s)'
    OBVIOUS
  <2>1. /\ sameCore(txs[call[s].oldId], old)
        /\ homed(old.hash)
        /\ \A id \in DOMAIN txs :
             inFlight(id) /\ txs[id].nonce = old.nonce => signed[txs[id].hash].key = key
    BY <1>1, <1>2 DEF Owned, Loaded
  <2>2. homed(old.hash)'
    <3>1. PICK h \in DOMAIN signed : h = old.hash
      BY <1>4
    <3>2. homed(h)'
      BY <1>2, <1>8, <2>1, <3>1 DEF homed
    <3> QED  BY <1>6, <1>7, <3>1, <3>2 DEF homed
  <2>3. \A id \in DOMAIN txs : txs[id].hash \in DOMAIN signed
    BY <1>1 DEF Repository, RecordsFit, fits
  <2>4. sameCore(txs'[c.oldId], c.old)
    BY <1>2, <1>6, <2>1
  <2>5. \A id \in DOMAIN txs' :
          inFlight(id)' /\ txs'[id].nonce = c.old.nonce => signed'[txs'[id].hash].key = signed'[c.old.hash].key
    BY <1>2, <1>4, <1>6, <1>8, <2>1, <2>3 DEF inFlight
  <2> QED  BY <1>6, <1>7, <2>2, <2>4, <2>5 DEF Owned
<1> QED  BY <1>2, <1>6, <1>8, <1>9, <1>10, <1>11, GoOnKeeps DEF AfterRenewal

LEMMA CreateKeeps ==
  ASSUME Inv, NEW s \in Servers, createReplacement(s)
  PROVE  Inv'
<1>1. /\ call[s] \in Call /\ call \in [Servers -> Call] /\ Local(s) /\ Repository /\ call[s].at = "create"
      /\ UNCHANGED <<signed, mempool, chain, tick, lease>>
  BY DEF Inv, ControlTypeOK, CallsOK, createReplacement, nodeVars
<1>2. owns(s) /\ Owned(s) /\ call[s].at \in AfterRenewal
  BY <1>1 DEF Inv, Fenced, CallsOK, AfterRenewal
<1> DEFINE tx == call[s].record
           old == call[s].old
           id == Len(txs) + 1
           c == [call[s] EXCEPT !.at = "link", !.id = id]
<1>3. /\ tx \in Transaction /\ tx.key = NoKey /\ fits(tx) /\ tx.status = "broadcast_unknown"
      /\ tx.nonce = old.nonce /\ signed[tx.hash].key = signed[old.hash].key /\ fits(old)
      /\ call[s].oldId \in DOMAIN txs
  BY <1>1 DEF Local, Call, Loaded, SignedAgain, Replacing
<1>4. /\ sameCore(txs[call[s].oldId], old) /\ homed(old.hash)
      /\ \A i \in DOMAIN txs :
           inFlight(i) /\ txs[i].nonce = old.nonce => signed[txs[i].hash].key = signed[old.hash].key
  BY <1>1, <1>2 DEF Owned, Loaded
<1>5. homed(tx.hash)
  BY <1>3, <1>4 DEF homed, fits
<1>6. txs' = Append(txs, tx) /\ call' = [call EXCEPT ![s] = c]
  BY <1>1 DEF createReplacement
<1>7. /\ Repository' /\ DOMAIN txs \subseteq DOMAIN txs' /\ \A i \in DOMAIN txs : txs'[i] = txs[i]
      /\ DOMAIN txs' = DOMAIN txs \cup {id} /\ id \notin DOMAIN txs /\ txs'[id] = tx
      /\ \A h \in DOMAIN signed : homed(h) => homed(h)'
  BY <1>1, <1>3, <1>4, <1>5, <1>6, AppendKeeps
<1>8. Extends
  BY <1>1, <1>7 DEF Extends
<1>9. id \in Nat
  BY <1>1, Elements DEF Repository
<1>10. /\ c \in Call /\ c.at = "link" /\ c.id = id /\ c.record = tx /\ c.token = call[s].token
       /\ c.oldId = call[s].oldId /\ c.old = old
  BY <1>1, <1>9 DEF Call, AfterRenewal
<1> HIDE DEF c, id
<1>11. call'[s] = c
  BY <1>1, <1>6
<1>12. Local(s)'
  BY <1>1, <1>3, <1>7, <1>10, <1>11 DEF Local, fits, Submitting, Signed, Loaded, Replacing, SignedAgain
<1>13. Owned(s)'
  <2>1. homed(old.hash)'
    <3>1. PICK h \in DOMAIN signed : h = old.hash /\ homed(h)
      BY <1>3, <1>4 DEF fits
    <3>2. homed(h)'
      BY <1>7, <3>1
    <3> QED  BY <1>10, <1>11, <3>1, <3>2 DEF homed
  <2>2. \A i \in DOMAIN txs' :
          inFlight(i)' /\ txs'[i].nonce = old.nonce => signed'[txs'[i].hash].key = signed'[old.hash].key
    BY <1>1, <1>3, <1>4, <1>7 DEF inFlight
  <2>3. sameCore(txs'[c.oldId], old) /\ c.id # c.oldId
    BY <1>3, <1>4, <1>7, <1>10
  <2> QED  BY <1>3, <1>7, <1>10, <1>11, <2>1, <2>2, <2>3 DEF Owned, Loaded
<1> QED  BY <1>1, <1>2, <1>6, <1>7, <1>8, <1>10, <1>12, <1>13, GoOnKeeps

\* A replacement that is given up is failed: it carries no key.
LEMMA FailReplacement ==
  ASSUME Repository, NEW id \in DOMAIN txs, txs[id].key = NoKey, NEW record, record = txs[id],
         txs' = [txs EXCEPT ![id] = [record EXCEPT !.status = "failed"]], UNCHANGED <<signed, mempool, chain>>
  PROVE  /\ Repository' /\ Extends /\ DOMAIN txs' = DOMAIN txs /\ txs'[id].status = "failed"
         /\ \A i \in DOMAIN txs : i # id => txs'[i] = txs[i]
         /\ \A h \in DOMAIN signed : homed(h) => homed(h)'
         /\ \A i \in DOMAIN txs : sameCore(txs'[i], txs[i])
<1> DEFINE tx == [record EXCEPT !.status = "failed"]
<1>1. record \in Transaction
  BY Elements DEF Repository
<1>2. tx \in Transaction /\ sameCore(tx, txs[id]) /\ tx.status = "failed"
  BY <1>1 DEF Transaction, TxStatus, sameCore
<1>3. txs' = [txs EXCEPT ![id] = tx]
  OBVIOUS
<1> HIDE DEF tx
<1>4. settled(tx) /\ tx.status \notin {"broadcast_unknown", "pending"}
  BY <1>2 DEF settled
<1> QED  BY <1>2, <1>3, <1>4, RestatedKeeps

relinked(old, status, other, version) ==
  [old EXCEPT !.status = status, !.replacedBy = other, !.version = version]

recounted(old, status, other, count, version) ==
  [old EXCEPT !.status = status, !.replacedBy = other, !.replacementCount = count, !.version = version]

\* What rewriting the links of a record leaves alone.
LEMMA Rewritten ==
  ASSUME NEW old \in Transaction, NEW status \in TxStatus, NEW other \in Nat, NEW version \in Nat, NEW count \in Nat,
         NEW tx, tx = relinked(old, status, other, version) \/ tx = recounted(old, status, other, count, version)
  PROVE  tx \in Transaction /\ sameCore(tx, old) /\ tx.status = status
<1>1. CASE tx = relinked(old, status, other, version)
  BY <1>1 DEF relinked, Transaction, sameCore
<1>2. CASE tx = recounted(old, status, other, count, version)
  BY <1>2 DEF recounted, Transaction, sameCore
<1> QED  BY <1>1, <1>2

LEMMA LinkKeeps ==
  ASSUME Inv, NEW s \in Servers, linkOriginal(s)
  PROVE  Inv'
<1>1. /\ call[s] \in Call /\ call \in [Servers -> Call] /\ Local(s) /\ Repository /\ call[s].at = "link"
      /\ UNCHANGED <<signed, mempool, chain, tick>>
  BY DEF Inv, ControlTypeOK, CallsOK, linkOriginal, nodeVars
<1>2. owns(s) /\ Owned(s) /\ call[s].at \in AfterRenewal
  BY <1>1 DEF Inv, Fenced, CallsOK, AfterRenewal
<1> DEFINE id == call[s].id
           oldId == call[s].oldId
           old == call[s].old
           record == call[s].record
<1>3. /\ record \in Transaction /\ old \in Transaction /\ record.key = NoKey /\ fits(old) /\ fits(record)
      /\ record.nonce = old.nonce /\ signed[record.hash].key = signed[old.hash].key
      /\ record.status = "broadcast_unknown" /\ oldId \in DOMAIN txs /\ id \in Nat
  BY <1>1 DEF Local, Call, Loaded, SignedAgain, Replacing
<1>4. /\ sameCore(txs[oldId], old) /\ homed(old.hash) /\ id # oldId
      /\ id \in DOMAIN txs /\ txs[id] = record
      /\ \A i \in DOMAIN txs :
           inFlight(i) /\ txs[i].nonce = old.nonce => signed[txs[i].hash].key = signed[old.hash].key
  BY <1>1, <1>2 DEF Owned, Loaded
<1>5. CASE /\ goTo(s, "sendReplacement") /\ UNCHANGED lease
           /\ txs' = [txs EXCEPT ![oldId] = [old EXCEPT !.status = "replaced", !.replacedBy = id,
                                                        !.version = old.version + 1]]
  <2> DEFINE tx == [old EXCEPT !.status = "replaced", !.replacedBy = id, !.version = old.version + 1]
             c == [call[s] EXCEPT !.at = "sendReplacement"]
  <2>1. tx \in Transaction /\ sameCore(tx, old) /\ tx.status = "replaced"
    <3>1. PICK version \in Nat : version = old.version + 1
      BY <1>3 DEF Transaction
    <3>2. tx = relinked(old, "replaced", id, version)
      BY <3>1 DEF relinked
    <3>3. "replaced" \in TxStatus
      BY DEF TxStatus
    <3> HIDE DEF tx
    <3> QED  BY <1>3, <3>2, <3>3, Rewritten
  <2>2. txs' = [txs EXCEPT ![oldId] = tx]
    BY <1>5
  <2> HIDE DEF tx
  <2>3. sameCore(tx, txs[oldId]) /\ settled(tx) /\ tx.status \notin {"failed", "broadcast_unknown", "pending"}
    BY <1>4, <2>1 DEF settled, sameCore
  <2>4. /\ Repository' /\ Extends /\ DOMAIN txs' = DOMAIN txs /\ txs'[oldId] = tx
        /\ \A i \in DOMAIN txs : i # oldId => txs'[i] = txs[i]
        /\ \A h \in DOMAIN signed : homed(h) => homed(h)'
    BY <1>1, <1>3, <2>1, <2>2, <2>3, RestatedKeeps
  <2>5. /\ c \in Call /\ c.at = "sendReplacement" /\ c.id = id /\ c.record = record /\ c.token = call[s].token
        /\ c.oldId = oldId /\ c.old = old
    BY <1>1, GoToFields
  <2>6. call' = [call EXCEPT ![s] = c]
    BY <1>5 DEF goTo
  <2> HIDE DEF c
  <2>7. call'[s] = c
    BY <1>1, <2>6
  <2>8. Local(s)'
    BY <1>1, <1>3, <2>4, <2>5, <2>7 DEF Local, fits, Submitting, Signed, Loaded, Replacing, SignedAgain
  <2>9. homed(old.hash)'
    <3>1. PICK h \in DOMAIN signed : h = old.hash /\ homed(h)
      BY <1>3, <1>4 DEF fits
    <3>2. homed(h)'
      BY <2>4, <3>1
    <3> QED  BY <2>5, <2>7, <3>1, <3>2 DEF homed
  <2>10. \A i \in DOMAIN txs' :
           inFlight(i)' /\ txs'[i].nonce = old.nonce => signed'[txs'[i].hash].key = signed'[old.hash].key
    BY <1>1, <1>4, <2>1, <2>4 DEF inFlight
  <2>11. Owned(s)'
    BY <1>3, <1>4, <2>1, <2>4, <2>5, <2>7, <2>9, <2>10 DEF Owned, Loaded, sameCore
  <2> QED  BY <1>1, <1>2, <1>5, <2>4, <2>5, <2>6, <2>8, <2>11, GoOnKeeps
<1>6. CASE txs' = [txs EXCEPT ![id] = [record EXCEPT !.status = "failed"]] /\ return(s)
  <2>1. Repository' /\ Extends
    BY <1>1, <1>3, <1>4, <1>6, FailReplacement
  <2> QED  BY <1>1, <1>2, <1>6, <2>1, ReturnKeeps
<1> QED  BY <1>5, <1>6 DEF linkOriginal

\* What holds of a call on its way through sending or giving up a replacement.
LEMMA ReplacementFacts ==
  ASSUME Inv, NEW s \in Servers, call[s].at \in {"sendReplacement", "abandon", "revert"}
  PROVE  /\ call[s] \in Call /\ call \in [Servers -> Call] /\ Repository /\ call[s].at \in AfterRenewal
         /\ owns(s) /\ Owned(s) /\ Local(s)
         /\ call[s].record \in Transaction /\ call[s].old \in Transaction
         /\ call[s].record.key = NoKey /\ fits(call[s].old) /\ fits(call[s].record)
         /\ call[s].record.nonce = call[s].old.nonce
         /\ signed[call[s].record.hash].key = signed[call[s].old.hash].key
         /\ call[s].record.status = "broadcast_unknown" /\ call[s].oldId \in DOMAIN txs
         /\ sameCore(txs[call[s].oldId], call[s].old) /\ homed(call[s].old.hash)
         /\ \A i \in DOMAIN txs :
              inFlight(i) /\ txs[i].nonce = call[s].old.nonce =>
                signed[txs[i].hash].key = signed[call[s].old.hash].key
         /\ call[s].at # "revert" =>
              call[s].id # call[s].oldId /\ call[s].id \in DOMAIN txs /\ txs[call[s].id] = call[s].record
<1>1. call[s] \in Call /\ call \in [Servers -> Call] /\ Local(s) /\ Repository
  BY DEF Inv, ControlTypeOK, CallsOK
<1>2. owns(s) /\ Owned(s) /\ call[s].at \in AfterRenewal
  BY DEF Inv, Fenced, CallsOK, AfterRenewal
<1>3. /\ call[s].record \in Transaction /\ call[s].old \in Transaction
      /\ call[s].record.key = NoKey /\ fits(call[s].old) /\ fits(call[s].record)
      /\ call[s].record.nonce = call[s].old.nonce
      /\ signed[call[s].record.hash].key = signed[call[s].old.hash].key
      /\ call[s].record.status = "broadcast_unknown" /\ call[s].oldId \in DOMAIN txs
  BY <1>1 DEF Local, Call, Loaded, SignedAgain, Replacing
<1>4. /\ sameCore(txs[call[s].oldId], call[s].old) /\ homed(call[s].old.hash)
      /\ \A i \in DOMAIN txs :
           inFlight(i) /\ txs[i].nonce = call[s].old.nonce =>
             signed[txs[i].hash].key = signed[call[s].old.hash].key
      /\ call[s].at # "revert" =>
           call[s].id # call[s].oldId /\ call[s].id \in DOMAIN txs /\ txs[call[s].id] = call[s].record
  BY <1>2 DEF Owned, Loaded
<1> QED  BY <1>1, <1>2, <1>3, <1>4

LEMMA ReplacementSent ==
  ASSUME Inv, NEW s \in Servers, sendReplacement(s)
  PROVE  Inv'
<1> DEFINE id == call[s].id
           old == call[s].old
           record == call[s].record
<1>1. call[s].at = "sendReplacement" /\ UNCHANGED <<signed, chain, txs, tick>>
  BY DEF sendReplacement
<1>2. /\ call[s] \in Call /\ call \in [Servers -> Call] /\ Repository /\ call[s].at \in AfterRenewal
      /\ record.key = NoKey /\ fits(old) /\ fits(record) /\ record.nonce = old.nonce
      /\ signed[record.hash].key = signed[old.hash].key /\ record.status = "broadcast_unknown"
      /\ call[s].oldId \in DOMAIN txs /\ sameCore(txs[call[s].oldId], old) /\ homed(old.hash)
      /\ id # call[s].oldId /\ id \in DOMAIN txs /\ txs[id] = record
  BY <1>1, ReplacementFacts
<1>3. \A i \in DOMAIN txs :
        inFlight(i) /\ txs[i].nonce = old.nonce => signed[txs[i].hash].key = signed[old.hash].key
  BY <1>1, ReplacementFacts
<1>4. ASSUME NEW answer, sendTransaction(record.hash, answer)
      PROVE  Repository' /\ Extends /\ (answer = "rejected" => Calm)
  <2>1. ~settled(txs[id])
    BY <1>2 DEF settled
  <2> QED  BY <1>1, <1>2, <1>4, <2>1, SendKeeps
<1>5. CASE sendTransaction(record.hash, "accepted") /\ goTo(s, "sent") /\ UNCHANGED lease
  <2> DEFINE c == [call[s] EXCEPT !.at = "sent"]
  <2>1. c \in Call /\ c.at = "sent" /\ c.id = id /\ c.record = record /\ c.token = call[s].token
    BY <1>2, GoToFields
  <2>2. call' = [call EXCEPT ![s] = c]
    BY <1>5 DEF goTo
  <2> HIDE DEF c
  <2>3. call'[s] = c
    BY <1>2, <2>2
  <2>4. Local(s)' /\ Owned(s)'
    BY <1>1, <1>2, <2>1, <2>3 DEF Local, Owned, Submitting, Signed, Loaded, Replacing, SignedAgain
  <2> QED  BY <1>1, <1>2, <1>4, <1>5, <2>1, <2>2, <2>4, GoOnKeeps
<1>6. CASE sendTransaction(record.hash, "rejected") /\ goTo(s, "abandon") /\ UNCHANGED lease
  <2> DEFINE c == [call[s] EXCEPT !.at = "abandon"]
  <2>1. /\ c \in Call /\ c.at = "abandon" /\ c.id = id /\ c.record = record
        /\ c.token = call[s].token /\ c.oldId = call[s].oldId /\ c.old = old
    BY <1>2, GoToFields
  <2>2. call' = [call EXCEPT ![s] = c]
    BY <1>6 DEF goTo
  <2> HIDE DEF c
  <2>3. call'[s] = c
    BY <1>2, <2>2
  <2>4. Local(s)'
    BY <1>1, <1>2, <2>1, <2>3 DEF Local, fits, Submitting, Signed, Loaded, Replacing, SignedAgain
  <2>5. Owned(s)'
    BY <1>1, <1>2, <1>3, <2>1, <2>3 DEF Owned, Loaded, inFlight, homed
  <2> QED  BY <1>1, <1>2, <1>4, <1>6, <2>1, <2>2, <2>4, <2>5, GoOnKeeps
<1>7. CASE sendTransaction(record.hash, "lost") /\ return(s)
  BY <1>1, <1>2, <1>4, <1>7, ReturnKeeps
<1> QED  BY <1>5, <1>6, <1>7 DEF sendReplacement

LEMMA AbandonKeeps ==
  ASSUME Inv, NEW s \in Servers, abandonReplacement(s)
  PROVE  Inv'
<1> DEFINE id == call[s].id
           oldId == call[s].oldId
           old == call[s].old
           record == call[s].record
           c == [call[s] EXCEPT !.at = "revert"]
<1>1. /\ call[s].at = "abandon" /\ UNCHANGED <<signed, mempool, chain, tick, lease>> /\ UNCHANGED nodeVars
      /\ call' = [call EXCEPT ![s] = c]
  BY DEF abandonReplacement, nodeVars, goTo
<1>2. /\ call[s] \in Call /\ call \in [Servers -> Call] /\ Repository /\ call[s].at \in AfterRenewal
      /\ record.key = NoKey /\ fits(old) /\ fits(record) /\ record.nonce = old.nonce
      /\ signed[record.hash].key = signed[old.hash].key /\ record.status = "broadcast_unknown"
      /\ oldId \in DOMAIN txs /\ sameCore(txs[oldId], old) /\ homed(old.hash)
      /\ id # oldId /\ id \in DOMAIN txs /\ txs[id] = record
  BY <1>1, ReplacementFacts
<1>3. \A i \in DOMAIN txs :
        inFlight(i) /\ txs[i].nonce = old.nonce => signed[txs[i].hash].key = signed[old.hash].key
  BY <1>1, ReplacementFacts
<1>4. /\ Repository' /\ Extends /\ DOMAIN txs' = DOMAIN txs
      /\ \A i \in DOMAIN txs : txs'[i] = txs[i] \/ (i = id /\ txs'[i].status = "failed")
      /\ \A h \in DOMAIN signed : homed(h) => homed(h)'
  <2>1. CASE txs' = txs
    BY <1>1, <1>2, <2>1, RestKeeps DEF homed
  <2>2. CASE txs' = [txs EXCEPT ![id] = [record EXCEPT !.status = "failed"]]
    BY <1>1, <1>2, <2>2, FailReplacement
  <2> QED  BY <2>1, <2>2 DEF abandonReplacement
<1>5. /\ c \in Call /\ c.at = "revert" /\ c.id = id /\ c.record = record
      /\ c.token = call[s].token /\ c.oldId = oldId /\ c.old = old
  BY <1>2, GoToFields
<1> HIDE DEF c
<1>6. call'[s] = c
  BY <1>1, <1>2
<1>7. Local(s)'
  BY <1>1, <1>2, <1>4, <1>5, <1>6 DEF Local, fits, Submitting, Signed, Loaded, Replacing, SignedAgain
<1>8. Owned(s)'
  <2>1. homed(old.hash)'
    <3>1. PICK h \in DOMAIN signed : h = old.hash /\ homed(h)
      BY <1>2 DEF fits
    <3>2. homed(h)'
      BY <1>4, <3>1
    <3> QED  BY <1>5, <1>6, <3>1, <3>2 DEF homed
  <2>2. \A i \in DOMAIN txs' :
          inFlight(i)' /\ txs'[i].nonce = old.nonce => signed'[txs'[i].hash].key = signed'[old.hash].key
    BY <1>1, <1>3, <1>4 DEF inFlight
  <2>3. sameCore(txs'[oldId], old)
    BY <1>2, <1>4
  <2> QED  BY <1>5, <1>6, <2>1, <2>2, <2>3 DEF Owned, Loaded
<1> QED  BY <1>1, <1>2, <1>4, <1>5, <1>7, <1>8, GoOnKeeps

LEMMA RevertKeeps ==
  ASSUME Inv, NEW s \in Servers, revertOriginal(s)
  PROVE  Inv'
<1> DEFINE oldId == call[s].oldId
           old == call[s].old
           record == call[s].record
<1>1. call[s].at = "revert" /\ UNCHANGED <<signed, mempool, chain, tick>> /\ UNCHANGED nodeVars /\ return(s)
  BY DEF revertOriginal, nodeVars
<1>2. /\ Repository /\ call[s].at \in AfterRenewal /\ record \in Transaction /\ old \in Transaction
      /\ oldId \in DOMAIN txs /\ sameCore(txs[oldId], old) /\ homed(old.hash)
  BY <1>1, ReplacementFacts
<1>3. \A i \in DOMAIN txs :
        inFlight(i) /\ txs[i].nonce = old.nonce => signed[txs[i].hash].key = signed[old.hash].key
  BY <1>1, ReplacementFacts
<1>4. CASE txs' = txs
  BY <1>1, <1>2, <1>4, RestKeeps, ReturnKeeps
<1>5. CASE txs' = [txs EXCEPT ![oldId] = [old EXCEPT !.status = "pending", !.replacedBy = 0,
                                            !.replacementCount = record.replacementCount,
                                            !.version = old.version + 2]]
  <2> DEFINE tx == [old EXCEPT !.status = "pending", !.replacedBy = 0,
                               !.replacementCount = record.replacementCount, !.version = old.version + 2]
  <2>1. PICK version \in Nat : version = old.version + 2
    BY <1>2 DEF Transaction
  <2>2. PICK count \in Nat : count = record.replacementCount
    BY <1>2 DEF Transaction
  <2>3. tx = recounted(old, "pending", 0, count, version)
    BY <2>1, <2>2 DEF recounted
  <2>4. txs' = [txs EXCEPT ![oldId] = tx] /\ "pending" \in TxStatus
    BY <1>5 DEF TxStatus
  <2> HIDE DEF tx
  <2>5. tx \in Transaction /\ sameCore(tx, old) /\ tx.status = "pending"
    BY <1>2, <2>3, <2>4, Rewritten
  <2>6. sameCore(tx, txs[oldId]) /\ homed(txs[oldId].hash)
    BY <1>2, <2>5 DEF sameCore
  <2>7. \A i \in DOMAIN txs :
          inFlight(i) /\ txs[i].nonce = txs[oldId].nonce => signed[txs[i].hash].key = signed[txs[oldId].hash].key
    BY <1>2, <1>3 DEF sameCore
  <2>8. Repository' /\ Extends
    BY <1>1, <1>2, <2>4, <2>5, <2>6, <2>7, RestatedKeeps
  <2> QED  BY <1>1, <1>2, <2>8, ReturnKeeps
<1> QED  BY <1>4, <1>5 DEF revertOriginal

\* An error ends a call where it is.
LEMMA AbortKeeps ==
  ASSUME Inv, NEW s \in Servers, abort(s)
  PROVE  Inv'
<1>1. call[s].at # "idle" /\ return(s) /\ UNCHANGED tick
  BY DEF abort
<1>2. Repository' /\ Extends /\ Calm
  BY RestKeeps DEF abort, Inv
<1> QED  BY <1>1, <1>2, ReturnKeeps

-----------------------------------------------------------------------------
(* The steps of a tick.                                                    *)

\* What a tick knows stays true while records stand for the same.
LEMMA InformedKept ==
  ASSUME Repository, NEW k, Informed(k), DOMAIN txs' = DOMAIN txs, \A id \in DOMAIN txs : sameCore(txs'[id], txs[id]),
         \A h \in DOMAIN signed : homed(h) => homed(h)'
  PROVE  \A q : q = k => Informed(q)'
<1> SUFFICES ASSUME k.at # "idle", NEW r \in k.todo
             PROVE  /\ r.id \in DOMAIN txs'
                    /\ sameCore(r.tx, txs'[r.id])
                    /\ k.at # "links" => ~settled(r.tx) /\ homed(r.tx.hash)'
  BY DEF Informed, sameCore, homed, settled
<1>1. r.id \in DOMAIN txs /\ sameCore(r.tx, txs[r.id]) /\ (k.at # "links" => ~settled(r.tx) /\ homed(r.tx.hash))
  BY DEF Informed
<1>2. PICK h \in DOMAIN signed : h = r.tx.hash
  BY <1>1 DEF Repository, RecordsFit, fits, sameCore
<1>3. k.at # "links" => homed(h)'
  BY <1>1, <1>2
<1> QED  BY <1>1, <1>2, <1>3 DEF sameCore, homed

\* A tick goes on while no call is under way.
LEMMA TickMovesKeep ==
  ASSUME Inv, NEW s \in Servers, idle, UNCHANGED <<lease, call, signed>>,
         NEW k \in Ticks, tick' = [tick EXCEPT ![s] = k], Informed(k),
         Repository', DOMAIN txs' = DOMAIN txs, \A id \in DOMAIN txs : sameCore(txs'[id], txs[id]),
         \A h \in DOMAIN signed : homed(h) => homed(h)'
  PROVE  Inv'
<1>1. tick \in [Servers -> Ticks]
  BY DEF Inv, ControlTypeOK
<1>2. tick' \in [Servers -> Ticks] /\ tick'[s] = k /\ \A t \in Servers : t # s => tick'[t] = tick[t]
  BY <1>1
<1>3. ControlTypeOK'
  BY <1>2 DEF Inv, ControlTypeOK, LeaseTypeOK
<1>4. \A t \in Servers : call'[t].at = "idle"
  BY DEF idle
<1>5. Fenced' /\ Apart' /\ CallsOK'
  BY <1>4 DEF Fenced, Apart, idle, CallsOK, Local, Owned, AfterRenewal, Submitting, Signed, Loaded, Replacing,
              SignedAgain
<1>6. TicksOK'
  <2> SUFFICES ASSUME NEW t \in Servers
               PROVE  Informed(tick[t])'
    BY DEF TicksOK
  <2>1. Informed(tick[t]) /\ Informed(k)
    BY DEF Inv, TicksOK
  <2>2. PICK q : q = tick'[t]
    OBVIOUS
  <2>3. q = k \/ q = tick[t]
    BY <1>2, <2>2
  <2>4. Informed(q)'
    <3>1. Repository
      BY DEF Inv
    <3>2. CASE q = k
      BY <3>1, <3>2, InformedKept
    <3>3. CASE q = tick[t]
      BY <2>1, <3>1, <3>3, InformedKept
    <3> QED  BY <2>3, <3>2, <3>3
  <2> QED  BY <2>2, <2>4 DEF Informed, sameCore, homed, settled
<1> QED  BY <1>3, <1>5, <1>6 DEF Inv

\* A tick that is under way meets no call.
LEMMA TicksIdle ==
  ASSUME Inv, NEW s \in Servers, tick[s].at # "idle"
  PROVE  idle /\ Repository /\ tick[s] \in Ticks /\ Informed(tick[s])
BY DEF Inv, Apart, ControlTypeOK, TicksOK

\* A tick goes on and leaves the repository and the network alone.
LEMMA TickRests ==
  ASSUME Inv, NEW s \in Servers, idle, UNCHANGED <<lease, nodeVars, txs, call>>,
         NEW k \in Ticks, tick' = [tick EXCEPT ![s] = k], Informed(k)
  PROVE  Inv'
<1>1. Repository' /\ signed' = signed
  BY RestKeeps DEF Inv, nodeVars
<1>2. \A h \in DOMAIN signed : homed(h) => homed(h)'
  BY <1>1 DEF homed
<1> QED  BY <1>1, <1>2, TickMovesKeep DEF sameCore

LEMMA ReadingKeeps ==
  ASSUME Inv, Disciplined, NEW s \in Servers,
         startTick(s) \/ listUnfinalized(s) \/ refreshOne(s) \/ abortTick(s) \/ endTick(s)
  PROVE  Inv'
<1>1. /\ \A id \in DOMAIN txs : txs[id] \in Transaction /\ id \in Nat
      /\ \A id \in DOMAIN txs : ~settled(txs[id]) => homed(txs[id].hash)
      /\ tick[s] \in Ticks
  BY Elements DEF Inv, Repository, Homed, ControlTypeOK
<1>2. ASSUME NEW ids \in SUBSET DOMAIN txs
      PROVE  snapshot(ids) \in SUBSET [id : Nat, tx : Transaction]
  BY <1>1 DEF snapshot
<1>3. CASE startTick(s)
  <2> DEFINE k == [at |-> "links", todo |-> snapshot({id \in DOMAIN txs : txs[id].replaces # 0})]
  <2>1. k \in Ticks /\ Informed(k)
    BY <1>2 DEF Ticks, Informed, snapshot, sameCore
  <2>2. idle /\ tick' = [tick EXCEPT ![s] = k]
    BY <1>3 DEF startTick, Disciplined
  <2> HIDE DEF k
  <2> QED  BY <1>3, <2>1, <2>2, TickRests DEF startTick
<1>4. CASE listUnfinalized(s)
  <2>1. PICK ids \in SUBSET DOMAIN txs :
          /\ tick' = [tick EXCEPT ![s] = [at |-> "each", todo |-> snapshot(ids)]]
          /\ \A id \in ids : ~settled(txs[id])
    <3>1. PICK window \in BOOLEAN :
            tick' = [tick EXCEPT ![s] =
              [at |-> "each",
               todo |-> snapshot({id \in DOMAIN txs :
                          \/ txs[id].status \notin {"replaced", "failed", "confirmed"}
                          \/ txs[id].status = "confirmed" /\ window})]]
      BY <1>4 DEF listUnfinalized
    <3>2. PICK ids \in SUBSET DOMAIN txs :
            ids = {id \in DOMAIN txs :
                     \/ txs[id].status \notin {"replaced", "failed", "confirmed"}
                     \/ txs[id].status = "confirmed" /\ window}
      OBVIOUS
    <3>3. \A id \in ids : ~settled(txs[id])
      BY <3>2 DEF settled
    <3> QED  BY <3>1, <3>2, <3>3
  <2> DEFINE k == [at |-> "each", todo |-> snapshot(ids)]
  <2>2. k \in Ticks /\ Informed(k)
    BY <1>1, <1>2, <2>1 DEF Ticks, Informed, snapshot, sameCore
  <2>3. idle /\ tick' = [tick EXCEPT ![s] = k]
    BY <1>4, <2>1, TicksIdle DEF listUnfinalized
  <2> HIDE DEF k
  <2> QED  BY <1>4, <2>2, <2>3, TickRests DEF listUnfinalized
<1>5. CASE refreshOne(s)
  <2>1. PICK label \in {"receipt", "missing"} : tick' = [tick EXCEPT ![s].at = label]
    BY <1>5 DEF refreshOne
  <2> DEFINE k == [tick[s] EXCEPT !.at = label]
  <2>2. tick[s].at = "each" /\ idle /\ Informed(tick[s]) /\ tick' = [tick EXCEPT ![s] = k]
    BY <1>5, <2>1, TicksIdle DEF refreshOne
  <2>3. k \in Ticks /\ k.at = label /\ k.todo = tick[s].todo
    BY <1>1 DEF Ticks
  <2> HIDE DEF k
  <2>4. Informed(k)
    BY <2>2, <2>3 DEF Informed
  <2> QED  BY <1>5, <2>2, <2>3, <2>4, TickRests DEF refreshOne
<1>6. CASE abortTick(s) \/ endTick(s)
  <2>1. NoTick \in Ticks /\ Informed(NoTick)
    BY DEF NoTick, Ticks, Informed
  <2>2. idle /\ UNCHANGED <<lease, nodeVars, txs, call>> /\ tick' = [tick EXCEPT ![s] = NoTick]
    BY <1>6, TicksIdle DEF abortTick, endTick
  <2> QED  BY <2>1, <2>2, TickRests
<1> QED  BY <1>3, <1>4, <1>5, <1>6

LEMMA ReconcileKeeps ==
  ASSUME Inv, NEW s \in Servers, reconcileReplacement(s)
  PROVE  Inv'
<1>1. /\ tick[s].at = "links" /\ UNCHANGED <<lease, nodeVars, call>> /\ UNCHANGED <<signed, mempool, chain>>
      /\ idle /\ Repository /\ tick[s] \in Ticks /\ Informed(tick[s])
  BY TicksIdle DEF reconcileReplacement, nodeVars
<1>2. PICK r \in tick[s].todo :
        /\ \/ txs' = txs
           \/ txs' = [txs EXCEPT ![r.tx.replaces].status = "replaced", ![r.tx.replaces].replacedBy = r.id]
        /\ tick' = [tick EXCEPT ![s].todo = @ \ {r}]
  BY DEF reconcileReplacement
<1> DEFINE k == [tick[s] EXCEPT !.todo = tick[s].todo \ {r}]
<1>3. k \in Ticks /\ k.at = tick[s].at /\ k.todo \subseteq tick[s].todo /\ r.id \in Nat
  BY <1>1 DEF Ticks
<1>4. tick' = [tick EXCEPT ![s] = k]
  BY <1>2
<1> HIDE DEF k
<1>5. Informed(k)
  BY <1>1, <1>3 DEF Informed
<1>6. CASE txs' = txs
  BY <1>1, <1>3, <1>4, <1>5, <1>6, TickRests
<1>7. CASE txs' = [txs EXCEPT ![r.tx.replaces].status = "replaced", ![r.tx.replaces].replacedBy = r.id]
  <2> DEFINE id == r.tx.replaces
             tx == [txs[id] EXCEPT !.status = "replaced", !.replacedBy = r.id]
  <2>1. CASE id \notin DOMAIN txs
    <3>1. txs' = txs
      BY <1>1, <1>7, <2>1 DEF Repository, DataTypeOK
    <3> QED  BY <1>6, <3>1
  <2>2. CASE id \in DOMAIN txs
    <3>1. txs' = [txs EXCEPT ![id] = tx]
      BY <1>7, <2>2
    <3>2. txs[id] \in Transaction
      BY <1>1, <2>2, Elements DEF Repository
    <3>3. tx \in Transaction /\ sameCore(tx, txs[id]) /\ tx.status = "replaced"
      BY <1>3, <3>2 DEF Transaction, TxStatus, sameCore
    <3> HIDE DEF tx, id
    <3>4. settled(tx) /\ tx.status \notin {"failed", "broadcast_unknown", "pending"}
      BY <3>3 DEF settled
    <3>5. /\ Repository' /\ DOMAIN txs' = DOMAIN txs /\ \A i \in DOMAIN txs : sameCore(txs'[i], txs[i])
          /\ \A h \in DOMAIN signed : homed(h) => homed(h)'
      BY <1>1, <2>2, <3>1, <3>3, <3>4, RestatedKeeps
    <3> QED  BY <1>1, <1>3, <1>4, <1>5, <3>5, TickMovesKeep
  <2> QED  BY <2>1, <2>2
<1> QED  BY <1>2, <1>6, <1>7

\* The statuses a refresh gives.
Seen == {"mined", "confirmed", "reverted", "reorged", "nonce_consumed_externally"}

\* The record a tick read is written back, with a new status.
LEMMA OverwriteKeeps ==
  ASSUME Repository, NEW id \in DOMAIN txs, NEW old \in Transaction, sameCore(old, txs[id]), homed(old.hash),
         NEW status \in Seen, txs' = [txs EXCEPT ![id] = [old EXCEPT !.status = status]],
         UNCHANGED <<signed, mempool, chain>>
  PROVE  /\ Repository' /\ DOMAIN txs' = DOMAIN txs /\ \A i \in DOMAIN txs : sameCore(txs'[i], txs[i])
         /\ \A h \in DOMAIN signed : homed(h) => homed(h)'
<1> DEFINE tx == [old EXCEPT !.status = status]
<1>1. tx \in Transaction /\ sameCore(tx, old) /\ tx.status = status
  BY DEF Transaction, TxStatus, sameCore, Seen
<1>2. txs' = [txs EXCEPT ![id] = tx]
  OBVIOUS
<1> HIDE DEF tx
<1>3. sameCore(tx, txs[id]) /\ homed(txs[id].hash) /\ tx.status \notin {"failed", "broadcast_unknown", "pending"}
  BY <1>1 DEF sameCore, Seen
<1> QED  BY <1>1, <1>2, <1>3, RestatedKeeps

\* After a record is dealt with, the tick goes on to the next one.
LEMMA NextRecord ==
  ASSUME Inv, NEW s \in Servers, tick[s].at \in {"receipt", "missing"}, NEW r \in tick[s].todo, next(s, r),
         UNCHANGED <<lease, call, signed>>,
         Repository', DOMAIN txs' = DOMAIN txs, \A i \in DOMAIN txs : sameCore(txs'[i], txs[i]),
         \A h \in DOMAIN signed : homed(h) => homed(h)'
  PROVE  Inv'
<1> DEFINE k == [at |-> "each", todo |-> tick[s].todo \ {r}]
<1>1. idle /\ tick[s] \in Ticks /\ Informed(tick[s])
  BY TicksIdle
<1>2. k \in Ticks /\ Informed(k)
  BY <1>1 DEF Ticks, Informed
<1>3. tick' = [tick EXCEPT ![s] = k]
  BY DEF next
<1> HIDE DEF k
<1> QED  BY <1>1, <1>2, <1>3, TickMovesKeep

\* The record a tick works on.
LEMMA RecordRead ==
  ASSUME Inv, NEW s \in Servers, tick[s].at \in {"receipt", "missing"}, NEW r \in tick[s].todo
  PROVE  /\ Repository /\ r.id \in DOMAIN txs /\ r.tx \in Transaction /\ sameCore(r.tx, txs[r.id])
         /\ ~settled(r.tx) /\ homed(r.tx.hash) /\ r.tx.hash \in DOMAIN signed /\ r.tx.nonce \in Nat
         /\ tracked(r.tx.hash)
<1>1. Repository /\ tick[s] \in Ticks /\ Informed(tick[s])
  BY TicksIdle
<1>2. r.tx \in Transaction
  BY <1>1 DEF Ticks
<1>3. r.id \in DOMAIN txs /\ sameCore(r.tx, txs[r.id]) /\ ~settled(r.tx) /\ homed(r.tx.hash)
  BY <1>1 DEF Informed
<1>4. r.tx.hash = txs[r.id].hash /\ txs[r.id].hash \in DOMAIN signed
  BY <1>1, <1>3 DEF Repository, RecordsFit, fits, sameCore
<1>5. r.tx.nonce \in Nat
  BY <1>2 DEF Transaction
<1> QED  BY <1>1, <1>2, <1>3, <1>4, <1>5 DEF tracked

\* Nothing is stored, or what was read with a new status.
LEMMA StoreKeeps ==
  ASSUME Inv, NEW s \in Servers, tick[s].at \in {"receipt", "missing"}, NEW r \in tick[s].todo, next(s, r),
         UNCHANGED <<lease, nodeVars, call>>,
         NEW status \in Seen, txs' = txs \/ txs' = overwritten(r, status)
  PROVE  Inv'
<1>1. /\ Repository /\ r.id \in DOMAIN txs /\ r.tx \in Transaction /\ sameCore(r.tx, txs[r.id])
      /\ homed(r.tx.hash)
  BY RecordRead
<1>2. UNCHANGED <<signed, mempool, chain>>
  BY DEF nodeVars
<1>3. /\ Repository' /\ DOMAIN txs' = DOMAIN txs /\ \A i \in DOMAIN txs : sameCore(txs'[i], txs[i])
      /\ \A h \in DOMAIN signed : homed(h) => homed(h)'
  <2>1. CASE txs' = txs
    BY <1>1, <1>2, <2>1, RestKeeps DEF homed, sameCore
  <2>2. CASE txs' = overwritten(r, status)
    BY <1>1, <1>2, <2>2, OverwriteKeeps DEF overwritten
  <2> QED  BY <2>1, <2>2
<1> QED  BY <1>2, <1>3, NextRecord

LEMMA ReceiptKeeps ==
  ASSUME Inv, NEW s \in Servers, handleReceipt(s)
  PROVE  Inv'
<1>1. PICK r \in tick[s].todo :
        /\ tick[s].at = "receipt" /\ next(s, r) /\ UNCHANGED <<lease, nodeVars, call>>
        /\ IF isMined(r.tx.hash)
           THEN \E status \in receiptStatuses(r.tx) :
                  \/ store(r, status)
                  \/ mishaps.reorgs > 0 /\ txs' = overwritten(r, status)
           ELSE store(r, "reorged")
  BY DEF handleReceipt
<1>2. receiptStatuses(r.tx) \subseteq Seen /\ "reorged" \in Seen
  BY DEF receiptStatuses, Seen
<1>3. PICK status \in Seen : txs' = txs \/ txs' = overwritten(r, status)
  BY <1>1, <1>2 DEF store
<1> QED  BY <1>1, <1>3, StoreKeeps

LEMMA MissingKeeps ==
  ASSUME Inv, NEW s \in Servers, handleMissingReceipt(s)
  PROVE  Inv'
<1>1. PICK r \in tick[s].todo :
        /\ tick[s].at = "missing" /\ next(s, r) /\ UNCHANGED <<lease, call>>
        /\ UNCHANGED <<signed, chain, mishaps>>
        /\ store(r, missingReceipt(r.tx))
        /\ IF r.tx.status = "broadcast_unknown" /\ nonceAt <= r.tx.nonce
           THEN rebroadcastUnknown(r.tx)
           ELSE UNCHANGED mempool
  BY DEF handleMissingReceipt
<1>2. /\ Repository /\ r.tx \in Transaction /\ r.tx.nonce \in Nat /\ r.tx.hash \in DOMAIN signed
      /\ homed(r.tx.hash) /\ tracked(r.tx.hash)
  BY <1>1, RecordRead
<1>3. missingReceipt(r.tx) \in Seen \/ missingReceipt(r.tx) = r.tx.status
  BY DEF missingReceipt, Seen
<1>4. CASE r.tx.status = "broadcast_unknown" /\ nonceAt <= r.tx.nonce
  <2>1. nonceAt \in Nat
    BY <1>2, Elements DEF nonceAt, Repository
  <2>2. ~(nonceAt > r.tx.nonce)
    BY <1>2, <1>4, <2>1
  <2>3. missingReceipt(r.tx) = r.tx.status
    BY <1>4, <2>2 DEF missingReceipt
  <2>4. txs' = txs
    BY <1>1, <2>3 DEF store
  <2>5. PICK answer \in {"accepted", "rejected", "lost"} : sendTransaction(r.tx.hash, answer)
    BY <1>1, <1>4 DEF rebroadcastUnknown
  <2>6. mempool' \subseteq DOMAIN signed /\ onNet' \subseteq onNet \cup {r.tx.hash}
    BY <1>1, <1>2, <2>5, Sending DEF Repository
  <2>7. chain' \in Seq(DOMAIN signed \cup {External}) /\ MinedInOrder'
    BY <1>1, <1>2 DEF Repository, DataTypeOK, MinedInOrder
  <2>8. Repository'
    BY <1>1, <1>2, <2>4, <2>6, <2>7, NetworkKeeps
  <2>9. \A h \in DOMAIN signed : homed(h) => homed(h)'
    BY <1>1, <2>4 DEF homed
  <2> QED  BY <1>1, <2>4, <2>8, <2>9, NextRecord DEF sameCore
<1>5. CASE ~(r.tx.status = "broadcast_unknown" /\ nonceAt <= r.tx.nonce)
  <2>1. UNCHANGED nodeVars
    BY <1>1, <1>5 DEF nodeVars
  <2>2. PICK status \in Seen : txs' = txs \/ txs' = overwritten(r, status)
    BY <1>1, <1>3 DEF store, Seen
  <2> QED  BY <1>1, <2>1, <2>2, StoreKeeps
<1> QED  BY <1>4, <1>5

-----------------------------------------------------------------------------
(* The steps of the environment.                                           *)

\* Calls and ticks stand still while the network or the clock moves.
LEMMA BystandersKeep ==
  ASSUME Inv, Calm, Repository', UNCHANGED <<call, tick>>, LeaseTypeOK', SameHolder, Fenced'
  PROVE  Inv'
<1>1. ControlTypeOK' /\ Apart'
  BY DEF Inv, ControlTypeOK, Apart, idle
<1>2. CallsOK'
  <2> SUFFICES ASSUME NEW t \in Servers
               PROVE  Local(t)' /\ (owns(t)' => Owned(t)')
    BY DEF CallsOK
  <2>1. Local(t) /\ (owns(t) => Owned(t)) /\ call'[t] = call[t] /\ Repository
    BY DEF Inv, CallsOK
  <2>2. Local(t)'
    BY <2>1, LocalKept DEF Calm
  <2>3. owns(t)' => owns(t)
    BY DEF owns, holds, SameHolder
  <2> QED  BY <2>1, <2>2, <2>3, OwnedKept
<1>3. TicksOK'
  <2> SUFFICES ASSUME NEW t \in Servers
               PROVE  Informed(tick[t])'
    BY DEF TicksOK
  <2>1. Informed(tick[t]) /\ Repository /\ tick'[t] = tick[t]
    BY DEF Inv, TicksOK
  <2>2. PICK q : q = tick[t]
    OBVIOUS
  <2>3. /\ DOMAIN txs' = DOMAIN txs /\ \A id \in DOMAIN txs : sameCore(txs'[id], txs[id])
        /\ \A h \in DOMAIN signed : homed(h) => homed(h)'
    BY <2>1, CalmRecords DEF Calm
  <2>4. Informed(q)'
    BY <2>1, <2>2, <2>3, InformedKept
  <2> QED  BY <2>1, <2>2, <2>4 DEF Informed, sameCore, homed, settled
<1> QED  BY <1>1, <1>2, <1>3 DEF Inv

LEMMA EnvironmentKeeps ==
  ASSUME Inv, Disciplined, LeaseExpires \/ NodeStep \/ UNCHANGED vars
  PROVE  Inv'
<1>1. CASE LeaseExpires
  <2>1. Repository' /\ Calm
    BY <1>1, RestKeeps DEF LeaseExpires, Inv
  <2>2. LeaseTypeOK' /\ SameHolder
    BY <1>1 DEF LeaseExpires, Inv, ControlTypeOK, LeaseTypeOK, SameHolder
  <2>3. Fenced'
    BY <1>1 DEF LeaseExpires, Disciplined, Inv, Fenced, owns, holds
  <2> QED  BY <1>1, <2>1, <2>2, <2>3, BystandersKeep DEF LeaseExpires
<1>2. CASE NodeStep
  <2>1. Repository' /\ onNet' \subseteq onNet /\ signed' = signed
    BY <1>2, NodeKeeps DEF NodeStep, Inv
  <2>2. Calm
    BY <1>2, <2>1 DEF Calm, Extends, NodeStep
  <2>3. LeaseTypeOK' /\ SameHolder /\ Fenced'
    BY <1>2 DEF NodeStep, Inv, ControlTypeOK, LeaseTypeOK, SameHolder, Fenced, owns, holds
  <2> QED  BY <1>2, <2>1, <2>2, <2>3, BystandersKeep DEF NodeStep
<1>3. CASE UNCHANGED vars
  <2>1. Repository' /\ Calm
    BY <1>3, RestKeeps DEF vars, nodeVars, Inv
  <2>2. LeaseTypeOK' /\ SameHolder /\ Fenced'
    BY <1>3 DEF vars, Inv, ControlTypeOK, LeaseTypeOK, SameHolder, Fenced, owns, holds
  <2> QED  BY <1>3, <2>1, <2>2, BystandersKeep DEF vars
<1> QED  BY <1>1, <1>2, <1>3

LEMMA CrashKeeps ==
  ASSUME Inv, NEW s \in Servers, crash(s)
  PROVE  Inv'
<1>1. /\ call \in [Servers -> Call] /\ tick \in [Servers -> Ticks] /\ Repository
      /\ UNCHANGED <<lease, nodeVars, txs>>
  BY DEF Inv, ControlTypeOK, crash
<1>2. /\ call' \in [Servers -> Call] /\ call'[s] = NoCall /\ \A t \in Servers : t # s => call'[t] = call[t]
      /\ tick' \in [Servers -> Ticks] /\ tick'[s] = NoTick /\ \A t \in Servers : t # s => tick'[t] = tick[t]
  <2>1. NoTick \in Ticks
    BY DEF NoTick, Ticks
  <2> QED  BY <1>1, <2>1, NoCallType DEF crash
<1>3. call'[s].at = "idle" /\ tick'[s].at = "idle"
  BY <1>2 DEF NoCall, NoTick
<1>4. Repository' /\ Extends /\ Calm
  BY <1>1, RestKeeps
<1>5. ControlTypeOK' /\ Fenced' /\ Apart'
  BY <1>1, <1>2, <1>3 DEF Inv, ControlTypeOK, LeaseTypeOK, Fenced, Apart, idle, owns, holds, AfterRenewal
<1>6. CallsOK'
  <2> SUFFICES ASSUME NEW t \in Servers
               PROVE  Local(t)' /\ (owns(t)' => Owned(t)')
    BY DEF CallsOK
  <2>1. CASE t = s
    BY <1>3, <2>1 DEF Local, Owned, Submitting, Signed, Loaded, Replacing, SignedAgain
  <2>2. CASE t # s
    <3>1. Local(t) /\ (owns(t) => Owned(t)) /\ call'[t] = call[t]
      BY <1>2, <2>2 DEF Inv, CallsOK
    <3>2. owns(t)' => owns(t)
      BY <1>1, <3>1 DEF owns, holds
    <3> QED  BY <1>1, <1>4, <3>1, <3>2, LocalKept, OwnedKept
  <2> QED  BY <2>1, <2>2
<1>7. TicksOK'
  BY <1>1, <1>2, <1>3 DEF Inv, TicksOK, Informed, homed, nodeVars
<1> QED  BY <1>4, <1>5, <1>6, <1>7 DEF Inv

-----------------------------------------------------------------------------
(* The invariant.                                                          *)

LEMMA InitHolds == Init => Inv
<1> SUFFICES ASSUME Init
             PROVE  Inv
  OBVIOUS
<1>1. /\ signed = <<>> /\ mempool = {} /\ chain = <<>> /\ txs = <<>> /\ onNet = {}
      /\ DOMAIN signed = {} /\ DOMAIN chain = {} /\ DOMAIN txs = {}
  BY DEF Init, NodeInit, onNet
<1>2. /\ call \in [Servers -> Call] /\ tick \in [Servers -> Ticks]
      /\ \A s \in Servers : call[s].at = "idle" /\ tick[s].at = "idle"
  <2>1. NoTick \in Ticks /\ NoTick.at = "idle" /\ NoCall.at = "idle"
    BY DEF NoTick, NoCall, Ticks
  <2> QED  BY <2>1, NoCallType DEF Init
<1>3. ControlTypeOK
  BY <1>2, LeaseAssumption DEF ControlTypeOK, Init, LeaseInit, LeaseTypeOK
<1>4. DataTypeOK /\ NoncesBounded
  BY <1>1 DEF DataTypeOK, NoncesBounded
<1>5. RecordsFit /\ KeysUnique /\ MinedInOrder /\ Homed /\ Tracked /\ NonceNotShared
  BY <1>1 DEF RecordsFit, KeysUnique, MinedInOrder, Homed, Tracked, NonceNotShared
<1>6. Fenced /\ Apart
  BY <1>2 DEF Fenced, Apart, idle, AfterRenewal
<1>7. CallsOK /\ TicksOK
  BY <1>2 DEF CallsOK, TicksOK, Informed, Local, Owned, Submitting, Signed, Loaded, Replacing, SignedAgain
<1> QED  BY <1>3, <1>4, <1>5, <1>6, <1>7 DEF Inv, Repository

LEMMA NextKeeps ==
  ASSUME Inv, Disciplined, [Next]_vars
  PROVE  Inv'
<1>1. ASSUME NEW s \in Servers, (\E key \in Keys : submit(s, key)) \/ (\E id \in DOMAIN txs : replace(s, id))
      PROVE  Inv'
  BY <1>1, SubmitStart
<1>2. ASSUME NEW s \in Servers, CallStep(s)
      PROVE  Inv'
  BY <1>2, CheckKeeps, LookupKeeps, SignSubmissionKeeps, RenewKeeps, PersistKeeps, SubmissionSent, OutcomeKeeps,
     LoadKeeps, SignReplacementKeeps, CreateKeeps, LinkKeeps, ReplacementSent, AbandonKeeps, RevertKeeps
     DEF CallStep
<1>3. ASSUME NEW s \in Servers, TickStep(s)
      PROVE  Inv'
  BY <1>3, ReadingKeeps, ReconcileKeeps, ReceiptKeeps, MissingKeeps DEF TickStep
<1>4. ASSUME NEW s \in Servers, abort(s) \/ abortTick(s) \/ crash(s)
      PROVE  Inv'
  BY <1>4, AbortKeeps, ReadingKeeps, CrashKeeps
<1> QED  BY <1>1, <1>2, <1>3, <1>4, EnvironmentKeeps DEF Next

LEMMA Holds ==
  ASSUME Disciplined
  PROVE  Spec => []Inv
<1>1. Inv /\ [Next]_vars => Inv'
  BY NextKeeps
<1> QED  BY <1>1, InitHolds, PTL DEF Spec

\* A set without two elements has at most one.
LEMMA AtMostOne ==
  ASSUME NEW S, \A x, y \in S : x = y
  PROVE  Cardinality(S) <= 1
<1>1. CASE S = {}
  BY <1>1, FS_EmptySet
<1>2. CASE S # {}
  <2>1. PICK x \in S : S = {x}
    BY <1>2
  <2> QED  BY <2>1, FS_Singleton
<1> QED  BY <1>1, <1>2

LEMMA OnceInRepository ==
  ASSUME Repository
  PROVE  DoneOnce
<1> SUFFICES ASSUME NEW key \in Keys \ RepeatableKeys
             PROVE  Cardinality(executions(key)) <= 1
  BY DEF DoneOnce
<1>1. ASSUME NEW i \in executions(key)
      PROVE  \E id \in DOMAIN txs : txs[id].key = key /\ txs[id].nonce = i - 1
  <2>1. i \in DOMAIN chain /\ chain[i] # External /\ signed[chain[i]].key = key
    BY DEF executions
  <2>2. homed(chain[i]) /\ signed[chain[i]].nonce = i - 1
    BY <2>1, Elements DEF Repository, Homed, MinedInOrder
  <2> QED  BY <2>1, <2>2 DEF homed
<1>2. ASSUME NEW i \in executions(key), NEW j \in executions(key)
      PROVE  i = j
  <2>1. PICK a \in DOMAIN txs : txs[a].key = key /\ txs[a].nonce = i - 1
    BY <1>1
  <2>2. PICK b \in DOMAIN txs : txs[b].key = key /\ txs[b].nonce = j - 1
    BY <1>1
  <2>3. key # NoKey
    BY TxAssumption
  <2>4. a = b
    BY <2>1, <2>2, <2>3 DEF Repository, KeysUnique
  <2>5. i \in Nat /\ j \in Nat
    BY Elements DEF Repository, executions
  <2> QED  BY <2>1, <2>2, <2>4, <2>5
<1> QED  BY <1>2, AtMostOne

\* The state of the transaction manager keeps its type: the lease, what was
\* signed, the repository, and the place of every call and tick.
THEOREM WellTyped ==
  ASSUME Disciplined
  PROVE  Spec => []TypeOK
<1>1. Inv => TypeOK
  BY DEF Inv, ControlTypeOK, Repository, DataTypeOK, TypeOK, Ticks
<1> QED  BY <1>1, Holds, PTL

\* An operation that was not declared repeatable is executed at most once on
\* chain, for any number of servers, retries, replacements, crashes, lost
\* answers, evictions and reorganisations (Submit, Replace, RefreshStatuses).
THEOREM ExecutedAtMostOnce ==
  ASSUME Disciplined
  PROVE  Spec => []DoneOnce
<1>1. Inv => DoneOnce
  BY OnceInRepository DEF Inv
<1> QED  BY <1>1, Holds, PTL

\* Whatever is in a pool or on chain can be found from the repository: records
\* are saved before they are sent, and retries archive what they replace.
THEOREM NothingUntracked ==
  ASSUME Disciplined
  PROVE  Spec => []Tracked
<1>1. Inv => Tracked
  BY DEF Inv, Repository
<1> QED  BY <1>1, Holds, PTL

\* No two operations compete for a nonce: allocateNonce under the lease that is
\* renewed before the record is saved.
THEOREM NoncesExclusive ==
  ASSUME Disciplined
  PROVE  Spec => []NonceNotShared
<1>1. Inv => NonceNotShared
  BY DEF Inv, Repository
<1> QED  BY <1>1, Holds, PTL
=============================================================================
