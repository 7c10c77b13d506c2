----------------------------- MODULE TxManager -----------------------------
(***************************************************************************)
(* The transaction manager (server/internal/blockchain/txmanager.go) for   *)
(* one signer: Submit and Replace, which the per-signer lock and the nonce *)
(* lease serialise, RefreshStatuses, which takes neither, crashes, and the *)
(* repository of transaction records they share.  A step is one call to    *)
(* the repository, the lease or the node; a record is written whole, as    *)
(* ReplaceOne does.                                                        *)
(***************************************************************************)
EXTENDS NonceLease, EvmNode

CONSTANTS
  Keys,              \* idempotency keys: the operations callers ask for
  RepeatableKeys,    \* those submitted with AllowReorgRetry
  RevertingKeys,     \* those whose call reverts on chain
  NoKey,             \* the key of a replacement record
  MaxReplacements,   \* maxReplacementAttempts; 0 means unlimited
  MaxCrashes,        \* bound on process crashes
  MaxRecords,        \* bound on the repository
  Overlap,           \* whether a refresh tick may run during Submit or Replace
  Stalls             \* whether a holder may stall past its lease after renewing it

ASSUME TxAssumption ==
  /\ RepeatableKeys \subseteq Keys
  /\ RevertingKeys \subseteq Keys
  /\ NoKey \notin Keys
  /\ MaxReplacements \in Nat
  /\ MaxRecords \in Nat
  /\ Overlap \in BOOLEAN
  /\ Stalls \in BOOLEAN

VARIABLES
  txs,               \* the repository: the record of each id
  call,              \* the Submit or Replace each server is executing
  tick,              \* the RefreshStatuses each server is executing
  crashes            \* the number of crashes so far

vars == <<lease, signed, mempool, chain, mishaps, txs, call, tick, crashes>>

TxStatus ==
  {"pending", "mined", "confirmed", "replaced", "reverted", "reorged", "failed",
   "broadcast_unknown", "nonce_consumed_externally", "needs_intervention"}

Transaction ==
  [key : Keys \cup {NoKey}, nonce : Nat, hash : Nat, status : TxStatus,
   replaces : Nat, replacedBy : Nat, replacementCount : Nat, version : Nat,
   allowReorgRetry : BOOLEAN, attempts : SUBSET Nat]

NoRecord ==
  [key |-> NoKey, nonce |-> 0, hash |-> 0, status |-> "failed", replaces |-> 0,
   replacedBy |-> 0, replacementCount |-> 0, version |-> 0,
   allowReorgRetry |-> FALSE, attempts |-> {}]

\* A call in progress: where it is, its key, the id and the value of the record
\* it works on, the original's id and value (Replace), and its lease token.
NoCall ==
  [at |-> "idle", key |-> NoKey, id |-> 0, record |-> NoRecord, oldId |-> 0,
   old |-> NoRecord, token |-> 0]

NoTick == [at |-> "idle", todo |-> {}]

Init ==
  /\ LeaseInit
  /\ NodeInit
  /\ txs = <<>>
  /\ call = [s \in Servers |-> NoCall]
  /\ tick = [s \in Servers |-> NoTick]
  /\ crashes = 0

-----------------------------------------------------------------------------
(* The repository.                                                         *)

withKey(key) == {id \in DOMAIN txs : txs[id].key = key /\ key # NoKey}

\* Mutant of isRetryableStatus: an uncertain broadcast is retried too.
isRetryableUnknown(tx) ==
  \/ tx.status \in {"failed", "broadcast_unknown"}
  \/ tx.status \in {"reorged", "nonce_consumed_externally"} /\ tx.allowReorgRetry

isRetryableStatus(tx) ==
  \/ tx.status = "failed"
  \/ tx.status \in {"reorged", "nonce_consumed_externally"} /\ tx.allowReorgRetry

\* needsInterventionTx: the records that stop the signer.
blocking(tx) ==
  \/ tx.status = "needs_intervention"
  \/ tx.status \in {"reorged", "nonce_consumed_externally"} /\ ~tx.allowReorgRetry

\* The statuses of records that no longer hold their nonce.
Released == {"failed", "reorged", "nonce_consumed_externally", "replaced"}

heldNonces == {txs[id].nonce : id \in {i \in DOMAIN txs : txs[i].status \notin Released}}

largest(S) == CHOOSE n \in S : \A m \in S : m <= n

\* What the asked node says of its pool, which may lag behind.
pendingNonces == {n \in nonceAt..(nonceAt + MaxSigned) : n <= pendingNonceAt}

allocateNonce(pending) ==
  largest({pending, nonceAt} \cup {n + 1 : n \in heldNonces})

-----------------------------------------------------------------------------
(* Submit.                                                                 *)

idle == \A s \in Servers : call[s].at = "idle"
quiet == \A s \in Servers : tick[s].at = "idle"

goTo(s, label) == call' = [call EXCEPT ![s].at = label]

\* Every return: the deferred release of the lease, whose failure is ignored,
\* then of the lock.
return(s) ==
  /\ call' = [call EXCEPT ![s] = NoCall]
  /\ lease' \in {lease, released(s, call[s].token)}

\* The local lock and the lease; without the lease the call returns at once.
submit(s, key) ==
  /\ call[s].at = "idle"
  /\ Overlap \/ quiet
  /\ acquire(s)
  /\ call' = [call EXCEPT ![s] =
                [NoCall EXCEPT !.at = "check", !.key = key, !.token = lease'.token]]
  /\ UNCHANGED <<nodeVars, txs, tick, crashes>>

checkBlockers(s) ==
  /\ call[s].at = "check"
  /\ IF \E id \in DOMAIN txs : blocking(txs[id])
     THEN return(s)
     ELSE goTo(s, "lookup") /\ UNCHANGED lease
  /\ UNCHANGED <<nodeVars, txs, tick, crashes>>

lookupKey(s) ==
  /\ call[s].at = "lookup"
  /\ \/ /\ withKey(call[s].key) = {}
        /\ goTo(s, "sign")
        /\ UNCHANGED lease
     \/ \E id \in withKey(call[s].key) :
          IF isRetryableStatus(txs[id])
          THEN /\ call' = [call EXCEPT ![s].at = "sign", ![s].id = id, ![s].record = txs[id]]
               /\ UNCHANGED lease
          ELSE return(s)
  /\ UNCHANGED <<nodeVars, txs, tick, crashes>>

\* Mutant of signSubmission: the attempt a retry replaces is not archived.
signForgetting(s) ==
  \E pending \in pendingNonces :
  LET nonce == allocateNonce(pending)
  IN  /\ call[s].at = "sign"
      /\ Len(signed) < MaxSigned
      /\ signed' = Append(signed, [key |-> call[s].key, nonce |-> nonce])
      /\ call' = [call EXCEPT ![s].at = "renew",
           ![s].record =
             [NoRecord EXCEPT
                !.key = call[s].key, !.nonce = nonce, !.hash = Len(signed) + 1,
                !.status = "broadcast_unknown",
                !.allowReorgRetry = call[s].key \in RepeatableKeys]]
      /\ UNCHANGED <<lease, mempool, chain, mishaps, txs, tick, crashes>>

\* The record a new attempt replaces is archived in attempts.
signSubmission(s) ==
  \E pending \in pendingNonces :
  LET prior == call[s].record
      nonce == allocateNonce(pending)
  IN  /\ call[s].at = "sign"
      /\ Len(signed) < MaxSigned
      /\ signed' = Append(signed, [key |-> call[s].key, nonce |-> nonce])
      /\ call' = [call EXCEPT ![s].at = "renew",
           ![s].record =
             [NoRecord EXCEPT
                !.key = call[s].key, !.nonce = nonce, !.hash = Len(signed) + 1,
                !.status = "broadcast_unknown",
                !.allowReorgRetry = call[s].key \in RepeatableKeys,
                !.attempts = IF call[s].id = 0 THEN {} ELSE prior.attempts \cup {prior.hash}]]
      /\ UNCHANGED <<lease, mempool, chain, mishaps, txs, tick, crashes>>

\* Mutant of renewLease: the call goes on without renewing its lease.
renewUnchecked(s) ==
  /\ call[s].at \in {"renew", "renewReplacement"}
  /\ goTo(s, IF call[s].at = "renew" THEN "persist" ELSE "create")
  /\ UNCHANGED <<lease, nodeVars, txs, tick, crashes>>

\* A lost lease stops the call before anything is saved.
renewLease(s) ==
  /\ call[s].at \in {"renew", "renewReplacement"}
  /\ IF holds(s, call[s].token)
     THEN /\ renew(s, call[s].token)
          /\ goTo(s, IF call[s].at = "renew" THEN "persist" ELSE "create")
     ELSE return(s)
  /\ UNCHANGED <<nodeVars, txs, tick, crashes>>

\* A first attempt is created, and the unique key decides a race; a retry
\* overwrites the record of its key.
persist(s) ==
  /\ call[s].at = "persist"
  /\ \/ /\ call[s].id # 0
        /\ txs' = [txs EXCEPT ![call[s].id] = call[s].record]
        /\ goTo(s, "send")
        /\ UNCHANGED lease
     \/ /\ call[s].id = 0
        /\ withKey(call[s].key) = {}
        /\ Len(txs) < MaxRecords
        /\ txs' = Append(txs, call[s].record)
        /\ call' = [call EXCEPT ![s].at = "send", ![s].id = Len(txs) + 1]
        /\ UNCHANGED lease
     \/ /\ call[s].id = 0
        /\ withKey(call[s].key) # {}
        /\ return(s)
        /\ UNCHANGED txs
  /\ UNCHANGED <<nodeVars, tick, crashes>>

\* An unknown outcome leaves the record broadcast_unknown and returns.
send(s) ==
  /\ call[s].at = "send"
  /\ \/ sendTransaction(call[s].record.hash, "accepted") /\ goTo(s, "sent") /\ UNCHANGED lease
     \/ sendTransaction(call[s].record.hash, "rejected") /\ goTo(s, "refused") /\ UNCHANGED lease
     \/ sendTransaction(call[s].record.hash, "lost") /\ return(s)
  /\ UNCHANGED <<signed, chain, mishaps, txs, tick, crashes>>

recordOutcome(s) ==
  /\ call[s].at \in {"sent", "refused"}
  /\ txs' = [txs EXCEPT ![call[s].id] =
               [call[s].record EXCEPT
                  !.status = IF call[s].at = "sent" THEN "pending" ELSE "failed"]]
  /\ return(s)
  /\ UNCHANGED <<nodeVars, tick, crashes>>

-----------------------------------------------------------------------------
(* Replace.                                                                *)

replace(s, id) ==
  /\ call[s].at = "idle"
  /\ Overlap \/ quiet
  /\ acquire(s)
  /\ call' = [call EXCEPT ![s] =
                [NoCall EXCEPT !.at = "load", !.oldId = id, !.token = lease'.token]]
  /\ UNCHANGED <<nodeVars, txs, tick, crashes>>

exhausted(tx) == MaxReplacements > 0 /\ tx.replacementCount + 1 > MaxReplacements

\* Only a pending record can be replaced; one that has used up its attempts is
\* handed to the operator instead.
loadOriginal(s) ==
  LET old == txs[call[s].oldId]
  IN  /\ call[s].at = "load"
      /\ \/ /\ old.status # "pending"
            /\ return(s)
            /\ UNCHANGED txs
         \/ /\ old.status = "pending"
            /\ exhausted(old)
            /\ txs' = [txs EXCEPT ![call[s].oldId].status = "needs_intervention"]
            /\ return(s)
         \/ /\ old.status = "pending"
            /\ ~exhausted(old)
            /\ call' = [call EXCEPT ![s].at = "bump", ![s].old = old]
            /\ UNCHANGED <<lease, txs>>
      /\ UNCHANGED <<nodeVars, tick, crashes>>

\* The replacement reuses the nonce and carries no idempotency key.
signReplacement(s) ==
  LET old == call[s].old
  IN  /\ call[s].at = "bump"
      /\ Len(signed) < MaxSigned
      /\ signed' = Append(signed, [key |-> signed[old.hash].key, nonce |-> old.nonce])
      /\ call' = [call EXCEPT ![s].at = "renewReplacement",
           ![s].record =
             [NoRecord EXCEPT
                !.nonce = old.nonce, !.hash = Len(signed) + 1,
                !.status = "broadcast_unknown", !.replaces = call[s].oldId,
                !.replacementCount = old.replacementCount + 1]]
      /\ UNCHANGED <<lease, mempool, chain, mishaps, txs, tick, crashes>>

createReplacement(s) ==
  /\ call[s].at = "create"
  /\ Len(txs) < MaxRecords
  /\ txs' = Append(txs, call[s].record)
  /\ call' = [call EXCEPT ![s].at = "link", ![s].id = Len(txs) + 1]
  /\ UNCHANGED <<lease, nodeVars, tick, crashes>>

\* UpdateConditional: by version, which plain updates do not raise.
linkOriginal(s) ==
  LET old == call[s].old
  IN  /\ call[s].at = "link"
      /\ IF txs[call[s].oldId].version = old.version
         THEN /\ txs' = [txs EXCEPT ![call[s].oldId] =
                           [old EXCEPT !.status = "replaced", !.replacedBy = call[s].id,
                                       !.version = old.version + 1]]
              /\ goTo(s, "sendReplacement")
              /\ UNCHANGED lease
         ELSE /\ txs' = [txs EXCEPT ![call[s].id] = [call[s].record EXCEPT !.status = "failed"]]
              /\ return(s)
      /\ UNCHANGED <<nodeVars, tick, crashes>>

sendReplacement(s) ==
  /\ call[s].at = "sendReplacement"
  /\ \/ sendTransaction(call[s].record.hash, "accepted") /\ goTo(s, "sent") /\ UNCHANGED lease
     \/ sendTransaction(call[s].record.hash, "rejected") /\ goTo(s, "abandon") /\ UNCHANGED lease
     \/ sendTransaction(call[s].record.hash, "lost") /\ return(s)
  /\ UNCHANGED <<signed, chain, mishaps, txs, tick, crashes>>

\* An error of this write is ignored.
abandonReplacement(s) ==
  /\ call[s].at = "abandon"
  /\ txs' \in {txs, [txs EXCEPT ![call[s].id] = [call[s].record EXCEPT !.status = "failed"]]}
  /\ goTo(s, "revert")
  /\ UNCHANGED <<lease, nodeVars, tick, crashes>>

\* The original is restored, with the attempt counted, unless another writer
\* has raised its version.
revertOriginal(s) ==
  LET old == call[s].old
  IN  /\ call[s].at = "revert"
      /\ txs' = IF txs[call[s].oldId].version = old.version + 1
                THEN [txs EXCEPT ![call[s].oldId] =
                        [old EXCEPT !.status = "pending", !.replacedBy = 0,
                                    !.replacementCount = call[s].record.replacementCount,
                                    !.version = old.version + 2]]
                ELSE txs
      /\ return(s)
      /\ UNCHANGED <<nodeVars, tick, crashes>>

\* Any call to the repository, the lease or the node may fail with an error,
\* which ends the operation where it is.
abort(s) ==
  /\ call[s].at \notin {"idle", "abandon"}
  /\ return(s)
  /\ UNCHANGED <<nodeVars, txs, tick, crashes>>

-----------------------------------------------------------------------------
(* RefreshStatuses.                                                        *)

\* The records a query returns, as they are now; the loops take them by id.
snapshot(ids) == {[id |-> id, tx |-> txs[id]] : id \in ids}

isFirst(r, s) == r \in tick[s].todo /\ \A q \in tick[s].todo : r.id <= q.id

startTick(s) ==
  /\ tick[s].at = "idle"
  /\ Overlap \/ idle
  /\ tick' = [tick EXCEPT ![s] =
       [at |-> "links", todo |-> snapshot({id \in DOMAIN txs : txs[id].replaces # 0})]]
  /\ UNCHANGED <<lease, nodeVars, txs, call, crashes>>

\* Mutant of reconcileReplacement: the link is named but the status is not set.
reconcileNameOnly(s) ==
  /\ tick[s].at = "links"
  /\ \E r \in tick[s].todo : LET original == r.tx.replaces IN
       /\ isFirst(r, s)
       /\ txs' = IF r.tx.status = "failed" \/ txs[original].status = "replaced"
                THEN txs
                ELSE [txs EXCEPT ![original].replacedBy = r.id]
       /\ tick' = [tick EXCEPT ![s].todo = @ \ {r}]
  /\ UNCHANGED <<lease, nodeVars, call, crashes>>

\* reconcileReplacements: repair the link from an original to its replacement.
reconcileReplacement(s) ==
  /\ tick[s].at = "links"
  /\ \E r \in tick[s].todo : LET original == r.tx.replaces IN
       /\ isFirst(r, s)
       /\ txs' = IF r.tx.status = "failed" \/ txs[original].status = "replaced"
                THEN txs
                ELSE [txs EXCEPT ![original].status = "replaced", ![original].replacedBy = r.id]
       /\ tick' = [tick EXCEPT ![s].todo = @ \ {r}]
  /\ UNCHANGED <<lease, nodeVars, call, crashes>>

\* ListUnfinalized; a confirmed record beyond the reorg window may be left out.
listUnfinalized(s) ==
  /\ tick[s].at = "links"
  /\ tick[s].todo = {}
  /\ \E window \in BOOLEAN :
       tick' = [tick EXCEPT ![s] =
         [at |-> "each",
          todo |-> snapshot({id \in DOMAIN txs :
                       \/ txs[id].status \notin {"replaced", "failed", "confirmed"}
                       \/ txs[id].status = "confirmed" /\ window})]]
  /\ UNCHANGED <<lease, nodeVars, txs, call, crashes>>

\* What a receipt in a canonical block says of the record; how deep the block
\* lies is not modelled.
receiptStatuses(tx) ==
  IF signed[tx.hash].key \in RevertingKeys THEN {"reverted"} ELSE {"mined", "confirmed"}

\* Mutant of rebroadcastUnknown: the bytes are not sent again.
rebroadcastNothing(tx) == UNCHANGED mempool

rebroadcastUnknown(tx) == \E answer \in {"accepted", "rejected", "lost"} :
                            sendTransaction(tx.hash, answer)

\* The status the record is given when no receipt is found.
missingReceipt(tx) ==
  CASE tx.status \in {"broadcast_unknown", "pending"} /\ nonceAt > tx.nonce
         -> "nonce_consumed_externally"
    [] tx.status \in {"mined", "confirmed", "reverted", "reorged"} -> "reorged"
    [] OTHER -> tx.status

\* The snapshot is written back whole, and only when its status changes.
overwritten(r, status) == [txs EXCEPT ![r.id] = [r.tx EXCEPT !.status = status]]

store(r, status) == txs' = IF status = r.tx.status THEN txs ELSE overwritten(r, status)

\* refreshOne asks for the receipt first; what it does then uses the answer.
refreshOne(s) ==
  /\ tick[s].at = "each"
  /\ \E r \in tick[s].todo :
       /\ isFirst(r, s)
       /\ tick' = [tick EXCEPT ![s].at = IF isMined(r.tx.hash) THEN "receipt" ELSE "missing"]
  /\ UNCHANGED <<lease, nodeVars, txs, call, crashes>>

\* The rest of the loop's body for one record.
next(s, r) == tick' = [tick EXCEPT ![s] = [at |-> "each", todo |-> @.todo \ {r}]]

\* The block of the receipt is compared with the canonical one before use; the
\* record is also written back when a reorg moved it to another block.
handleReceipt(s) ==
  \E r \in tick[s].todo :
      /\ tick[s].at = "receipt"
      /\ isFirst(r, s)
      /\ IF isMined(r.tx.hash)
         THEN \E status \in receiptStatuses(r.tx) :
                \/ store(r, status)
                \/ mishaps.reorgs > 0 /\ txs' = overwritten(r, status)
         ELSE store(r, "reorged")
      /\ next(s, r)
      /\ UNCHANGED <<lease, nodeVars, call, crashes>>

handleMissingReceipt(s) ==
  \E r \in tick[s].todo :
      /\ tick[s].at = "missing"
      /\ isFirst(r, s)
      /\ store(r, missingReceipt(r.tx))
      /\ IF r.tx.status = "broadcast_unknown" /\ nonceAt <= r.tx.nonce
         THEN rebroadcastUnknown(r.tx)
         ELSE UNCHANGED mempool
      /\ next(s, r)
      /\ UNCHANGED <<lease, signed, chain, mishaps, call, crashes>>

\* An error of the repository or the node ends the tick.
abortTick(s) ==
  /\ tick[s].at # "idle"
  /\ tick[s].at = "links" \/ tick[s].todo # {}
  /\ tick' = [tick EXCEPT ![s] = NoTick]
  /\ UNCHANGED <<lease, nodeVars, txs, call, crashes>>

endTick(s) ==
  /\ tick[s].at = "each"
  /\ tick[s].todo = {}
  /\ tick' = [tick EXCEPT ![s] = NoTick]
  /\ UNCHANGED <<lease, nodeVars, txs, call, crashes>>

-----------------------------------------------------------------------------
(* The environment.                                                        *)

\* The process dies and is started again; its lease stays until it expires.
crash(s) ==
  /\ crashes < MaxCrashes
  /\ crashes' = crashes + 1
  /\ call' = [call EXCEPT ![s] = NoCall]
  /\ tick' = [tick EXCEPT ![s] = NoTick]
  /\ UNCHANGED <<lease, nodeVars, txs>>

\* The places of a call between the renewal of its lease and its last write.
AfterRenewal == {"persist", "send", "sent", "refused", "create", "link", "sendReplacement",
                 "abandon", "revert"}

LeaseExpires ==
  /\ lease.live
  /\ Stalls \/ ~\E s \in Servers : call[s].at \in AfterRenewal /\ holds(s, call[s].token)
  /\ lease' = [lease EXCEPT !.live = FALSE]
  /\ UNCHANGED <<nodeVars, txs, call, tick, crashes>>

NodeStep ==
  /\ NodeNext
  /\ UNCHANGED <<lease, txs, call, tick, crashes>>

CallStep(s) ==
  \/ checkBlockers(s) \/ lookupKey(s) \/ signSubmission(s) \/ renewLease(s)
  \/ persist(s) \/ send(s) \/ recordOutcome(s)
  \/ loadOriginal(s) \/ signReplacement(s) \/ createReplacement(s) \/ linkOriginal(s)
  \/ sendReplacement(s) \/ abandonReplacement(s) \/ revertOriginal(s)

TickStep(s) ==
  \/ startTick(s) \/ reconcileReplacement(s) \/ listUnfinalized(s)
  \/ refreshOne(s) \/ handleReceipt(s) \/ handleMissingReceipt(s) \/ endTick(s)

Next ==
  \/ \E s \in Servers :
       \/ \E key \in Keys : submit(s, key)
       \/ \E id \in DOMAIN txs : replace(s, id)
       \/ CallStep(s)
       \/ abort(s)
       \/ TickStep(s)
       \/ abortTick(s)
       \/ crash(s)
  \/ LeaseExpires
  \/ NodeStep

Spec == Init /\ [][Next]_vars

-----------------------------------------------------------------------------
(* Properties.                                                             *)

Call ==
  [at : {"idle", "check", "lookup", "sign", "renew", "load", "bump", "renewReplacement"}
        \cup AfterRenewal,
   key : Keys \cup {NoKey}, id : Nat, record : Transaction, oldId : Nat, old : Transaction,
   token : Nat]

TypeOK ==
  /\ LeaseTypeOK
  /\ signed \in Seq([key : Keys, nonce : Nat])
  /\ mempool \subseteq DOMAIN signed
  /\ chain \in Seq(DOMAIN signed \cup {External})
  /\ txs \in Seq(Transaction)
  /\ call \in [Servers -> Call]
  /\ tick \in [Servers -> [at : {"idle", "links", "each", "receipt", "missing"},
                          todo : SUBSET [id : Nat, tx : Transaction]]]

executions(key) == {i \in DOMAIN chain : chain[i] # External /\ signed[chain[i]].key = key}

\* An operation that was not declared repeatable is executed on chain at most
\* once, whatever is retried, replaced, rebroadcast, reorganised or lost
\* (isRetryableStatus, allocateNonce and the persist-before-send order of Submit).
DoneOnce == \A key \in Keys \ RepeatableKeys : Cardinality(executions(key)) <= 1

tracked(hash) == \E id \in DOMAIN txs : hash = txs[id].hash \/ hash \in txs[id].attempts

\* No signed transaction is in a pool or on chain unless a record, or one of the
\* attempts archived in it, still names it: a crash or a retry never leaves an
\* executed operation that the repository cannot find (Submit lines 328-370).
Tracked == \A hash \in mempool \cup {chain[i] : i \in DOMAIN chain} :
             hash # External => tracked(hash)

inFlight(id) == txs[id].status \in {"broadcast_unknown", "pending"}

\* Two in-flight records share a nonce only when they are attempts at the same
\* operation, so no two operations compete for a nonce: allocateNonce under the
\* lease renewed before persistence, across servers, crashes and lagging nodes.
NonceNotShared ==
  \A i, j \in DOMAIN txs :
    inFlight(i) /\ inFlight(j) /\ txs[i].nonce = txs[j].nonce
      => signed[txs[i].hash].key = signed[txs[j].hash].key

-----------------------------------------------------------------------------
(* Fairness: a server that does not crash finishes its calls and its ticks,  *)
(* its ticker (cmd/platform/main.go, every ten seconds) keeps starting them, *)
(* leases expire by the clock, the network keeps mining, a node that is      *)
(* offered the same transaction over and over accepts it in the end, and     *)
(* ticks do not fail for ever.                                               *)

Mines == (\E h \in mempool : mine(h)) /\ UNCHANGED <<lease, txs, call, tick, crashes>>

Accepts(s) == handleMissingReceipt(s) /\ mempool' # mempool

Fairness ==
  /\ \A s \in Servers :
       /\ WF_vars(CallStep(s))
       /\ WF_vars(TickStep(s))
       /\ SF_vars(Accepts(s))
  /\ WF_vars(LeaseExpires)
  /\ WF_vars(Mines)
  /\ <>[][\A s \in Servers : ~abortTick(s)]_vars

FairSpec == Spec /\ Fairness

unresolved(id) == id \in DOMAIN txs /\ txs[id].status = "broadcast_unknown"

\* Every uncertain broadcast is resolved: RefreshStatuses looks for its receipt
\* and sends the same bytes again until it is mined or its nonce is used up.
UnknownResolved == \A id \in 1..MaxRecords : unresolved(id) ~> ~unresolved(id)

unlinked(id) ==
  /\ id \in DOMAIN txs
  /\ txs[id].replaces # 0
  /\ txs[id].status # "failed"
  /\ txs[txs[id].replaces].status # "replaced"

\* A replacement whose link to its original was interrupted gets it in the end
\* (reconcileReplacements), so the original stops being refreshed on its own.
LinksRepaired == \A id \in 1..MaxRecords : unlinked(id) ~> ~unlinked(id)
=============================================================================
