----------------------------- MODULE Compliance -----------------------------
(***************************************************************************)
(* The compliance pipeline (server/internal/compliance and the handlers of *)
(* server/internal/api/compliance.go): wallet challenges, KYC deliveries   *)
(* stored and claimed per wallet, the reconcilers that relay the claimed   *)
(* decision, the administrator's status writes, the guard that caps        *)
(* approvals, and the projector that rebuilds the read model.  A step is   *)
(* one call to a repository, the transaction manager or the guard; a       *)
(* document is written whole, as ReplaceOne does.  A request or a tick may *)
(* end after any step, by an error or a crash.  Time is abstracted: a      *)
(* delivery may be too old when it arrives, a challenge may expire, and a  *)
(* transaction's in-flight window may pass.                                *)
(***************************************************************************)
EXTENDS Kyc, Sequences, FiniteSets, TLC

CONSTANTS
  Wallets,
  Replicas,
  Setups,           \* deployments: the provider, and what will be asked of each (see setup)
  Runs,             \* workflow runs Onfido may open
  MaxActive,        \* MaxActiveChallengesPerAddress
  Excluded,         \* system addresses that do not count
  MonitoringBlock   \* whether a monitoring hit blocks an allowed wallet

ASSUME ComplianceAssumption ==
  /\ NoWallet \notin Wallets
  /\ Excluded \subseteq Wallets
  /\ MonitoringBlock \in BOOLEAN

\* The keys of the events that s may store: a delivery's, and its block's.
eventKeys(s) ==
  UNION {{2 * dec.eventId, 2 * dec.eventId + 1} :
         dec \in {c \in {VerifyWebhook(s.provider, d) : d \in s.deliveries} : c.error = "none"}}

\* A decision names a wallet or none, its event and its time; the keys of other
\* writes do not start like an event's.
Sound(s) ==
  /\ {"provider", "deliveries", "applicants", "admin", "multisig"} \subseteq DOMAIN s
  /\ s.applicants \subseteq Wallets
  /\ \A d \in s.deliveries :
       LET dec == VerifyWebhook(s.provider, d)
       IN  dec.error = "none" => /\ dec.eventId \in Nat \ {0} /\ dec.occurredAt \in Nat
                                 /\ dec.address \in Wallets \cup {NoWallet}
  /\ \A op \in s.admin \cup s.multisig : op.key \notin eventKeys(s)

ASSUME SetupAssumption == \A s \in Setups : Sound(s)

VARIABLES
  setup,            \* the deployment: its provider and what it will see, namely the
                    \* deliveries, wallets verified before, challenge nonces,
                    \* applicants, admin calls,
                    \* multisig writes, edits of the sanctions file, the cap on allowed
                    \* wallets (0 for none), the requests (at most 2) served
                    \* at once, and the bounds
                    \* faults, crashes and consumed on what may go wrong
  challenges,       \* wallet_challenges: each issued nonce's wallet and state
  investors,        \* investors: the read model of each wallet
  verifications,    \* kyc_verifications: the wallet bound to each reference
  kycEvents,        \* kyc_events, by event key
  claims,           \* kyc_claims: the event key that holds each wallet, 0 if none
  handler,          \* what each request handler is doing
  reconciler,       \* what each replica's WebhookReconciler is doing
  admin,            \* the administrator's calls
  guard,            \* who holds each replica's guard lock
  operations,       \* compliance_operations: keys of the recorded admin writes
  txs,              \* transactions by idempotency key
  pool,             \* keys of the transactions to be mined, in nonce order
  registry,         \* StatusChanged events of the chain, in order
  projector,        \* what the leader's projector is doing
  sanctions,        \* the sanctions file and the list in force
  faults,           \* failed submissions, reverts, reorganisations and unread files
  crashes,          \* requests and ticks cut short by an error or a crash
  consumed          \* nonces that an outside transaction took

requests == <<challenges, verifications, handler>>
decisions == <<kycEvents, claims, reconciler>>
desk == <<admin, guard, operations>>
chain == <<txs, pool, registry, consumed>>
readModel == <<investors, projector>>
world == <<setup, sanctions, faults, crashes>>
vars == <<requests, decisions, desk, chain, readModel, world>>

Free == 0            \* the guard's lock is free
Relay == 1           \* it is held by the replica's reconciler, or else by an admin call

NoInvestor == [known |-> FALSE, verified |-> FALSE, status |-> "Unknown"]
NoEvent == [key |-> 0, address |-> NoWallet, outcome |-> "Pending", at |-> 0,
            apply |-> "Superseded", tx |-> FALSE]
Idle == [at |-> "idle", event |-> NoEvent, hit |-> FALSE, override |-> FALSE,
         nonce |-> 0, investor |-> NoInvestor]
Resting == [at |-> "idle", event |-> NoEvent, batch |-> {}]
Waiting == [at |-> "idle", states |-> <<>>, todo |-> {}, all |-> <<>>]

Init ==
  /\ setup \in Setups
  /\ challenges = [n \in {} |-> 0]
  /\ investors = [w \in Wallets |->
       IF w \in setup.verified THEN [NoInvestor EXCEPT !.known = TRUE, !.verified = TRUE]
                               ELSE NoInvestor]
  /\ verifications = [r \in {} |-> NoWallet]
  /\ kycEvents = [k \in {} |-> NoEvent]
  /\ claims = [w \in Wallets |-> 0]
  /\ handler = [h \in 1..setup.handlers |-> Idle]
  /\ reconciler = [r \in Replicas |-> Resting]
  /\ admin = [op \in setup.admin |-> [at |-> "idle", on |-> "none"]]
  /\ guard = [r \in Replicas |-> Free]
  /\ operations = {}
  /\ txs = [k \in {} |-> 0]
  /\ pool = <<>>
  /\ registry = <<>>
  /\ projector = Waiting
  /\ sanctions = [file |-> {}, changed |-> FALSE, set |-> {}]
  /\ faults = 0
  /\ crashes = 0
  /\ consumed = 0

Fault == faults < setup.faults /\ faults' = faults + 1
Crash == crashes < setup.crashes /\ crashes' = crashes + 1

\* The documents f after an insert, or a replacement, under k.
put(f, k, v) == [x \in DOMAIN f \cup {k} |-> IF x = k THEN v ELSE f[x]]

StatusOf(w) ==
  LET writes == {i \in DOMAIN registry : registry[i].address = w}
  IN  IF writes = {} THEN "Unknown"
      ELSE registry[CHOOSE i \in writes : \A j \in writes : j <= i].status

-----------------------------------------------------------------------------
(* Wallet challenges: Create, and VerifyOwnership, which consumes the      *)
(* challenge and then reads and rewrites the investor's document.          *)

active(w) == {n \in DOMAIN challenges : challenges[n] = [address |-> w, state |-> "active"]}

createChallenge(w, n) ==
  /\ n \notin DOMAIN challenges
  /\ Cardinality(active(w)) < MaxActive
  /\ challenges' = put(challenges, n, [address |-> w, state |-> "active"])
  /\ UNCHANGED <<verifications, handler, decisions, desk, chain, readModel, world>>

expireChallenge(n) ==
  /\ n \in DOMAIN challenges /\ challenges[n].state = "active"
  /\ challenges' = [challenges EXCEPT ![n].state = "expired"]
  /\ UNCHANGED <<verifications, handler, decisions, desk, chain, readModel, world>>

\* The signature recovers the wallet the challenge was issued for.
verifyChallenge(h, n) ==
  /\ handler[h].at = "idle"
  /\ n \in DOMAIN challenges /\ challenges[n].state = "active"
  /\ handler' = [handler EXCEPT ![h] = [Idle EXCEPT !.at = "markUsed", !.nonce = n]]
  /\ UNCHANGED <<challenges, verifications, decisions, desk, chain, readModel, world>>

\* MarkUsed is a compare-and-set; the loser of two replays answers ErrChallengeUsed.
markUsed(h) ==
  /\ handler[h].at = "markUsed"
  /\ IF challenges[handler[h].nonce].state = "used"
     THEN handler' = [handler EXCEPT ![h] = Idle] /\ UNCHANGED challenges
     ELSE /\ challenges' = [challenges EXCEPT ![handler[h].nonce].state = "used"]
          /\ handler' = [handler EXCEPT ![h].at = "getInvestor"]
  /\ UNCHANGED <<verifications, decisions, desk, chain, readModel, world>>

getInvestor(h) ==
  /\ handler[h].at = "getInvestor"
  /\ handler' = [handler EXCEPT ![h].at = "putInvestor",
                   ![h].investor = investors[challenges[handler[h].nonce].address]]
  /\ UNCHANGED <<challenges, verifications, decisions, desk, chain, readModel, world>>

VerifyOwnership(h) ==
  /\ handler[h].at = "putInvestor"
  /\ investors' = [investors EXCEPT ![challenges[handler[h].nonce].address] =
                     [handler[h].investor EXCEPT !.known = TRUE, !.verified = TRUE]]
  /\ handler' = [handler EXCEPT ![h] = Idle]
  /\ UNCHANGED <<challenges, verifications, decisions, desk, chain, projector, world>>

\* A session exists for every wallet that has verified its ownership.
startKYC(w) ==
  /\ StartSupported(setup.provider)
  /\ investors[w].verified
  /\ \E ref \in StartRefs(setup.provider, w, Runs) :
       /\ ref \notin DOMAIN verifications
       /\ verifications' = put(verifications, ref, w)
  /\ UNCHANGED <<challenges, handler, decisions, desk, chain, readModel, world>>

-----------------------------------------------------------------------------
(* KYC deliveries: kycWebhook and ProcessDecision.  A delivery is stored   *)
(* as Claiming, claims its wallet by compare-and-set, and is rewritten     *)
(* with what the claim decided.                                            *)

statuses == {"Allowed", "Blocked", "Pending"}

newEvent(dec, wallet) ==
  [key |-> 2 * dec.eventId, address |-> wallet, outcome |-> dec.status,
   at |-> dec.occurredAt, apply |-> "Claiming", tx |-> FALSE]

\* The event of recordMonitoringBlock: its key sorts right after the hit's.
blockEvent(e) == [e EXCEPT !.key = e.key + 1, !.outcome = "Blocked", !.apply = "Claiming"]

walletOf(dec) ==
  CASE dec.address # NoWallet -> dec.address
    [] dec.ref \in DOMAIN verifications -> verifications[dec.ref]
    [] OTHER -> NoWallet

\* The checks of ProcessDecision, in which the payload hash stands for the event:
\* a stored delivery is a replay.  A delivery may arrive too late at any time.
kycWebhook(h, d) ==
  LET dec == VerifyWebhook(setup.provider, d)
  IN  /\ handler[h].at = "idle"
      /\ dec.error = "none"
      /\ dec.status \in statuses
      /\ dec.occurredAt > 0
      /\ LET w == walletOf(dec)
         IN  /\ w # NoWallet
             /\ investors[w].verified
             /\ 2 * dec.eventId \notin DOMAIN kycEvents
             /\ handler' = [handler EXCEPT ![h] =
                  [Idle EXCEPT !.at = "create", !.event = newEvent(dec, w),
                               !.hit = dec.monitoringHit]]
      /\ UNCHANGED <<challenges, verifications, decisions, desk, chain, readModel, world>>

\* Create's unique indexes reject a resend that raced past the first check.
ProcessDecision(h) ==
  LET e == handler[h].event
  IN  /\ handler[h].at = "create"
      /\ IF e.key \in DOMAIN kycEvents
         THEN handler' = [handler EXCEPT ![h] = Idle] /\ UNCHANGED kycEvents
         ELSE /\ kycEvents' = put(kycEvents, e.key, e)
              /\ handler' = [handler EXCEPT ![h].at = "claim"]
      /\ UNCHANGED <<challenges, verifications, claims, reconciler, desk, chain, readModel, world>>

\* (occurredAt, eventKey) in order.
newer(e, k) ==
  \/ k = 0
  \/ e.at > kycEvents[k].at
  \/ e.at = kycEvents[k].at /\ e.key > k

\* Mutant of ClaimLatestForAddress: the latest to arrive holds the claim.
ClaimOnArrival(e) == claims' = [claims EXCEPT ![e.address] = e.key]

ClaimLatestForAddress(e) ==
  claims' = IF newer(e, claims[e.address])
            THEN [claims EXCEPT ![e.address] = e.key]
            ELSE claims

finalized(e) ==
  [e EXCEPT !.apply = CASE claims'[e.address] # e.key -> "Superseded"
                        [] claims'[e.address] = e.key /\ e.outcome = "Pending" -> "Recorded"
                        [] OTHER -> "Accepted"]

\* The claim is read again when it was not won; it only moves to newer events,
\* so reading it later could only supersede this one sooner.
finalizeClaim(h) ==
  /\ handler[h].at = "claim"
  /\ ClaimLatestForAddress(handler[h].event)
  /\ handler' = [handler EXCEPT ![h].at = "update", ![h].event = finalized(@)]
  /\ UNCHANGED <<challenges, verifications, kycEvents, reconciler, desk, chain, readModel, world>>

\* A monitoring hit on a wallet still allowed records a Blocked decision that
\* needs no proof of ownership.
recordMonitoringBlock(h) ==
  /\ handler[h].at = "update"
  /\ LET e == handler[h].event
     IN  /\ kycEvents' = [kycEvents EXCEPT ![e.key] = e]
         /\ handler' = [handler EXCEPT ![h] =
              IF /\ e.apply # "Superseded"
                 /\ handler[h].hit /\ MonitoringBlock
                 /\ investors[e.address].status = "Allowed"
              THEN [Idle EXCEPT !.at = "create", !.event = blockEvent(e)]
              ELSE Idle]
  /\ UNCHANGED <<challenges, verifications, claims, reconciler, desk, chain, readModel, world>>

abandonRequest(h) ==
  /\ handler[h].at # "idle"
  /\ Crash
  /\ handler' = [handler EXCEPT ![h] = Idle]
  /\ UNCHANGED <<challenges, verifications, decisions, desk, chain, readModel, setup, sanctions, faults>>

-----------------------------------------------------------------------------
(* The guard.                                                              *)

AllowedWallets == {w \in Wallets \ Excluded : investors[w].status = "Allowed"}

SanctionedAllowed == AllowedWallets \cap sanctions.set

inFlight(k) ==
  k \in DOMAIN txs /\ txs[k].state \in {"pending", "mined", "confirmed"} /\ txs[k].recent

countedWallets ==
  AllowedWallets
  \cup {txs[k].address : k \in {o \in operations :
           txs[o].status = "Allowed" /\ txs[o].address \notin Excluded /\ inFlight(o)}}
  \cup {kycEvents[k].address : k \in {e \in DOMAIN kycEvents :
           /\ kycEvents[e].outcome = "Allowed" /\ kycEvents[e].tx
           /\ kycEvents[e].apply \in {"Applying", "Applied"}
           /\ kycEvents[e].address \notin Excluded
           /\ inFlight(e)}}

CheckAllow(w) ==
  /\ w \notin sanctions.set
  /\ \/ setup.maxWallets = 0
     \/ w \in Excluded
     \/ w \in countedWallets
     \/ Cardinality(countedWallets) < setup.maxWallets

\* The operator edits the sanctions file; Reload notices its new modification
\* time, and keeps the list in force when the file does not parse.
editSanctions ==
  /\ setup.edits # {}
  /\ \E set \in setup.edits :
       /\ sanctions' = [sanctions EXCEPT !.file = set, !.changed = TRUE]
       /\ setup' = [setup EXCEPT !.edits = @ \ {set}]
  /\ UNCHANGED <<requests, decisions, desk, chain, readModel, faults, crashes>>

Reload ==
  /\ sanctions.changed
  /\ \/ sanctions' = [sanctions EXCEPT !.changed = FALSE, !.set = sanctions.file] /\ UNCHANGED faults
     \/ Fault /\ sanctions' = [sanctions EXCEPT !.changed = FALSE]
  /\ UNCHANGED <<requests, decisions, desk, chain, readModel, setup, crashes>>

-----------------------------------------------------------------------------
(* The transaction manager and the chain, as TxManager promises them: one  *)
(* transaction per idempotency key, retried only once it has failed, was   *)
(* reorganised away or lost its nonce; transactions mined in nonce order.  *)

transaction(w, status, state) ==
  [address |-> w, status |-> status, state |-> state, recent |-> TRUE]

free(k) == k \in DOMAIN txs => txs[k].state \in {"failed", "reorged", "consumed"}

\* Submit with AllowReorgRetry: a key that is in flight or done is answered with
\* its transaction.
SetStatus(k, w, status) ==
  IF ~free(k)
  THEN UNCHANGED <<txs, pool>>
  ELSE /\ txs' = put(txs, k, transaction(w, status, "pending"))
       /\ pool' = Append(pool, k)

\* The error path: nothing is sent, or the node rejected what was sent.
SetStatusFails(k, w, status) ==
  /\ Fault
  /\ UNCHANGED pool
  /\ \/ UNCHANGED txs
     \/ /\ free(k)
        /\ txs' = put(txs, k, transaction(w, status, "failed"))

mine ==
  /\ pool # <<>>
  /\ LET k == Head(pool)
     IN  /\ txs' = [txs EXCEPT ![k].state = "mined"]
         /\ registry' = Append(registry,
              [key |-> k, address |-> txs[k].address, status |-> txs[k].status])
  /\ pool' = Tail(pool)
  /\ UNCHANGED <<requests, decisions, desk, readModel, world, consumed>>

revert ==
  /\ pool # <<>>
  /\ Fault
  /\ txs' = [txs EXCEPT ![Head(pool)].state = "reverted"]
  /\ pool' = Tail(pool)
  /\ UNCHANGED <<requests, decisions, desk, readModel, setup, sanctions, crashes, registry, consumed>>

consumeNonce ==
  /\ pool # <<>>
  /\ consumed < setup.consumed
  /\ consumed' = consumed + 1
  /\ txs' = [txs EXCEPT ![Head(pool)].state = "consumed"]
  /\ pool' = Tail(pool)
  /\ UNCHANGED <<requests, decisions, desk, readModel, world, registry>>

confirm(k) ==
  /\ k \in DOMAIN txs /\ txs[k].state = "mined"
  /\ txs' = [txs EXCEPT ![k].state = "confirmed"]
  /\ UNCHANGED <<requests, decisions, desk, readModel, world, pool, registry, consumed>>

\* The newest write is reorganised away, even after it was confirmed.
reorg ==
  /\ registry # <<>>
  /\ Fault
  /\ LET k == registry[Len(registry)].key
     IN  txs' = IF k \in DOMAIN txs THEN [txs EXCEPT ![k].state = "reorged"] ELSE txs
  /\ registry' = SubSeq(registry, 1, Len(registry) - 1)
  /\ UNCHANGED <<requests, decisions, desk, readModel, setup, sanctions, crashes, pool, consumed>>

projected == \A w \in Wallets : investors[w].status = StatusOf(w)

\* An hour passes: assumed longer than mining and projecting take.
windowPasses(k) ==
  /\ setup.maxWallets > 0
  /\ k \in DOMAIN txs /\ txs[k].recent
  /\ pool = <<>> /\ projected /\ projector.at = "idle"
  /\ txs' = [txs EXCEPT ![k].recent = FALSE]
  /\ UNCHANGED <<requests, decisions, desk, readModel, world, pool, registry, consumed>>

\* The multisig writes the registry without the server.
multisig(op) ==
  /\ op \in setup.multisig
  /\ \A i \in DOMAIN registry : registry[i].key # op.key
  /\ registry' = Append(registry, op)
  /\ setup' = [setup EXCEPT !.multisig = @ \ {op}]
  /\ UNCHANGED <<requests, decisions, desk, readModel, sanctions, faults, crashes, txs, pool, consumed>>

-----------------------------------------------------------------------------
(* WebhookReconciler.Reconcile: a snapshot of the pending events, oldest   *)
(* decision first, then of the applied events whose transaction was        *)
(* reorganised away.                                                       *)

unfinished == {"Claiming", "Accepted", "Applying"}

\* A pass that finds nothing to do is left out.
due == \E k \in DOMAIN kycEvents :
  \/ kycEvents[k].apply \in unfinished
  \/ kycEvents[k].apply = "Applied" /\ txs[k].state = "reorged"

Reconcile(r) ==
  /\ reconciler[r].at = "idle"
  /\ due
  /\ reconciler' = [reconciler EXCEPT ![r] =
       [Resting EXCEPT !.at = "each",
          !.batch = {kycEvents[k] : k \in {e \in DOMAIN kycEvents :
                                             kycEvents[e].apply \in unfinished}}]]
  /\ UNCHANGED <<kycEvents, claims, requests, desk, chain, readModel, world>>

reconcileOne(r) ==
  /\ reconciler[r].at = "each"
  /\ \E e \in reconciler[r].batch :
       /\ \A f \in reconciler[r].batch : e.at <= f.at
       /\ \/ /\ e.apply = "Claiming"
             /\ ClaimLatestForAddress(e)
             /\ reconciler' = [reconciler EXCEPT ![r] =
                  [at |-> "update", event |-> finalized(e), batch |-> @.batch \ {e}]]
          \/ /\ e.apply # "Claiming"
             /\ reconciler' = [reconciler EXCEPT ![r] =
                  IF claims[e.address] # e.key
                  THEN [at |-> "update", event |-> [e EXCEPT !.apply = "Superseded"],
                        batch |-> @.batch \ {e}]
                  ELSE [at |-> e.apply, event |-> e, batch |-> @.batch \ {e}]]
             /\ UNCHANGED claims
  /\ UNCHANGED <<kycEvents, requests, desk, chain, readModel, world>>

goOn(r, label, e) == reconciler' = [reconciler EXCEPT ![r].at = label, ![r].event = e]

\* submit: an approval takes the guard's lock and keeps it until its event is
\* written; a refusal fails the event.
submitGuarded(r) ==
  LET e == reconciler[r].event
  IN  /\ reconciler[r].at = "Accepted" /\ e.outcome = "Allowed"
      /\ guard[r] = Free
      /\ guard' = [guard EXCEPT ![r] = Relay]
      /\ IF CheckAllow(e.address)
         THEN goOn(r, "send", e)
         ELSE goOn(r, "update", [e EXCEPT !.apply = "Failed"])
      /\ UNCHANGED <<kycEvents, claims, requests, admin, operations, chain, readModel, world>>

submit(r) ==
  LET e == reconciler[r].event
  IN  /\ \/ reconciler[r].at = "send"
         \/ reconciler[r].at = "Accepted" /\ e.outcome = "Blocked"
      /\ \/ /\ SetStatus(e.key, e.address, e.outcome)
            /\ goOn(r, "update", [e EXCEPT !.apply = "Applying", !.tx = TRUE])
            /\ UNCHANGED <<guard, faults>>
         \/ /\ SetStatusFails(e.key, e.address, e.outcome)
            /\ goOn(r, "each", NoEvent)
            /\ guard' = [guard EXCEPT ![r] = IF @ = Relay THEN Free ELSE @]
      /\ UNCHANGED <<kycEvents, claims, requests, admin, operations, readModel, setup, sanctions, crashes,
                     registry, consumed>>

\* A transaction in any other state leaves its event Applying.
checkSubmitted(r) ==
  LET e == reconciler[r].event
      state == txs[e.key].state
  IN  /\ reconciler[r].at = "Applying"
      /\ CASE state = "confirmed" -> goOn(r, "update", [e EXCEPT !.apply = "Applied"])
           [] state = "reverted" -> goOn(r, "update", [e EXCEPT !.apply = "Failed"])
           [] state \in {"failed", "reorged"} ->
                goOn(r, "update", [e EXCEPT !.apply = "Accepted", !.tx = FALSE])
           [] OTHER -> goOn(r, "each", NoEvent)
      /\ UNCHANGED <<kycEvents, claims, requests, desk, chain, readModel, world>>

updateEvent(r) ==
  LET e == reconciler[r].event
  IN  /\ reconciler[r].at \in {"update", "reopened"}
      /\ kycEvents' = [kycEvents EXCEPT ![e.key] = e]
      /\ goOn(r, IF reconciler[r].at = "update" THEN "each" ELSE "reopen", NoEvent)
      /\ guard' = [guard EXCEPT ![r] = IF @ = Relay THEN Free ELSE @]
      /\ UNCHANGED <<claims, requests, admin, operations, chain, readModel, world>>

listApplied(r) ==
  /\ reconciler[r].at = "each" /\ reconciler[r].batch = {}
  /\ reconciler' = [reconciler EXCEPT ![r] =
       [Resting EXCEPT !.at = "reopen",
          !.batch = {kycEvents[k] : k \in {e \in DOMAIN kycEvents :
                       kycEvents[e].apply = "Applied" /\ kycEvents[e].tx}}]]
  /\ UNCHANGED <<kycEvents, claims, requests, desk, chain, readModel, world>>

\* Mutant of reopenReorgedApplied: an applied event stays applied.
reopenNothing(r) ==
  /\ reconciler[r].at = "reopen"
  /\ reconciler' = [reconciler EXCEPT ![r] = Resting]
  /\ UNCHANGED <<kycEvents, claims, requests, desk, chain, readModel, world>>

reopenReorgedApplied(r) ==
  /\ reconciler[r].at = "reopen"
  /\ \/ /\ reconciler[r].batch = {}
        /\ reconciler' = [reconciler EXCEPT ![r] = Resting]
     \/ \E e \in reconciler[r].batch :
          reconciler' = [reconciler EXCEPT ![r] =
            IF txs[e.key].state = "reorged"
            THEN [at |-> "reopened", event |-> [e EXCEPT !.apply = "Accepted", !.tx = FALSE],
                  batch |-> @.batch \ {e}]
            ELSE [@ EXCEPT !.batch = reconciler[r].batch \ {e}]]
  /\ UNCHANGED <<kycEvents, claims, requests, desk, chain, readModel, world>>

abandonTick(r) ==
  /\ reconciler[r].at # "idle"
  /\ Crash
  /\ reconciler' = [reconciler EXCEPT ![r] = Resting]
  /\ guard' = [guard EXCEPT ![r] = IF @ = Relay THEN Free ELSE @]
  /\ UNCHANGED <<kycEvents, claims, requests, admin, operations, chain, readModel, setup, sanctions, faults>>

-----------------------------------------------------------------------------
(* setComplianceStatus: the administrator's own writes.                    *)

adminTo(op, label, r) == admin' = [admin EXCEPT ![op] = [at |-> label, on |-> r]]

\* The guard as it is once op's request on r has returned.
released(op, r) == [guard EXCEPT ![r] = IF @ = op.key THEN Free ELSE @]

setComplianceStatus(r, op) ==
  /\ admin[op].at = "idle"
  /\ IF op.status = "Allowed"
     THEN /\ guard[r] = Free
          /\ IF CheckAllow(op.address)
             THEN adminTo(op, "send", r) /\ guard' = [guard EXCEPT ![r] = op.key]
             ELSE adminTo(op, "done", r) /\ UNCHANGED guard
     ELSE adminTo(op, "send", r) /\ UNCHANGED guard
  /\ UNCHANGED <<requests, decisions, operations, chain, readModel, world>>

adminSend(op) ==
  LET r == admin[op].on
  IN  /\ admin[op].at = "send"
      /\ \/ /\ SetStatus(op.key, op.address, op.status)
            /\ adminTo(op, "record", r)
            /\ UNCHANGED <<guard, faults>>
         \/ /\ SetStatusFails(op.key, op.address, op.status)
            /\ adminTo(op, "done", r)
            /\ guard' = released(op, r)
      /\ UNCHANGED <<requests, decisions, operations, readModel, setup, sanctions, crashes, registry, consumed>>

\* The operation's record; a failure to write it is only logged.
adminRecord(op) ==
  LET r == admin[op].on
  IN  /\ admin[op].at = "record"
      /\ \/ operations' = operations \cup {op.key} /\ UNCHANGED crashes
         \/ Crash /\ UNCHANGED operations
      /\ adminTo(op, "done", r)
      /\ guard' = released(op, r)
      /\ UNCHANGED <<requests, decisions, chain, readModel, setup, sanctions, faults>>

-----------------------------------------------------------------------------
(* The projector, which runs on the leader only: the last StatusChanged of *)
(* each wallet, then a reset of the wallets without one.                   *)

BuildStatuses ==
  [w \in {registry[i].address : i \in DOMAIN registry} |-> StatusOf(w)]

\* A pass over a read model that is up to date rewrites what it read; it matters
\* only when a challenge may be verified meanwhile.
listStatuses ==
  /\ projector.at = "idle"
  /\ projected => setup.nonces # {}
  /\ projector' = [Waiting EXCEPT !.at = "get", !.states = BuildStatuses,
                                  !.todo = DOMAIN BuildStatuses]
  /\ UNCHANGED <<investors, requests, decisions, desk, chain, world>>

\* Get: the off-chain flag that the rewritten document will keep.
loadInvestor ==
  /\ projector.at = "get"
  /\ \E w \in projector.todo :
       projector' = [projector EXCEPT !.at = "put", !.todo = @ \ {w}, !.all = w :> investors[w]]
  /\ UNCHANGED <<investors, requests, decisions, desk, chain, world>>

upsertInvestor ==
  /\ projector.at = "put"
  /\ \E w \in DOMAIN projector.all :
       investors' = [investors EXCEPT ![w] =
         [known |-> TRUE, verified |-> projector.all[w].verified, status |-> projector.states[w]]]
  /\ projector' = [projector EXCEPT !.at = "get", !.all = <<>>]
  /\ UNCHANGED <<requests, decisions, desk, chain, world>>

listInvestors ==
  /\ projector.at = "get" /\ projector.todo = {}
  /\ projector' = [projector EXCEPT !.at = "reset", !.all = investors,
       !.todo = {w \in Wallets \ DOMAIN projector.states :
                   investors[w].known /\ investors[w].status # "Unknown"}]
  /\ UNCHANGED <<investors, requests, decisions, desk, chain, world>>

resetInvestor ==
  /\ projector.at = "reset"
  /\ \/ /\ projector.todo = {}
        /\ projector' = Waiting
        /\ UNCHANGED investors
     \/ \E w \in projector.todo :
          /\ investors' = [investors EXCEPT ![w] = [projector.all[w] EXCEPT !.status = "Unknown"]]
          /\ projector' = [projector EXCEPT !.todo = @ \ {w}]
  /\ UNCHANGED <<requests, decisions, desk, chain, world>>

-----------------------------------------------------------------------------
Reconciles(r) ==
  \/ Reconcile(r) \/ reconcileOne(r) \/ submitGuarded(r) \/ submit(r) \/ checkSubmitted(r)
  \/ updateEvent(r) \/ listApplied(r) \/ reopenReorgedApplied(r)

Serves(h) ==
  \/ markUsed(h) \/ getInvestor(h) \/ VerifyOwnership(h)
  \/ ProcessDecision(h) \/ finalizeClaim(h) \/ recordMonitoringBlock(h)

Administers(op) == adminSend(op) \/ adminRecord(op)

Projects == listStatuses \/ loadInvestor \/ upsertInvestor \/ listInvestors \/ resetInvestor

Next ==
  \/ \E w \in setup.applicants : startKYC(w)
  \/ \E w \in Wallets : \E n \in setup.nonces : createChallenge(w, n)
  \/ \E n \in setup.nonces : expireChallenge(n)
  \/ \E h \in DOMAIN handler :
       \/ Serves(h)
       \/ abandonRequest(h)
       \/ \E n \in setup.nonces : verifyChallenge(h, n)
       \/ \E d \in setup.deliveries : kycWebhook(h, d)
  \/ \E r \in Replicas : \/ Reconciles(r) \/ abandonTick(r)
                         \/ \E op \in setup.admin : setComplianceStatus(r, op)
  \/ \E op \in setup.admin : Administers(op)
  \/ \E op \in setup.multisig : multisig(op)
  \/ mine \/ revert \/ consumeNonce \/ reorg
  \/ \E k \in DOMAIN txs : confirm(k) \/ windowPasses(k)
  \/ editSanctions
  \/ Reload
  \/ Projects

\* Tickers run the reconcilers and the projector, requests are served, and the
\* chain mines and confirms what it was sent.
Fairness ==
  /\ \A r \in Replicas : WF_vars(Reconciles(r))
  /\ \A h \in 1..2 : WF_vars(h \in DOMAIN handler /\ Serves(h))
  /\ \A op \in UNION {s.admin : s \in Setups} : WF_vars(op \in setup.admin /\ Administers(op))
  /\ WF_vars(mine) /\ WF_vars(\E k \in DOMAIN txs : confirm(k))
  /\ WF_vars(Projects)

Spec == Init /\ [][Next]_vars /\ Fairness

-----------------------------------------------------------------------------
fromWebhook(i) == registry[i].key \in DOMAIN kycEvents

\* Decisions on a wallet reach the chain in the provider's order: what the
\* registry holds was never written over by a decision the provider had already
\* replaced (ClaimLatestForAddress and the check of reconcileOne).
InOrder ==
  \A i, j \in DOMAIN registry :
    (i < j /\ fromWebhook(i) /\ fromWebhook(j) /\ registry[i].address = registry[j].address)
      => \/ registry[i].key = registry[j].key
         \/ newer(kycEvents[registry[j].key], registry[i].key)

\* checkSubmitted leaves an event Applying when its nonce was taken from outside.
unattended(k) == k \in DOMAIN txs /\ txs[k].state = "consumed"

relayed(w) ==
  LET k == claims[w]
  IN  (k # 0 /\ kycEvents[k].outcome # "Pending") =>
        \/ kycEvents[k].apply = "Failed"
        \/ unattended(k)
        \/ /\ kycEvents[k].apply = "Applied"
           /\ \E i \in DOMAIN registry :
                /\ registry[i].key = k
                /\ \A j \in DOMAIN registry :
                     (j > i /\ registry[j].address = w) => ~fromWebhook(j)

\* Whatever crashes, errors and reorganisations happen, the newest decision on
\* each wallet is in the end the one in force on the chain, or is marked Failed
\* for the operator, and no older event is left unfinished; only a transaction
\* whose nonce was taken from outside waits for the operator.
NewestDecisionWins ==
  <>[](/\ \A w \in Wallets : relayed(w)
       /\ \A k \in DOMAIN kycEvents : kycEvents[k].apply \in unfinished => unattended(k))
=============================================================================
