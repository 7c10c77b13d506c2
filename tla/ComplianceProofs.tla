-------------------------- MODULE ComplianceProofs --------------------------
(***************************************************************************)
(* Decisions on a wallet reach the chain in the provider's order, for any  *)
(* deployment, wallets and deliveries, when one reconciler relays them.    *)
(* The argument: every event on its way to the chain is at most the one    *)
(* that holds its wallet's claim, claims only move to newer events, and    *)
(* the reconciler submits an event that held the claim when it looked.     *)
(***************************************************************************)
EXTENDS Compliance, SequenceTheorems, TLAPS

EventKeys == eventKeys(setup)

EventFields == {"key", "address", "outcome", "at", "apply", "tx"}

\* An event, and one that agrees with the stored event of its key.
Event(e) ==
  /\ e = [f \in EventFields |-> e[f]]
  /\ e.key \in EventKeys /\ e.key \in Nat \ {0} /\ e.at \in Nat /\ e.address \in Wallets

Stored(e) ==
  /\ Event(e)
  /\ e.key \in DOMAIN kycEvents
  /\ kycEvents[e.key].at = e.at /\ kycEvents[e.key].address = e.address

Bound == \A ref \in DOMAIN verifications : verifications[ref] \in Wallets

Events ==
  /\ kycEvents = [k \in DOMAIN kycEvents |-> kycEvents[k]]
  /\ \A k \in DOMAIN kycEvents : Event(kycEvents[k]) /\ kycEvents[k].key = k

Claims ==
  /\ claims = [w \in Wallets |-> claims[w]]
  /\ \A w \in Wallets :
       claims[w] = 0 \/ (claims[w] \in DOMAIN kycEvents /\ kycEvents[claims[w]].address = w)

\* What a request is working on; a block event's key follows its hit's.
HandlerFields == {"at", "event", "hit", "override", "nonce", "investor"}

Handling(a) ==
  /\ a = [f \in HandlerFields |-> a[f]]
  /\ a.at = "create" => Event(a.event)
  /\ a.at \in {"claim", "update"} => Stored(a.event)
  /\ (a.at \in {"create", "claim", "update"} /\ a.hit) => a.event.key + 1 \in EventKeys

Handlers ==
  /\ handler = [h \in DOMAIN handler |-> handler[h]]
  /\ \A h \in DOMAIN handler : Handling(handler[h])

Relaying(a) ==
  /\ a = [f \in {"at", "event", "batch"} |-> a[f]]
  /\ \A e \in a.batch : Stored(e)
  /\ a.at \notin {"idle", "each", "reopen"} => Stored(a.event)

Reconcilers ==
  /\ reconciler = [r \in Replicas |-> reconciler[r]]
  /\ \A r \in Replicas : Relaying(reconciler[r])

-----------------------------------------------------------------------------
\* A write under key k is to wallet w if k is an event's.
Writes(k, w) == k \in EventKeys => (k \in DOMAIN kycEvents /\ kycEvents[k].address = w)

IsASequence(s) == s \in Seq({s[i] : i \in DOMAIN s})

Transaction(t) == t = [f \in {"address", "status", "state", "recent"} |-> t[f]]

Chain ==
  /\ IsASequence(pool) /\ IsASequence(registry)
  /\ txs = [k \in DOMAIN txs |-> txs[k]]
  /\ \A k \in DOMAIN txs : Transaction(txs[k]) /\ Writes(k, txs[k].address)
  /\ \A i \in DOMAIN pool : pool[i] \in DOMAIN txs
  /\ \A i \in DOMAIN registry : Writes(registry[i].key, registry[i].address)

\* Of two events of one wallet, the second is the first or a newer one.
Before(a, b) ==
  (a \in EventKeys /\ b \in EventKeys /\ kycEvents[a].address = kycEvents[b].address)
    => (a = b \/ newer(kycEvents[b], a))

Mined == {registry[i].key : i \in DOMAIN registry}
Pooled == {pool[i] : i \in DOMAIN pool}

Ordered ==
  /\ \A i, j \in DOMAIN registry : i < j => Before(registry[i].key, registry[j].key)
  /\ \A k \in Mined, j \in DOMAIN pool : Before(k, pool[j])
  /\ \A i, j \in DOMAIN pool : i < j => Before(pool[i], pool[j])

\* The wallet of event k is claimed by it or by a newer one.
Claimed(k) ==
  k \in EventKeys =>
    claims[kycEvents[k].address] # 0 /\ Before(k, claims[kycEvents[k].address])

\* Nothing newer is on its way than what the claims and the reconciler hold.
Current ==
  /\ \A k \in Mined \cup Pooled : Claimed(k)
  /\ \A r \in Replicas :
       reconciler[r].at \in {"Accepted", "send"} =>
         /\ Claimed(reconciler[r].event.key)
         /\ \A k \in Mined \cup Pooled : Before(k, reconciler[r].event.key)

Inv ==
  /\ Sound(setup) /\ Bound /\ Events /\ Claims /\ Handlers /\ Reconcilers
  /\ Chain /\ Ordered /\ Current

-----------------------------------------------------------------------------
(* Events and the order of their keys.                                     *)

LEMMA KeysAreEvents ==
  ASSUME Events, NEW k \in DOMAIN kycEvents
  PROVE  /\ k \in EventKeys /\ k \in Nat \ {0}
         /\ kycEvents[k].key = k /\ kycEvents[k].at \in Nat /\ kycEvents[k].address \in Wallets
         /\ Stored(kycEvents[k])
BY DEF Events, Event, Stored

LEMMA BeforeTransitive ==
  ASSUME Events, NEW a \in DOMAIN kycEvents, NEW b \in DOMAIN kycEvents, NEW c \in DOMAIN kycEvents,
         kycEvents[a].address = kycEvents[b].address, kycEvents[b].address = kycEvents[c].address,
         Before(a, b), Before(b, c)
  PROVE  Before(a, c)
<1>1. /\ a \in EventKeys /\ b \in EventKeys /\ c \in EventKeys
      /\ a \in Nat \ {0} /\ b \in Nat \ {0} /\ c \in Nat \ {0}
      /\ kycEvents[a].key = a /\ kycEvents[b].key = b /\ kycEvents[c].key = c
      /\ kycEvents[a].at \in Nat /\ kycEvents[b].at \in Nat /\ kycEvents[c].at \in Nat
  BY KeysAreEvents
<1> QED  BY <1>1 DEF Before, newer

\* The stored events gain keys and keep their wallets and times.
Grows ==
  /\ EventKeys' = EventKeys
  /\ \A k \in DOMAIN kycEvents :
       /\ k \in DOMAIN kycEvents'
       /\ kycEvents'[k].at = kycEvents[k].at /\ kycEvents'[k].address = kycEvents[k].address
       /\ kycEvents'[k].key = kycEvents[k].key

LEMMA StaysBefore ==
  ASSUME Grows, NEW a, NEW b, a \in EventKeys => a \in DOMAIN kycEvents,
         b \in EventKeys => b \in DOMAIN kycEvents, Before(a, b)
  PROVE  Before(a, b)'
BY DEF Grows, Before, newer

LEMMA StaysStored ==
  ASSUME Grows, NEW e, Stored(e)
  PROVE  Stored(e)'
BY DEF Grows, Stored, Event

LEMMA StaysHandling ==
  ASSUME Grows, NEW a, Handling(a)
  PROVE  Handling(a)'
<1>1. Event(a.event) => Event(a.event)'
  BY DEF Grows, Event
<1>2. Stored(a.event) => Stored(a.event)'
  BY StaysStored
<1>3. EventKeys' = EventKeys
  BY DEF Grows
<1> QED  BY <1>1, <1>2, <1>3 DEF Handling

LEMMA StaysRelaying ==
  ASSUME Grows, NEW a, Relaying(a)
  PROVE  Relaying(a)'
<1>1. \A e \in a.batch : Stored(e)'
  BY StaysStored DEF Relaying
<1>2. Stored(a.event) => Stored(a.event)'
  BY StaysStored
<1> QED  BY <1>1, <1>2 DEF Relaying

\* What is on its way to the chain is a stored event or no event.
LEMMA SentStored ==
  ASSUME Chain, NEW k \in Mined \cup Pooled, k \in EventKeys
  PROVE  k \in DOMAIN kycEvents
BY DEF Chain, Mined, Pooled, Writes

\* The requests and the reconcilers keep what they hold when events are stored.
LEMMA HoldersStay ==
  ASSUME Grows
  PROVE  /\ (Handlers /\ UNCHANGED handler) => Handlers'
         /\ (Reconcilers /\ UNCHANGED reconciler) => Reconcilers'
<1>1. ASSUME Handlers, UNCHANGED handler  PROVE Handlers'
  <2>1. ASSUME NEW h \in DOMAIN handler  PROVE Handling(handler[h])'
    <3>1. Handling(handler[h])
      BY <1>1 DEF Handlers
    <3> DEFINE a == handler[h]
    <3>2. \A x : Handling(x) => Handling(x)'
      BY StaysHandling
    <3> QED  BY <1>1, <3>1, <3>2
  <2> QED  BY <1>1, <2>1 DEF Handlers
<1>2. ASSUME Reconcilers, UNCHANGED reconciler  PROVE Reconcilers'
  <2>1. ASSUME NEW r \in Replicas  PROVE Relaying(reconciler[r])'
    <3>1. Relaying(reconciler[r])
      BY <1>2 DEF Reconcilers
    <3>2. \A x : Relaying(x) => Relaying(x)'
      BY StaysRelaying
    <3> QED  BY <1>2, <3>1, <3>2
  <2> QED  BY <1>2, <2>1 DEF Reconcilers
<1> QED  BY <1>1, <1>2

-----------------------------------------------------------------------------
(* What a step leaves alone.                                               *)

\* The newest of what is on its way, as far as the reconcilers hold events.
Relayed ==
  \A r \in Replicas :
    reconciler[r].at \in {"Accepted", "send"} =>
      /\ Claimed(reconciler[r].event.key)
      /\ \A k \in Mined \cup Pooled : Before(k, reconciler[r].event.key)

LEMMA SentStays ==
  ASSUME Grows, Chain, Ordered, UNCHANGED <<txs, pool, registry>>
  PROVE  Chain' /\ Ordered' /\ Mined' = Mined /\ Pooled' = Pooled
<1>1. Mined' = Mined /\ Pooled' = Pooled
  BY DEF Mined, Pooled
<1>2. \A k, w : Writes(k, w) => Writes(k, w)'
  BY DEF Writes, Grows
<1>3. Chain'
  BY <1>2 DEF Chain, Transaction
<1>4. /\ \A i \in DOMAIN registry : registry[i].key \in Mined
      /\ \A i \in DOMAIN pool : pool[i] \in Pooled
  BY DEF Mined, Pooled
<1>5. \A a, b \in Mined \cup Pooled : Before(a, b) => Before(a, b)'
  <2> TAKE a, b \in Mined \cup Pooled
  <2>1. (a \in EventKeys => a \in DOMAIN kycEvents) /\ (b \in EventKeys => b \in DOMAIN kycEvents)
    BY SentStored
  <2> QED  BY <2>1, StaysBefore
<1>6. Ordered'
  BY <1>1, <1>4, <1>5 DEF Ordered
<1> QED  BY <1>1, <1>3, <1>6

LEMMA ClaimedStays ==
  ASSUME Grows, Events, Claims, UNCHANGED claims, NEW k, k \in EventKeys => k \in DOMAIN kycEvents,
         Claimed(k)
  PROVE  Claimed(k)'
<1>1. SUFFICES ASSUME k \in EventKeys
               PROVE  Claimed(k)'
  BY DEF Claimed, Grows
<1> DEFINE c == claims[kycEvents[k].address]
<1>2. k \in DOMAIN kycEvents /\ kycEvents[k].address \in Wallets
  BY <1>1, KeysAreEvents
<1>3. c # 0 /\ Before(k, c)
  BY <1>1 DEF Claimed
<1>4. c \in DOMAIN kycEvents
  BY <1>2, <1>3 DEF Claims
<1>5. Before(k, c)' /\ c' = c
  <2>1. c' = c
    BY <1>2 DEF Grows
  <2>2. \A b : (b \in EventKeys => b \in DOMAIN kycEvents) /\ Before(k, b) => Before(k, b)'
    BY <1>2, StaysBefore
  <2> QED  BY <1>3, <1>4, <2>1, <2>2
<1> QED  BY <1>3, <1>5 DEF Claimed

\* Events are stored, and nothing else that matters here changes.
LEMMA StoringKeeps ==
  ASSUME Inv, Grows, UNCHANGED <<setup, verifications, claims, txs, pool, registry>>,
         Events', Handlers', Reconcilers', Relayed'
  PROVE  Inv'
<1>1. Claims'
  BY DEF Inv, Claims, Grows
<1>2. Chain' /\ Ordered' /\ Mined' = Mined /\ Pooled' = Pooled
  BY SentStays DEF Inv
<1>3. \A k \in Mined \cup Pooled : Claimed(k)'
  <2> TAKE k \in Mined \cup Pooled
  <2>1. k \in EventKeys => k \in DOMAIN kycEvents
    BY SentStored DEF Inv
  <2>2. Claimed(k)
    BY DEF Inv, Current
  <2> QED  BY <2>1, <2>2, ClaimedStays DEF Inv
<1>4. Current'
  BY <1>2, <1>3 DEF Current, Relayed
<1>5. Sound(setup)' /\ Bound'
  BY DEF Inv, Bound
<1> QED  BY <1>1, <1>2, <1>4, <1>5 DEF Inv

LEMMA SameGrows ==
  ASSUME UNCHANGED <<setup, kycEvents>>
  PROVE  Grows
BY DEF Grows, EventKeys

LEMMA RelayedStays ==
  ASSUME Relayed, UNCHANGED <<setup, kycEvents, claims, reconciler, pool, registry>>
  PROVE  Relayed'
<1>1. EventKeys' = EventKeys /\ Mined' = Mined /\ Pooled' = Pooled
  BY DEF EventKeys, Mined, Pooled
<1>2. \A a, b : Before(a, b) => Before(a, b)'
  BY <1>1 DEF Before, newer
<1>3. \A k : Claimed(k) => Claimed(k)'
  BY <1>1, <1>2 DEF Claimed
<1> QED  BY <1>1, <1>2, <1>3 DEF Relayed

\* Only a request changes.
LEMMA ServingKeeps ==
  ASSUME Inv, NEW h \in DOMAIN handler, NEW a, Handling(a), handler' = [handler EXCEPT ![h] = a],
         UNCHANGED <<setup, verifications, kycEvents, claims, reconciler, txs, pool, registry>>
  PROVE  Inv'
<1>1. Grows
  BY SameGrows
<1>3. handler' = [g \in DOMAIN handler |-> IF g = h THEN a ELSE handler[g]]
  BY DEF Inv, Handlers
<1>4. Handlers'
  <2>1. \A x : Handling(x) => Handling(x)'
    BY <1>1, StaysHandling
  <2>2. DOMAIN handler' = DOMAIN handler /\ handler' = [g \in DOMAIN handler' |-> handler'[g]]
    BY <1>3
  <2>3. \A g \in DOMAIN handler : handler'[g] = a \/ handler'[g] = handler[g]
    BY <1>3
  <2>4. ASSUME NEW g \in DOMAIN handler'  PROVE Handling(handler[g])'
    <3>1. Handling(handler[g])
      BY <2>2 DEF Inv, Handlers
    <3> QED  BY <2>1, <2>2, <2>3, <3>1
  <2> QED  BY <2>2, <2>4 DEF Handlers
<1>5. Reconcilers'
  BY <1>1, HoldersStay DEF Inv
<1>6. Relayed'
  BY RelayedStays DEF Inv, Current, Relayed
<1> QED  BY <1>1, <1>4, <1>5, <1>6, StoringKeeps DEF Inv, Events, Event, EventKeys

\* Only a reconciler changes, and what it means to submit is the newest.
LEMMA RelayingKeeps ==
  ASSUME Inv, NEW r \in Replicas, NEW a, Relaying(a), reconciler' = [reconciler EXCEPT ![r] = a],
         UNCHANGED <<setup, verifications, kycEvents, claims, handler, txs, pool, registry>>,
         a.at \in {"Accepted", "send"} =>
           Claimed(a.event.key) /\ \A k \in Mined \cup Pooled : Before(k, a.event.key)
  PROVE  Inv'
<1>1. Grows
  BY SameGrows
<1>2. reconciler' = [s \in Replicas |-> IF s = r THEN a ELSE reconciler[s]]
  BY DEF Inv, Reconcilers
<1>3. Reconcilers'
  <2>1. \A x : Relaying(x) => Relaying(x)'
    BY <1>1, StaysRelaying
  <2>2. \A s \in Replicas : Relaying(reconciler'[s])
    BY <1>2 DEF Inv, Reconcilers
  <2>3. reconciler' = [s \in Replicas |-> reconciler'[s]]
    BY <1>2
  <2> QED  BY <2>1, <2>2, <2>3 DEF Reconcilers
<1>4. Handlers'
  BY <1>1, HoldersStay DEF Inv
<1>5. Relayed'
  <2>1. EventKeys' = EventKeys /\ Mined' = Mined /\ Pooled' = Pooled
    BY DEF EventKeys, Mined, Pooled
  <2>2. \A b, c : Before(b, c) => Before(b, c)'
    BY <2>1 DEF Before, newer
  <2>3. \A k : Claimed(k) => Claimed(k)'
    BY <2>1, <2>2 DEF Claimed
  <2>4. \A s \in Replicas :
          reconciler'[s].at \in {"Accepted", "send"} =>
            /\ Claimed(reconciler'[s].event.key)
            /\ \A k \in Mined \cup Pooled : Before(k, reconciler'[s].event.key)
    BY <1>2 DEF Inv, Current
  <2> QED  BY <2>1, <2>2, <2>3, <2>4 DEF Relayed
<1> QED  BY <1>1, <1>3, <1>4, <1>5, StoringKeeps DEF Inv, Events, Event, EventKeys

\* Nothing that matters here changes.
LEMMA ElsewhereKeeps ==
  ASSUME Inv, UNCHANGED <<setup, verifications, kycEvents, claims, handler, reconciler, txs, pool, registry>>
  PROVE  Inv'
<1>1. Grows
  BY SameGrows
<1>2. Handlers' /\ Reconcilers'
  BY <1>1, HoldersStay DEF Inv
<1>3. Relayed'
  BY RelayedStays DEF Inv, Current, Relayed
<1> QED  BY <1>1, <1>2, <1>3, StoringKeeps DEF Inv, Events, Event, EventKeys

-----------------------------------------------------------------------------
(* Requests.                                                               *)

LEMMA IdleHandling ==
  ASSUME NEW a, \/ a = Idle
                \/ \E n : a = [Idle EXCEPT !.at = "markUsed", !.nonce = n]
  PROVE  Handling(a)
<1>1. Idle = [f \in HandlerFields |-> Idle[f]] /\ Idle.at = "idle" /\ ~Idle.hit
  BY DEF Idle, HandlerFields
<1>2. CASE a = Idle
  BY <1>1, <1>2 DEF Handling
<1>3. ASSUME NEW n, a = [Idle EXCEPT !.at = "markUsed", !.nonce = n]
      PROVE  Handling(a)
  <2>1. a = [f \in HandlerFields |-> a[f]] /\ a.at = "markUsed"
    BY <1>1, <1>3 DEF HandlerFields
  <2> QED  BY <2>1 DEF Handling
<1> QED  BY <1>2, <1>3

\* A request that moves on with what it read about a challenge.
LEMMA MovesOn ==
  ASSUME NEW b, Handling(b), NEW label, label \in {"getInvestor", "putInvestor"},
         NEW i
  PROVE  Handling([b EXCEPT !.at = label]) /\ Handling([b EXCEPT !.at = label, !.investor = i])
<1>1. b = [f \in HandlerFields |-> b[f]]
  BY DEF Handling
<1>2. ASSUME NEW a, a = [b EXCEPT !.at = label] \/ a = [b EXCEPT !.at = label, !.investor = i]
      PROVE  Handling(a)
  <2>1. a = [f \in HandlerFields |-> a[f]] /\ a.at = label
    BY <1>1, <1>2 DEF HandlerFields
  <2> QED  BY <2>1 DEF Handling
<1> QED  BY <1>2

LEMMA ChallengesKeep ==
  ASSUME Inv, NEW h \in DOMAIN handler,
         \/ \E n \in setup.nonces : verifyChallenge(h, n)
         \/ markUsed(h) \/ getInvestor(h) \/ VerifyOwnership(h) \/ abandonRequest(h)
  PROVE  Inv'
<1> USE DEF decisions, desk, chain, readModel, world, requests
<1>1. Handling(handler[h])
  BY DEF Inv, Handlers
<1>2. ASSUME NEW n \in setup.nonces, verifyChallenge(h, n)
      PROVE  Inv'
  BY <1>2, IdleHandling, ServingKeeps DEF verifyChallenge
<1>3. CASE markUsed(h)
  <2>1. \/ handler' = [handler EXCEPT ![h] = Idle]
        \/ handler' = [handler EXCEPT ![h] = [handler[h] EXCEPT !.at = "getInvestor"]]
    BY <1>3 DEF markUsed
  <2>2. Handling([handler[h] EXCEPT !.at = "getInvestor"])
    BY <1>1, MovesOn
  <2> QED  BY <1>3, <2>1, <2>2, IdleHandling, ServingKeeps DEF markUsed
<1>4. CASE getInvestor(h)
  <2> DEFINE i == investors[challenges[handler[h].nonce].address]
             a == [handler[h] EXCEPT !.at = "putInvestor", !.investor = i]
  <2>1. handler' = [handler EXCEPT ![h] = a]
    BY <1>4 DEF getInvestor
  <2>2. Handling(a)
    BY <1>1, MovesOn
  <2> HIDE DEF a
  <2> QED  BY <1>4, <2>1, <2>2, ServingKeeps DEF getInvestor
<1>5. CASE VerifyOwnership(h)
  BY <1>5, IdleHandling, ServingKeeps DEF VerifyOwnership
<1>6. CASE abandonRequest(h)
  BY <1>6, IdleHandling, ServingKeeps DEF abandonRequest
<1> QED  BY <1>2, <1>3, <1>4, <1>5, <1>6

LEMMA DeliveryKey ==
  ASSUME NEW d \in setup.deliveries, VerifyWebhook(setup.provider, d).error = "none"
  PROVE  {2 * VerifyWebhook(setup.provider, d).eventId,
          2 * VerifyWebhook(setup.provider, d).eventId + 1} \subseteq EventKeys
<1> DEFINE dec == VerifyWebhook(setup.provider, d)
           S == {c \in {VerifyWebhook(setup.provider, x) : x \in setup.deliveries} : c.error = "none"}
<1>1. dec \in S
  OBVIOUS
<1>2. EventKeys = UNION {{2 * c.eventId, 2 * c.eventId + 1} : c \in S}
  BY DEF EventKeys, eventKeys
<1> HIDE DEF dec, S
<1>3. {2 * dec.eventId, 2 * dec.eventId + 1} \subseteq EventKeys
  BY <1>1, <1>2
<1> QED  BY <1>3 DEF dec

\* An event that differs in what was made of it only.
LEMMA SameEvent ==
  ASSUME NEW e, Stored(e), NEW f,
         \/ \E apply : f = [e EXCEPT !.apply = apply]
         \/ \E apply, tx : f = [e EXCEPT !.apply = apply, !.tx = tx]
  PROVE  Stored(f) /\ f.key = e.key /\ f.address = e.address /\ f.at = e.at
<1>1. e = [g \in EventFields |-> e[g]]
  BY DEF Stored, Event
<1>2. f = [g \in EventFields |-> f[g]] /\ f.key = e.key /\ f.address = e.address /\ f.at = e.at
  BY <1>1 DEF EventFields
<1> QED  BY <1>2 DEF Stored, Event

LEMMA DeliveringKeeps ==
  ASSUME Inv, NEW h \in DOMAIN handler, NEW d \in setup.deliveries, kycWebhook(h, d)
  PROVE  Inv'
<1> DEFINE dec == VerifyWebhook(setup.provider, d)
           w == walletOf(dec)
           e == newEvent(dec, w)
           a == [Idle EXCEPT !.at = "create", !.event = e, !.hit = dec.monitoringHit]
<1>1. /\ dec.error = "none" /\ w # NoWallet
      /\ handler' = [handler EXCEPT ![h] = a]
      /\ UNCHANGED <<setup, verifications, kycEvents, claims, reconciler, txs, pool, registry>>
  BY DEF kycWebhook, decisions, chain, world
<1>2. /\ dec.eventId \in Nat \ {0} /\ dec.occurredAt \in Nat /\ dec.address \in Wallets \cup {NoWallet}
  BY <1>1 DEF Inv, Sound
<1>3. 2 * dec.eventId \in EventKeys /\ 2 * dec.eventId + 1 \in EventKeys
  BY <1>1, DeliveryKey
<1>4. w \in Wallets
  BY <1>1, <1>2 DEF walletOf, Inv, Bound
<1>5. /\ e = [key |-> 2 * dec.eventId, address |-> w, outcome |-> dec.status,
              at |-> dec.occurredAt, apply |-> "Claiming", tx |-> FALSE]
  BY DEF newEvent
<1> HIDE DEF w, e, dec
<1>6. e = [f \in EventFields |-> e[f]] /\ e.key = 2 * dec.eventId /\ e.address = w
      /\ e.at = dec.occurredAt
  BY <1>5 DEF EventFields
<1>7. Event(e) /\ e.key + 1 \in EventKeys
  <2>1. 2 * dec.eventId \in Nat \ {0}
    BY <1>2
  <2> QED  BY <1>2, <1>3, <1>4, <1>6, <2>1 DEF Event
<1>8. a = [f \in HandlerFields |-> a[f]] /\ a.at = "create" /\ a.event = e
  BY DEF Idle, HandlerFields
<1>9. Handling(a)
  <2> HIDE DEF a
  <2> QED  BY <1>7, <1>8 DEF Handling
<1> HIDE DEF a
<1> QED  BY <1>1, <1>9, ServingKeeps

\* A request's part of a step that stores events.
LEMMA HandlersMove ==
  ASSUME Handlers, Grows, NEW h \in DOMAIN handler, NEW a, Handling(a)',
         handler' = [handler EXCEPT ![h] = a]
  PROVE  Handlers'
<1>1. handler' = [g \in DOMAIN handler |-> IF g = h THEN a ELSE handler[g]]
  BY DEF Handlers
<1>2. DOMAIN handler' = DOMAIN handler /\ handler' = [g \in DOMAIN handler' |-> handler'[g]]
  BY <1>1
<1>3. \A x : Handling(x) => Handling(x)'
  BY StaysHandling
<1>4. ASSUME NEW g \in DOMAIN handler'  PROVE Handling(handler[g])'
  <2>1. Handling(handler[g])
    BY <1>2 DEF Handlers
  <2>2. handler'[g] = a \/ handler'[g] = handler[g]
    BY <1>1, <1>2
  <2> QED  BY <1>3, <2>1, <2>2
<1> QED  BY <1>2, <1>4 DEF Handlers

\* What the reconcilers mean to submit stays the newest when events are stored.
LEMMA RelayedGrows ==
  ASSUME Inv, Grows, UNCHANGED <<claims, pool, registry>>,
         \A r \in Replicas : reconciler'[r].at \in {"Accepted", "send"} =>
           /\ reconciler[r].at \in {"Accepted", "send"}
           /\ reconciler'[r].event = reconciler[r].event
  PROVE  Relayed'
<1>1. EventKeys' = EventKeys /\ Mined' = Mined /\ Pooled' = Pooled
  BY DEF Grows, Mined, Pooled
<1>2. \A a, b : (/\ a \in EventKeys => a \in DOMAIN kycEvents
                 /\ b \in EventKeys => b \in DOMAIN kycEvents
                 /\ Before(a, b)) => Before(a, b)'
  BY StaysBefore
<1>3. \A k : (k \in EventKeys => k \in DOMAIN kycEvents) /\ Claimed(k) => Claimed(k)'
  BY ClaimedStays DEF Inv
<1>4. \A k \in Mined \cup Pooled : k \in EventKeys => k \in DOMAIN kycEvents
  BY SentStored DEF Inv
<1>5. ASSUME NEW r \in Replicas, reconciler'[r].at \in {"Accepted", "send"}
      PROVE  /\ Claimed(reconciler[r].event.key)'
             /\ \A k \in Mined \cup Pooled : Before(k, reconciler[r].event.key)'
  <2> PICK c : c = reconciler[r].event.key
    OBVIOUS
  <2>1. reconciler[r].at \in {"Accepted", "send"} /\ reconciler'[r].event.key = c
    BY <1>5
  <2>2. c \in DOMAIN kycEvents
    BY <2>1 DEF Inv, Reconcilers, Relaying, Stored
  <2>3. Claimed(c) /\ \A k \in Mined \cup Pooled : Before(k, c)
    BY <2>1 DEF Inv, Current
  <2>4. Claimed(c)' /\ \A k \in Mined \cup Pooled : Before(k, c)'
    BY <1>2, <1>3, <1>4, <2>2, <2>3
  <2> QED  BY <2>1, <2>4
<1> QED  BY <1>1, <1>5 DEF Relayed

LEMMA ProcessingKeeps ==
  ASSUME Inv, NEW h \in DOMAIN handler, ProcessDecision(h)
  PROVE  Inv'
<1> PICK e : e = handler[h].event
  OBVIOUS
<1> PICK b : b = [handler[h] EXCEPT !.at = "claim"]
  OBVIOUS
<1> USE DEF requests, desk, chain, world
<1>1. Handling(handler[h]) /\ handler[h].at = "create"
  BY DEF ProcessDecision, Inv, Handlers
<1>2. CASE e.key \in DOMAIN kycEvents
  <2>1. handler' = [handler EXCEPT ![h] = Idle]
    BY <1>2 DEF ProcessDecision
  <2> QED  BY <1>2, <2>1, IdleHandling, ServingKeeps DEF ProcessDecision
<1>3. CASE e.key \notin DOMAIN kycEvents
  <2>1. /\ kycEvents' = put(kycEvents, e.key, e)
        /\ handler' = [handler EXCEPT ![h] = b]
        /\ UNCHANGED <<setup, verifications, claims, reconciler, txs, pool, registry>>
    BY <1>3 DEF ProcessDecision
  <2>2. Event(e)
    BY <1>1 DEF Handling
  <2>3. kycEvents' = [k \in {e.key} \cup DOMAIN kycEvents |-> IF k = e.key THEN e ELSE kycEvents[k]]
    BY <2>1 DEF put
  <2>4. Grows
    <3>1. EventKeys' = EventKeys
      BY <2>1 DEF EventKeys
    <3> QED  BY <1>3, <2>3, <3>1 DEF Grows
  <2>5. Event(e)'
    BY <2>2, <2>4 DEF Event, Grows
  <2>6. Events'
    <3>1. \A k \in DOMAIN kycEvents : Event(kycEvents[k]) => Event(kycEvents[k])'
      BY <1>3, <2>3, <2>4 DEF Event, Grows
    <3>2. ASSUME NEW k \in DOMAIN kycEvents'
          PROVE  Event(kycEvents[k])' /\ kycEvents'[k].key = k
      <4>1. CASE k = e.key
        <5>1. kycEvents'[k] = e
          BY <2>3, <4>1
        <5>2. \A x : Event(x) <=> Event(x)'
          BY <2>4 DEF Event, Grows
        <5> QED  BY <2>2, <4>1, <5>1, <5>2
      <4>2. CASE k # e.key
        BY <2>3, <3>1, <4>2 DEF Inv, Events
      <4> QED  BY <4>1, <4>2
    <3> QED  BY <2>3, <3>2 DEF Events
  <2>7. Handling(b)'
    <3>1. b = [f \in HandlerFields |-> b[f]] /\ b.at = "claim" /\ b.event = e
          /\ b.hit = handler[h].hit
      BY <1>1 DEF Handling, HandlerFields
    <3>2. \A x : (Event(x) /\ x = e) => Stored(x)'
      BY <2>3, <2>4 DEF Stored, Event, Grows
    <3>3. b.hit => e.key + 1 \in EventKeys'
      BY <1>1, <2>4, <3>1, Zenon DEF Handling, Grows
    <3>4. Stored(b.event)' /\ b.at # "create"
      BY <2>2, <3>1, <3>2
    <3> QED  BY <3>1, <3>3, <3>4, Zenon DEF Handling
  <2>8. Handlers'
    BY <2>1, <2>4, <2>7, HandlersMove DEF Inv
  <2>9. Reconcilers'
    BY <2>1, <2>4, HoldersStay DEF Inv
  <2>10. Relayed'
    BY <2>1, <2>4, RelayedGrows
  <2> QED  BY <2>1, <2>4, <2>6, <2>8, <2>9, <2>10, StoringKeeps
<1> QED  BY <1>2, <1>3

\* A stored event is rewritten with what was made of it.
LEMMA RewritingGrows ==
  ASSUME Events, NEW e, Stored(e), UNCHANGED setup, kycEvents' = [kycEvents EXCEPT ![e.key] = e]
  PROVE  Grows /\ Events'
<1>1. EventKeys' = EventKeys
  BY DEF EventKeys
<1>2. kycEvents' = [k \in DOMAIN kycEvents |-> IF k = e.key THEN e ELSE kycEvents[k]]
  BY DEF Events
<1>3. Event(e) /\ e.key \in DOMAIN kycEvents /\ kycEvents[e.key].key = e.key
  BY DEF Events, Stored
<1>4. Grows
  BY <1>1, <1>2, <1>3 DEF Grows, Stored
<1>5. \A x : Event(x) => Event(x)'
  BY <1>1 DEF Event
<1>6. DOMAIN kycEvents' = DOMAIN kycEvents /\ kycEvents' = [k \in DOMAIN kycEvents' |-> kycEvents'[k]]
  BY <1>2
<1>7. ASSUME NEW k \in DOMAIN kycEvents'
      PROVE  Event(kycEvents[k])' /\ kycEvents'[k].key = k
  <2>1. Event(kycEvents'[k]) /\ kycEvents'[k].key = k
    BY <1>2, <1>3, <1>6 DEF Events
  <2>2. PICK x : x = kycEvents'[k]
    OBVIOUS
  <2> QED  BY <1>5, <2>1, <2>2
<1> QED  BY <1>4, <1>6, <1>7 DEF Events

LEMMA BlockEventIsEvent ==
  ASSUME NEW e, Event(e), e.key + 1 \in EventKeys
  PROVE  Event(blockEvent(e))
<1>1. e = [f \in EventFields |-> e[f]] /\ e.key \in Nat
  BY DEF Event
<1> DEFINE g == blockEvent(e)
<1>2. g = [f \in EventFields |-> g[f]] /\ g.key = e.key + 1 /\ g.at = e.at /\ g.address = e.address
  BY <1>1 DEF blockEvent, EventFields
<1> HIDE DEF g
<1>3. Event(g)
  BY <1>1, <1>2 DEF Event
<1> QED  BY <1>3 DEF g

LEMMA MonitoringKeeps ==
  ASSUME Inv, NEW h \in DOMAIN handler, recordMonitoringBlock(h)
  PROVE  Inv'
<1> PICK e : e = handler[h].event
  OBVIOUS
<1>1. Handling(handler[h]) /\ handler[h].at = "update" /\ Stored(e)
  BY DEF recordMonitoringBlock, Inv, Handlers, Handling
<1>2. /\ kycEvents' = [kycEvents EXCEPT ![e.key] = e]
      /\ UNCHANGED <<setup, verifications, claims, reconciler, txs, pool, registry>>
  BY DEF recordMonitoringBlock, chain, world
<1>3. Grows /\ Events'
  BY <1>1, <1>2, RewritingGrows DEF Inv
<1> DEFINE b == [Idle EXCEPT !.at = "create", !.event = blockEvent(e)]
<1>4. \/ handler' = [handler EXCEPT ![h] = Idle]
      \/ handler[h].hit /\ handler' = [handler EXCEPT ![h] = b]
  BY DEF recordMonitoringBlock
<1>5. Handling(Idle)'
  <2>1. \A x : Handling(x) => Handling(x)'
    BY <1>3, StaysHandling
  <2> QED  BY <2>1, IdleHandling
<1>6. handler[h].hit => Handling(b)'
  <2>1. SUFFICES ASSUME handler[h].hit  PROVE Handling(b)
    <3>1. \A x : Handling(x) => Handling(x)'
      BY <1>3, StaysHandling
    <3> QED  BY <3>1
  <2>2. e.key + 1 \in EventKeys
    BY <1>1, <2>1 DEF Handling
  <2>3. Event(blockEvent(e))
    BY <1>1, <2>2, BlockEventIsEvent DEF Stored
  <2>4. b = [f \in HandlerFields |-> b[f]] /\ b.at = "create" /\ b.event = blockEvent(e) /\ ~b.hit
    BY DEF Idle, HandlerFields
  <2> HIDE DEF b
  <2> QED  BY <2>3, <2>4 DEF Handling
<1>7. Handlers'
  <2>1. \A a : (handler' = [handler EXCEPT ![h] = a] /\ Handling(a)') => Handlers'
    BY <1>3, HandlersMove DEF Inv
  <2> HIDE DEF b
  <2> QED  BY <1>4, <1>5, <1>6, <2>1
<1>8. Reconcilers'
  BY <1>2, <1>3, HoldersStay DEF Inv
<1>9. Relayed'
  BY <1>2, <1>3, RelayedGrows
<1> QED  BY <1>2, <1>3, <1>7, <1>8, <1>9, StoringKeeps

LEMMA StartingKeeps ==
  ASSUME Inv, NEW w \in setup.applicants, startKYC(w)
  PROVE  Inv'
<1>1. UNCHANGED <<setup, kycEvents, claims, handler, reconciler, txs, pool, registry>>
  BY DEF startKYC, decisions, chain, world
<1>2. PICK ref : verifications' = put(verifications, ref, w)
  BY DEF startKYC
<1>3. w \in Wallets
  BY DEF Inv, Sound
<1>4. Bound'
  BY <1>2, <1>3 DEF Inv, Bound, put
<1>5. Grows
  BY <1>1, SameGrows
<1>6. Handlers' /\ Reconcilers'
  BY <1>1, <1>5, HoldersStay DEF Inv
<1>7. Relayed'
  BY <1>1, RelayedStays DEF Inv, Current, Relayed
<1>8. Chain' /\ Ordered' /\ Mined' = Mined /\ Pooled' = Pooled
  BY <1>1, <1>5, SentStays DEF Inv
<1>9. \A k : Claimed(k) => Claimed(k)'
  BY <1>1 DEF Claimed, Before, newer, EventKeys
<1>10. Current'
  BY <1>7, <1>8, <1>9 DEF Inv, Current, Relayed
<1> QED  BY <1>1, <1>4, <1>6, <1>8, <1>10 DEF Inv, Events, Event, EventKeys, Claims

-----------------------------------------------------------------------------
(* Claims.                                                                 *)

\* A claim moves to a newer event of its wallet only.
LEMMA ClaimsMove ==
  ASSUME Events, Claims, NEW e, Stored(e), ClaimLatestForAddress(e), UNCHANGED <<setup, kycEvents>>
  PROVE  /\ Claims'
         /\ \A k : (k \in EventKeys => k \in DOMAIN kycEvents) /\ Claimed(k) => Claimed(k)'
<1> DEFINE c == claims[e.address]
<1>1. e.address \in Wallets /\ e.key \in DOMAIN kycEvents /\ e.key \in Nat \ {0} /\ e.at \in Nat
      /\ kycEvents[e.key].address = e.address /\ kycEvents[e.key].at = e.at
      /\ kycEvents[e.key].key = e.key
  BY DEF Stored, Event, Events
<1>2. EventKeys' = EventKeys
  BY DEF EventKeys
<1>3. \A a, b : Before(a, b) => Before(a, b)'
  BY <1>2 DEF Before, newer
<1>4. CASE claims' = claims
  BY <1>2, <1>3, <1>4 DEF Claims, Claimed
<1>5. CASE newer(e, c) /\ claims' = [claims EXCEPT ![e.address] = e.key]
  <2>1. claims' = [w \in Wallets |-> IF w = e.address THEN e.key ELSE claims[w]]
    BY <1>5 DEF Claims
  <2>2. Claims'
    BY <1>1, <2>1 DEF Claims
  <2>3. ASSUME NEW k, k \in EventKeys => k \in DOMAIN kycEvents, Claimed(k), k \in EventKeys
        PROVE  claims'[kycEvents[k].address] # 0 /\ Before(k, claims'[kycEvents[k].address])
    <3>1. k \in DOMAIN kycEvents /\ kycEvents[k].address \in Wallets
      BY <2>3, KeysAreEvents
    <3>2. claims[kycEvents[k].address] # 0 /\ Before(k, claims[kycEvents[k].address])
      BY <2>3 DEF Claimed
    <3>3. CASE kycEvents[k].address # e.address
      BY <2>1, <3>1, <3>2, <3>3
    <3>4. CASE kycEvents[k].address = e.address
      <4>1. c # 0 /\ Before(k, c) /\ c \in DOMAIN kycEvents /\ kycEvents[c].address = e.address
        BY <1>1, <3>2, <3>4 DEF Claims
      <4>2. Before(c, e.key)
        BY <1>1, <1>5, <4>1 DEF Before, newer
      <4> HIDE DEF c
      <4>3. Before(k, e.key)
        BY <1>1, <3>1, <3>4, <4>1, <4>2, BeforeTransitive
      <4> QED  BY <1>1, <2>1, <3>1, <3>4, <4>3
    <3> QED  BY <3>3, <3>4
  <2>4. ASSUME NEW k, k \in EventKeys => k \in DOMAIN kycEvents, Claimed(k)
        PROVE  Claimed(k)'
    BY <1>2, <1>3, <2>3, <2>4 DEF Claimed
  <2> QED  BY <2>2, <2>4
<1> QED  BY <1>4, <1>5 DEF ClaimLatestForAddress

\* A request or a reconciler claims a wallet for an event.
LEMMA ClaimingKeeps ==
  ASSUME Inv, NEW e, Stored(e), ClaimLatestForAddress(e),
         UNCHANGED <<setup, verifications, kycEvents, txs, pool, registry>>,
         Handlers', Reconcilers',
         \A r \in Replicas : reconciler'[r].at \in {"Accepted", "send"} =>
           /\ reconciler[r].at \in {"Accepted", "send"}
           /\ reconciler'[r].event = reconciler[r].event
  PROVE  Inv'
<1>1. Grows
  BY SameGrows
<1>2. Claims' /\ \A k : (k \in EventKeys => k \in DOMAIN kycEvents) /\ Claimed(k) => Claimed(k)'
  BY ClaimsMove DEF Inv
<1>3. Chain' /\ Ordered' /\ Mined' = Mined /\ Pooled' = Pooled
  BY <1>1, SentStays DEF Inv
<1>4. \A k \in Mined \cup Pooled : Claimed(k)'
  BY <1>2, SentStored DEF Inv, Current
<1>5. ASSUME NEW r \in Replicas, reconciler'[r].at \in {"Accepted", "send"}
      PROVE  /\ Claimed(reconciler[r].event.key)'
             /\ \A k \in Mined \cup Pooled : Before(k, reconciler[r].event.key)'
  <2> PICK c : c = reconciler[r].event.key
    OBVIOUS
  <2>1. reconciler[r].at \in {"Accepted", "send"} /\ reconciler'[r].event.key = c
    BY <1>5
  <2>2. c \in DOMAIN kycEvents
    BY <2>1 DEF Inv, Reconcilers, Relaying, Stored
  <2>3. Claimed(c) /\ \A k \in Mined \cup Pooled : Before(k, c)
    BY <2>1 DEF Inv, Current
  <2>4. \A a, b : Before(a, b) => Before(a, b)'
    BY DEF Before, newer, EventKeys
  <2>5. Claimed(c)' /\ \A k \in Mined \cup Pooled : Before(k, c)'
    BY <1>2, <2>2, <2>3, <2>4
  <2> QED  BY <2>1, <2>5
<1>6. Current'
  BY <1>3, <1>4, <1>5 DEF Current
<1> QED  BY <1>2, <1>3, <1>6 DEF Inv, Bound, Events, Event, EventKeys

LEMMA FinalizedStored ==
  ASSUME NEW e, Stored(e), NEW f, f = finalized(e)
  PROVE  Stored(f) /\ f.key = e.key
<1>1. \E apply : f = [e EXCEPT !.apply = apply]
  BY DEF finalized
<1> QED  BY <1>1, SameEvent

LEMMA FinalizingKeeps ==
  ASSUME Inv, NEW h \in DOMAIN handler, finalizeClaim(h)
  PROVE  Inv'
<1> PICK e : e = handler[h].event
  OBVIOUS
<1> PICK f : f = finalized(e)
  OBVIOUS
<1> PICK b : b = [handler[h] EXCEPT !.at = "update", !.event = f]
  OBVIOUS
<1>1. Handling(handler[h]) /\ handler[h].at = "claim" /\ Stored(e)
  BY DEF finalizeClaim, Inv, Handlers, Handling
<1>2. /\ ClaimLatestForAddress(e)
      /\ handler' = [handler EXCEPT ![h] = b]
      /\ UNCHANGED <<setup, verifications, kycEvents, reconciler, txs, pool, registry>>
  BY DEF finalizeClaim, chain, world
<1>3. Grows
  BY <1>2, SameGrows
<1>4. Stored(f) /\ f.key = e.key
  BY <1>1, FinalizedStored
<1>5. Handling(b)
  <2>1. b = [x \in HandlerFields |-> b[x]] /\ b.at = "update" /\ b.event = f /\ b.hit = handler[h].hit
    BY <1>1 DEF Handling, HandlerFields
  <2>2. b.hit => f.key + 1 \in EventKeys
    <3>1. b.hit => e.key + 1 \in EventKeys
      BY <1>1, <2>1, Zenon DEF Handling
    <3> QED  BY <1>4, <3>1
  <2> QED  BY <1>4, <2>1, <2>2, Zenon DEF Handling
<1>6. Handlers'
  <2>1. Handling(b)'
    BY <1>3, <1>5, StaysHandling
  <2> QED  BY <1>2, <1>3, <2>1, HandlersMove DEF Inv
<1>7. Reconcilers'
  BY <1>2, <1>3, HoldersStay DEF Inv
<1> QED  BY <1>1, <1>2, <1>6, <1>7, ClaimingKeeps

-----------------------------------------------------------------------------
(* The reconcilers.                                                        *)

RelayFields == {"at", "event", "batch"}

\* A reconciler that rests, or goes through a batch of stored events.
LEMMA BatchRelaying ==
  ASSUME NEW a, \/ a = Resting
                \/ \E label \in {"each", "reopen"} : \E b :
                     (\A e \in b : Stored(e)) /\ a = [Resting EXCEPT !.at = label, !.batch = b]
  PROVE  Relaying(a) /\ a.at \notin {"Accepted", "send"}
<1>1. CASE a = Resting
  <2>1. a = [f \in RelayFields |-> a[f]] /\ a.at = "idle" /\ a.batch = {}
    BY <1>1 DEF Resting, RelayFields
  <2> QED  BY <2>1 DEF Relaying, RelayFields
<1>2. ASSUME NEW label \in {"each", "reopen"}, NEW b, \A e \in b : Stored(e),
             a = [Resting EXCEPT !.at = label, !.batch = b]
      PROVE  Relaying(a) /\ a.at \notin {"Accepted", "send"}
  <2>1. a = [f \in RelayFields |-> a[f]] /\ a.at = label /\ a.batch = b
    BY <1>2 DEF Resting, RelayFields
  <2> QED  BY <1>2, <2>1 DEF Relaying, RelayFields
<1> QED  BY <1>1, <1>2

LEMMA GoesOn ==
  ASSUME Reconcilers, NEW r \in Replicas, NEW label, NEW e, goOn(r, label, e),
         Stored(e) \/ label = "each" \/ label = "reopen"
  PROVE  \E a : /\ Relaying(a) /\ a.at = label /\ a.event = e
                /\ reconciler' = [reconciler EXCEPT ![r] = a]
<1> PICK a : a = [reconciler[r] EXCEPT !.at = label, !.event = e]
  OBVIOUS
<1>1. Relaying(reconciler[r])
  BY DEF Reconcilers
<1>2. a = [f \in RelayFields |-> a[f]] /\ a.at = label /\ a.event = e /\ a.batch = reconciler[r].batch
  BY <1>1 DEF Relaying, RelayFields
<1>3. reconciler' = [reconciler EXCEPT ![r] = a]
  BY DEF goOn
<1>4. Relaying(a)
  BY <1>1, <1>2 DEF Relaying, RelayFields
<1> QED  BY <1>2, <1>3, <1>4

\* The event that holds its wallet's claim is the newest of what was sent.
LEMMA ClaimHolderIsNewest ==
  ASSUME Inv, NEW e, Stored(e), claims[e.address] = e.key
  PROVE  Claimed(e.key) /\ \A k \in Mined \cup Pooled : Before(k, e.key)
<1>1. e.key \in Nat \ {0} /\ kycEvents[e.key].address = e.address
  BY DEF Stored, Event
<1>2. Claimed(e.key)
  BY <1>1 DEF Claimed, Before
<1>3. \A k \in Mined \cup Pooled : Claimed(k)
  BY DEF Inv, Current
<1> QED  BY <1>1, <1>2, <1>3 DEF Claimed, Before

LEMMA SettlingKeeps ==
  ASSUME Inv, NEW r \in Replicas,
         Reconcile(r) \/ submitGuarded(r) \/ checkSubmitted(r) \/ listApplied(r)
           \/ reopenReorgedApplied(r) \/ abandonTick(r)
  PROVE  Inv'
<1> USE DEF requests, desk, chain, readModel, world
<1>1. Relaying(reconciler[r])
  BY DEF Inv, Reconcilers
<1>2. \A k \in DOMAIN kycEvents : Stored(kycEvents[k])
  BY KeysAreEvents DEF Inv
<1>3. CASE Reconcile(r) \/ listApplied(r) \/ abandonTick(r)
  <2>1. PICK a : /\ \/ a = Resting
                    \/ \E label \in {"each", "reopen"}, S \in SUBSET DOMAIN kycEvents :
                         a = [Resting EXCEPT !.at = label, !.batch = {kycEvents[k] : k \in S}]
                 /\ reconciler' = [reconciler EXCEPT ![r] = a]
    <3>1. CASE Reconcile(r)
      <4> DEFINE S == {k \in DOMAIN kycEvents : kycEvents[k].apply \in unfinished}
                 a == [Resting EXCEPT !.at = "each", !.batch = {kycEvents[k] : k \in S}]
      <4>1. S \in SUBSET DOMAIN kycEvents /\ reconciler' = [reconciler EXCEPT ![r] = a]
        BY <3>1 DEF Reconcile
      <4> HIDE DEF S
      <4> QED  BY <4>1
    <3>2. CASE listApplied(r)
      <4> DEFINE S == {k \in DOMAIN kycEvents : kycEvents[k].apply = "Applied" /\ kycEvents[k].tx}
                 a == [Resting EXCEPT !.at = "reopen", !.batch = {kycEvents[k] : k \in S}]
      <4>1. S \in SUBSET DOMAIN kycEvents /\ reconciler' = [reconciler EXCEPT ![r] = a]
        BY <3>2 DEF listApplied
      <4> HIDE DEF S
      <4> QED  BY <4>1
    <3>3. CASE abandonTick(r)
      BY <3>3 DEF abandonTick
    <3> QED  BY <1>3, <3>1, <3>2, <3>3
  <2>2. Relaying(a) /\ a.at \notin {"Accepted", "send"}
    <3>1. ASSUME NEW label \in {"each", "reopen"}, NEW S \in SUBSET DOMAIN kycEvents,
                 a = [Resting EXCEPT !.at = label, !.batch = {kycEvents[k] : k \in S}]
          PROVE  Relaying(a) /\ a.at \notin {"Accepted", "send"}
      <4>1. \A e \in {kycEvents[k] : k \in S} : Stored(e)
        BY <1>2
      <4> QED  BY <3>1, <4>1, BatchRelaying
    <3> QED  BY <2>1, <3>1, BatchRelaying
  <2> QED  BY <1>3, <2>1, <2>2, RelayingKeeps DEF Reconcile, listApplied, abandonTick
<1> PICK e : e = reconciler[r].event
  OBVIOUS
<1>4. CASE submitGuarded(r)
  <2>1. Stored(e) /\ reconciler[r].at = "Accepted"
    BY <1>1, <1>4 DEF submitGuarded, Relaying
  <2>2. PICK f, label : /\ goOn(r, label, f) /\ Stored(f)
                        /\ (label = "send" /\ f = e) \/ label = "update"
    BY <1>4, <2>1, SameEvent DEF submitGuarded
  <2>3. PICK a : /\ Relaying(a) /\ a.at = label /\ a.event = f
                 /\ reconciler' = [reconciler EXCEPT ![r] = a]
    BY <2>2, GoesOn DEF Inv
  <2>4. Claimed(e.key) /\ \A k \in Mined \cup Pooled : Before(k, e.key)
    BY <2>1 DEF Inv, Current
  <2> QED  BY <1>4, <2>2, <2>3, <2>4, RelayingKeeps DEF submitGuarded
<1>5. CASE checkSubmitted(r)
  <2>1. Stored(e) /\ reconciler[r].at = "Applying"
    BY <1>1, <1>5 DEF checkSubmitted, Relaying
  <2>2. PICK f, label : /\ goOn(r, label, f)
                        /\ (label = "update" /\ Stored(f)) \/ label = "each"
    BY <1>5, <2>1, SameEvent DEF checkSubmitted
  <2>3. PICK a : /\ Relaying(a) /\ a.at = label /\ a.event = f
                 /\ reconciler' = [reconciler EXCEPT ![r] = a]
    BY <2>2, GoesOn DEF Inv
  <2> QED  BY <1>5, <2>2, <2>3, RelayingKeeps DEF checkSubmitted
<1>6. CASE reopenReorgedApplied(r)
  <2>1. CASE reconciler' = [reconciler EXCEPT ![r] = Resting]
    <3>1. Relaying(Resting) /\ Resting.at \notin {"Accepted", "send"}
      BY BatchRelaying
    <3> QED  BY <1>6, <2>1, <3>1, RelayingKeeps DEF reopenReorgedApplied
  <2>2. ASSUME NEW g \in reconciler[r].batch,
               reconciler' = [reconciler EXCEPT ![r] =
                 [at |-> "reopened", event |-> [g EXCEPT !.apply = "Accepted", !.tx = FALSE],
                  batch |-> @.batch \ {g}]]
        PROVE  Inv'
    <3> PICK f : f = [g EXCEPT !.apply = "Accepted", !.tx = FALSE]
      OBVIOUS
    <3> PICK a : a = [at |-> "reopened", event |-> f, batch |-> reconciler[r].batch \ {g}]
      OBVIOUS
    <3>1. Stored(f)
      BY <1>1, SameEvent DEF Relaying
    <3>2. a = [x \in RelayFields |-> a[x]] /\ a.at = "reopened" /\ a.event = f
          /\ a.batch \subseteq reconciler[r].batch
      BY DEF RelayFields
    <3>3. Relaying(a)
      BY <1>1, <3>1, <3>2 DEF Relaying, RelayFields
    <3>4. reconciler' = [reconciler EXCEPT ![r] = a]
      BY <2>2
    <3> QED  BY <1>6, <3>2, <3>3, <3>4, RelayingKeeps DEF reopenReorgedApplied
  <2>3. ASSUME NEW g \in reconciler[r].batch,
               reconciler' = [reconciler EXCEPT ![r] =
                 [@ EXCEPT !.batch = reconciler[r].batch \ {g}]]
        PROVE  Inv'
    <3> PICK a : a = [reconciler[r] EXCEPT !.batch = reconciler[r].batch \ {g}]
      OBVIOUS
    <3>1. a = [x \in RelayFields |-> a[x]] /\ a.at = reconciler[r].at /\ a.event = reconciler[r].event
          /\ a.batch \subseteq reconciler[r].batch
      BY <1>1 DEF Relaying, RelayFields
    <3>2. Relaying(a)
      BY <1>1, <3>1 DEF Relaying, RelayFields
    <3>3. reconciler' = [reconciler EXCEPT ![r] = a]
      BY <2>3
    <3>4. reconciler[r].at = "reopen"
      BY <1>6 DEF reopenReorgedApplied
    <3> QED  BY <1>6, <3>1, <3>2, <3>3, <3>4, RelayingKeeps DEF reopenReorgedApplied
  <2> QED  BY <1>6, <2>1, <2>2, <2>3 DEF reopenReorgedApplied
<1> QED  BY <1>3, <1>4, <1>5, <1>6

\* A reconciler's part of a step in which the stored events may grow.
LEMMA RelayMoves ==
  ASSUME Reconcilers, Grows, NEW r \in Replicas, NEW a, Relaying(a),
         reconciler' = [reconciler EXCEPT ![r] = a]
  PROVE  Reconcilers' /\ reconciler'[r] = a /\ \A s \in Replicas \ {r} : reconciler'[s] = reconciler[s]
<1>1. reconciler' = [s \in Replicas |-> IF s = r THEN a ELSE reconciler[s]]
  BY DEF Reconcilers
<1>2. \A x : Relaying(x) => Relaying(x)'
  BY StaysRelaying
<1>3. \A s \in Replicas : Relaying(reconciler'[s])
  BY <1>1 DEF Reconcilers
<1>4. reconciler' = [s \in Replicas |-> reconciler'[s]]
  BY <1>1
<1>5. Reconcilers'
  BY <1>2, <1>3, <1>4 DEF Reconcilers
<1> QED  BY <1>1, <1>5

LEMMA ReconcilingKeeps ==
  ASSUME Inv, NEW r \in Replicas, reconcileOne(r)
  PROVE  Inv'
<1> USE DEF requests, desk, chain, readModel, world
<1> DEFINE Then(a) == reconciler' = [reconciler EXCEPT ![r] = a]
           With(label, f, e) == [at |-> label, event |-> f, batch |-> reconciler[r].batch \ {e}]
<1>1. Relaying(reconciler[r])
  BY DEF Inv, Reconcilers
<1>2. PICK e \in reconciler[r].batch :
        \/ ClaimLatestForAddress(e) /\ Then(With("update", finalized(e), e))
        \/ /\ claims' = claims
           /\ \/ claims[e.address] # e.key /\ Then(With("update", [e EXCEPT !.apply = "Superseded"], e))
              \/ claims[e.address] = e.key /\ Then(With(e.apply, e, e))
  BY DEF reconcileOne
<1>3. Stored(e)
  BY <1>1 DEF Relaying
<1>4. \A label, f : Stored(f) =>
        Relaying(With(label, f, e)) /\ With(label, f, e).at = label /\ With(label, f, e).event = f
  <2> TAKE label, f
  <2> HAVE Stored(f)
  <2> PICK a : a = With(label, f, e)
    OBVIOUS
  <2>1. a = [x \in RelayFields |-> a[x]] /\ a.at = label /\ a.event = f
        /\ a.batch \subseteq reconciler[r].batch
    BY DEF RelayFields
  <2>2. Relaying(a)
    BY <1>1, <2>1 DEF Relaying, RelayFields
  <2> QED  BY <2>1, <2>2
<1>5. UNCHANGED <<setup, verifications, kycEvents, handler, txs, pool, registry>>
  BY DEF reconcileOne
<1> HIDE DEF With
<1>6. CASE ClaimLatestForAddress(e) /\ Then(With("update", finalized(e), e))
  <2> PICK f : f = finalized(e)
    OBVIOUS
  <2> PICK a : a = With("update", f, e)
    OBVIOUS
  <2>1. Relaying(a) /\ a.at = "update" /\ reconciler' = [reconciler EXCEPT ![r] = a]
    BY <1>3, <1>4, <1>6, FinalizedStored
  <2>2. Grows
    BY <1>5, SameGrows
  <2>3. Reconcilers' /\ reconciler'[r] = a /\ \A s \in Replicas \ {r} : reconciler'[s] = reconciler[s]
    BY <2>1, <2>2, RelayMoves DEF Inv
  <2>4. Handlers'
    BY <1>5, <2>2, HoldersStay DEF Inv
  <2>5. \A s \in Replicas : reconciler'[s].at \in {"Accepted", "send"} =>
          reconciler[s].at \in {"Accepted", "send"} /\ reconciler'[s].event = reconciler[s].event
    BY <2>1, <2>3
  <2> QED  BY <1>3, <1>5, <1>6, <2>3, <2>4, <2>5, ClaimingKeeps
<1>7. CASE claims' = claims /\ claims[e.address] # e.key
           /\ Then(With("update", [e EXCEPT !.apply = "Superseded"], e))
  <2> PICK f : f = [e EXCEPT !.apply = "Superseded"]
    OBVIOUS
  <2> PICK a : a = With("update", f, e)
    OBVIOUS
  <2>1. Relaying(a) /\ a.at = "update" /\ reconciler' = [reconciler EXCEPT ![r] = a]
    BY <1>3, <1>4, <1>7, SameEvent
  <2> QED  BY <1>5, <1>7, <2>1, RelayingKeeps
<1>8. CASE claims' = claims /\ claims[e.address] = e.key /\ Then(With(e.apply, e, e))
  <2> PICK a : a = With(e.apply, e, e)
    OBVIOUS
  <2>1. Relaying(a) /\ a.event = e /\ reconciler' = [reconciler EXCEPT ![r] = a]
    BY <1>3, <1>4, <1>8
  <2> QED  BY <1>3, <1>5, <1>8, <2>1, ClaimHolderIsNewest, RelayingKeeps
<1> QED  BY <1>2, <1>6, <1>7, <1>8

LEMMA UpdatingKeeps ==
  ASSUME Inv, NEW r \in Replicas, updateEvent(r)
  PROVE  Inv'
<1> USE DEF requests, desk, chain, readModel, world
<1> PICK e : e = reconciler[r].event
  OBVIOUS
<1>1. Stored(e)
  BY DEF updateEvent, Inv, Reconcilers, Relaying
<1>2. /\ kycEvents' = [kycEvents EXCEPT ![e.key] = e]
      /\ UNCHANGED <<setup, verifications, claims, handler, txs, pool, registry>>
  BY DEF updateEvent
<1>3. Grows /\ Events'
  BY <1>1, <1>2, RewritingGrows DEF Inv
<1>4. PICK label \in {"each", "reopen"} : goOn(r, label, NoEvent)
  BY DEF updateEvent
<1>5. PICK a : Relaying(a) /\ a.at = label /\ reconciler' = [reconciler EXCEPT ![r] = a]
  BY <1>4, GoesOn DEF Inv
<1>6. Reconcilers' /\ reconciler'[r] = a /\ \A s \in Replicas \ {r} : reconciler'[s] = reconciler[s]
  BY <1>3, <1>5, RelayMoves DEF Inv
<1>7. Handlers'
  BY <1>2, <1>3, HoldersStay DEF Inv
<1>8. Relayed'
  BY <1>2, <1>3, <1>5, <1>6, RelayedGrows
<1> QED  BY <1>2, <1>3, <1>6, <1>7, <1>8, StoringKeeps

-----------------------------------------------------------------------------
(* Transactions and the chain.                                             *)

LEMMA SeqIsASequence ==
  ASSUME NEW T, NEW s \in Seq(T)
  PROVE  IsASequence(s) /\ \A i \in DOMAIN s : s[i] \in T
<1> DEFINE R == {s[i] : i \in DOMAIN s}
<1>1. Len(s) \in Nat /\ DOMAIN s = 1..Len(s) /\ \A i \in DOMAIN s : s[i] \in T
  BY LenProperties, ElementOfSeq
<1>2. s = [i \in 1..Len(s) |-> s[i]]
  BY SeqDef, <1>1
<1>3. \A i \in 1..Len(s) : s[i] \in R
  BY <1>1
<1> HIDE DEF R
<1>4. s \in [1..Len(s) -> R]
  BY <1>2, <1>3
<1>5. s \in Seq(R)
  BY <1>1, <1>4, SeqDef
<1> QED  BY <1>1, <1>5 DEF IsASequence, R

\* A step that changes what was sent, and not the events.
LEMMA SentKeeps ==
  ASSUME Inv, Sound(setup)', EventKeys' = EventKeys,
         UNCHANGED <<verifications, kycEvents, claims, handler>>,
         Reconcilers', Chain', Ordered', Current'
  PROVE  Inv'
<1>1. Grows
  BY DEF Grows
<1>2. Handlers'
  BY <1>1, HoldersStay DEF Inv
<1> QED  BY <1>2 DEF Inv, Bound, Events, Event, Claims

LEMMA SameOrder ==
  ASSUME EventKeys' = EventKeys, UNCHANGED <<kycEvents, claims>>
  PROVE  /\ \A a, b : Before(a, b) <=> Before(a, b)'
         /\ \A k : Claimed(k) <=> Claimed(k)'
         /\ \A k, w : Writes(k, w) <=> Writes(k, w)'
BY DEF Before, newer, Claimed, Writes

\* A reconciler that is about to submit was so before, with the same event.
NoneStarts ==
  \A r \in Replicas : reconciler'[r].at \in {"Accepted", "send"} =>
    reconciler[r].at \in {"Accepted", "send"} /\ reconciler'[r].event = reconciler[r].event

LEMMA RestingReconcilers ==
  ASSUME Inv, EventKeys' = EventKeys, UNCHANGED <<kycEvents, reconciler>>
  PROVE  Reconcilers' /\ NoneStarts
<1>1. Grows
  BY DEF Grows
<1> QED  BY <1>1, HoldersStay DEF Inv, NoneStarts

\* The transactions change, and nothing that was sent.
LEMMA TransactionsKeep ==
  ASSUME Inv, Sound(setup)', EventKeys' = EventKeys,
         UNCHANGED <<verifications, kycEvents, claims, handler, pool, registry>>,
         Reconcilers', NoneStarts,
         txs' = [k \in DOMAIN txs' |-> txs'[k]], DOMAIN txs \subseteq DOMAIN txs',
         \A k \in DOMAIN txs' : Transaction(txs'[k]) /\ Writes(k, txs'[k].address)
  PROVE  Inv'
<1>1. /\ \A a, b : Before(a, b) <=> Before(a, b)'
      /\ \A k : Claimed(k) <=> Claimed(k)'
      /\ \A k, w : Writes(k, w) <=> Writes(k, w)'
  BY SameOrder
<1>2. Mined' = Mined /\ Pooled' = Pooled
  BY DEF Mined, Pooled
<1>3. Chain'
  BY <1>1 DEF Inv, Chain, Transaction
<1>4. Ordered'
  BY <1>1, <1>2 DEF Inv, Ordered
<1>5. Current'
  BY <1>1, <1>2 DEF Inv, Current, NoneStarts
<1> QED  BY <1>3, <1>4, <1>5, SentKeeps

\* One transaction changes what became of it.
LEMMA TransactionMoves ==
  ASSUME Chain, NEW k \in DOMAIN txs, NEW v,
         \/ txs' = [txs EXCEPT ![k].state = v] \/ txs' = [txs EXCEPT ![k].recent = v]
  PROVE  /\ txs' = [j \in DOMAIN txs' |-> txs'[j]] /\ DOMAIN txs' = DOMAIN txs
         /\ \A j \in DOMAIN txs' : Transaction(txs'[j]) /\ Writes(j, txs'[j].address)
<1> PICK t : /\ t = [txs[k] EXCEPT !.state = v] \/ t = [txs[k] EXCEPT !.recent = v]
             /\ txs' = [txs EXCEPT ![k] = t]
  OBVIOUS
<1>1. Transaction(txs[k])
  BY DEF Chain
<1>2. Transaction(t) /\ t.address = txs[k].address
  BY <1>1 DEF Transaction
<1>3. txs' = [j \in DOMAIN txs |-> IF j = k THEN t ELSE txs[j]]
  BY DEF Chain
<1>4. DOMAIN txs' = DOMAIN txs /\ txs' = [j \in DOMAIN txs' |-> txs'[j]]
  BY <1>3
<1>5. ASSUME NEW j \in DOMAIN txs  PROVE Transaction(txs'[j]) /\ Writes(j, txs'[j].address)
  <2>1. CASE j = k
    <3>1. txs'[j] = t
      BY <1>3, <2>1
    <3>2. Writes(j, t.address)
      BY <1>2, <2>1 DEF Chain
    <3> QED  BY <1>2, <3>1, <3>2
  <2>2. CASE j # k
    BY <1>3, <2>2 DEF Chain
  <2> QED  BY <2>1, <2>2
<1> QED  BY <1>4, <1>5

LEMMA TransactionPut ==
  ASSUME Chain, NEW k, NEW w, NEW status, NEW state, Writes(k, w),
         txs' = put(txs, k, transaction(w, status, state))
  PROVE  /\ txs' = [j \in DOMAIN txs' |-> txs'[j]] /\ DOMAIN txs' = DOMAIN txs \cup {k}
         /\ \A j \in DOMAIN txs' : Transaction(txs'[j]) /\ Writes(j, txs'[j].address)
<1> PICK t : t = transaction(w, status, state)
  OBVIOUS
<1>1. Transaction(t) /\ t.address = w
  BY DEF Transaction, transaction
<1>2. txs' = [j \in DOMAIN txs \cup {k} |-> IF j = k THEN t ELSE txs[j]]
  BY DEF put
<1>3. DOMAIN txs' = DOMAIN txs \cup {k} /\ txs' = [j \in DOMAIN txs' |-> txs'[j]]
  BY <1>2
<1>4. ASSUME NEW j \in DOMAIN txs'  PROVE Transaction(txs'[j]) /\ Writes(j, txs'[j].address)
  <2>1. CASE j = k
    BY <1>1, <1>2, <1>3, <2>1
  <2>2. CASE j # k
    BY <1>2, <1>3, <2>2 DEF Chain
  <2> QED  BY <2>1, <2>2
<1> QED  BY <1>3, <1>4

LEMMA AppendsLast ==
  ASSUME NEW s, IsASequence(s), NEW x
  PROVE  /\ IsASequence(Append(s, x))
         /\ DOMAIN Append(s, x) = DOMAIN s \cup {Len(s) + 1}
         /\ \A i \in DOMAIN s : i \in 1..Len(s) /\ Append(s, x)[i] = s[i]
         /\ Append(s, x)[Len(s) + 1] = x
         /\ Len(s) \in Nat
<1> DEFINE T == {s[i] : i \in DOMAIN s} \cup {x}
<1>1. s \in Seq(T)
  <2>1. s \in Seq({s[i] : i \in DOMAIN s})
    BY DEF IsASequence
  <2> QED  BY <2>1, SeqMonotonic
<1> HIDE DEF T
<1>2. x \in T
  BY DEF T
<1>3. Append(s, x) \in Seq(T) /\ Len(Append(s, x)) = Len(s) + 1
      /\ \A i \in 1..Len(s) : Append(s, x)[i] = s[i]
      /\ Append(s, x)[Len(s) + 1] = x
  BY <1>1, <1>2, AppendProperties
<1>4. Len(s) \in Nat /\ DOMAIN s = 1..Len(s) /\ DOMAIN Append(s, x) = 1..(Len(s) + 1)
  BY <1>1, <1>3, LenProperties
<1>5. IsASequence(Append(s, x))
  BY <1>3, SeqIsASequence
<1> QED  BY <1>3, <1>4, <1>5

\* A transaction is sent after those that were sent before it.
LEMMA SendingKeeps ==
  ASSUME Inv, Sound(setup)', EventKeys' = EventKeys,
         UNCHANGED <<verifications, kycEvents, claims, handler, registry>>,
         NEW k, NEW w, NEW status, Writes(k, w), Claimed(k),
         txs' = put(txs, k, transaction(w, status, "pending")), pool' = Append(pool, k),
         \A m \in Mined \cup Pooled : Before(m, k),
         Reconcilers', NoneStarts,
         \A r \in Replicas : reconciler'[r].at \in {"Accepted", "send"} =>
           Before(k, reconciler[r].event.key)
  PROVE  Inv'
<1>1. /\ \A a, b : Before(a, b) <=> Before(a, b)'
      /\ \A x : Claimed(x) <=> Claimed(x)'
      /\ \A x, y : Writes(x, y) <=> Writes(x, y)'
  BY SameOrder
<1>2. /\ IsASequence(pool') /\ DOMAIN pool' = DOMAIN pool \cup {Len(pool) + 1}
      /\ \A i \in DOMAIN pool : i \in 1..Len(pool) /\ pool'[i] = pool[i]
      /\ pool'[Len(pool) + 1] = k /\ Len(pool) \in Nat
  BY AppendsLast DEF Inv, Chain
<1>3. /\ txs' = [j \in DOMAIN txs' |-> txs'[j]] /\ DOMAIN txs' = DOMAIN txs \cup {k}
      /\ \A j \in DOMAIN txs' : Transaction(txs'[j]) /\ Writes(j, txs'[j].address)
  BY TransactionPut DEF Inv
<1>4. Chain'
  <2>1. \A i \in DOMAIN pool' : pool'[i] \in DOMAIN txs'
    BY <1>2, <1>3 DEF Inv, Chain
  <2>2. IsASequence(pool)' /\ IsASequence(registry)'
    BY <1>2 DEF Inv, Chain, IsASequence
  <2>3. \A i \in DOMAIN registry : Writes(registry[i].key, registry[i].address)'
    BY <1>1 DEF Inv, Chain
  <2>4. \A j \in DOMAIN txs' : Transaction(txs'[j]) /\ Writes(j, txs'[j].address)
    BY <1>3
  <2> QED  BY <1>1, <1>3, <2>1, <2>2, <2>3, <2>4 DEF Chain, Transaction
<1>5. Mined' = Mined
  BY DEF Mined
<1>6. Pooled' = Pooled \cup {k}
  BY <1>2 DEF Pooled
<1>7. Ordered'
  <2>1. \A m \in Mined, j \in DOMAIN pool' : Before(m, pool'[j])
    BY <1>2 DEF Inv, Ordered
  <2>2. ASSUME NEW i \in DOMAIN pool', NEW j \in DOMAIN pool', i < j
        PROVE  Before(pool'[i], pool'[j])
    <3>1. i \in DOMAIN pool
      BY <1>2, <2>2
    <3>2. pool[i] \in Mined \cup Pooled
      BY <3>1 DEF Pooled
    <3>3. CASE j \in DOMAIN pool
      BY <1>2, <2>2, <3>1, <3>3 DEF Inv, Ordered
    <3>4. CASE j = Len(pool) + 1
      BY <1>2, <3>1, <3>2, <3>4
    <3> QED  BY <1>2, <3>3, <3>4
  <2>3. \A i, j \in DOMAIN registry : i < j => Before(registry[i].key, registry[j].key)
    BY DEF Inv, Ordered
  <2> QED  BY <1>1, <1>5, <2>1, <2>2, <2>3 DEF Ordered
<1>8. Current'
  BY <1>1, <1>5, <1>6 DEF Inv, Current, NoneStarts
<1> QED  BY <1>4, <1>7, <1>8, SentKeeps

\* Nothing else submits while one reconciler does: there is one.
LEMMA SubmittingKeeps ==
  ASSUME \A r, s \in Replicas : r = s, Inv, NEW r \in Replicas, submit(r)
  PROVE  Inv'
<1> USE DEF requests, world
<1> PICK e : e = reconciler[r].event
  OBVIOUS
<1>1. reconciler[r].at \in {"Accepted", "send"}
  BY DEF submit
<1>2. Stored(e)
  BY <1>1 DEF Inv, Reconcilers, Relaying
<1>3. Claimed(e.key) /\ \A k \in Mined \cup Pooled : Before(k, e.key)
  BY <1>1 DEF Inv, Current
<1>4. Writes(e.key, e.address)
  BY <1>2 DEF Writes, Stored
<1>5. /\ UNCHANGED <<setup, verifications, kycEvents, claims, handler, registry>>
      /\ EventKeys' = EventKeys
  BY DEF submit, EventKeys
<1>6. Sound(setup)' /\ Grows
  BY <1>5 DEF Inv, Grows
<1>7. ASSUME NEW f, NEW label \in {"update", "each"}, goOn(r, label, f),
             Stored(f) \/ label = "each"
      PROVE  \E a : /\ Relaying(a) /\ reconciler' = [reconciler EXCEPT ![r] = a]
                    /\ Reconcilers' /\ NoneStarts
                    /\ \A s \in Replicas : reconciler'[s].at \notin {"Accepted", "send"}
  <2>1. PICK a : Relaying(a) /\ a.at = label /\ reconciler' = [reconciler EXCEPT ![r] = a]
    BY <1>7, GoesOn DEF Inv
  <2>2. Reconcilers' /\ reconciler'[r] = a
    BY <1>6, <2>1, RelayMoves DEF Inv
  <2>3. \A s \in Replicas : reconciler'[s].at \notin {"Accepted", "send"}
    BY <2>1, <2>2
  <2> QED  BY <2>1, <2>2, <2>3 DEF NoneStarts
<1>8. CASE SetStatus(e.key, e.address, e.outcome)
           /\ goOn(r, "update", [e EXCEPT !.apply = "Applying", !.tx = TRUE])
  <2> PICK f : f = [e EXCEPT !.apply = "Applying", !.tx = TRUE]
    OBVIOUS
  <2>1. Stored(f)
    BY <1>2, SameEvent
  <2>2. PICK a : /\ Relaying(a) /\ reconciler' = [reconciler EXCEPT ![r] = a]
                 /\ Reconcilers' /\ NoneStarts
                 /\ \A s \in Replicas : reconciler'[s].at \notin {"Accepted", "send"}
    BY <1>7, <1>8, <2>1
  <2>3. CASE UNCHANGED <<txs, pool>>
    BY <1>5, <1>6, <2>2, <2>3, TransactionsKeep DEF Inv, Chain
  <2>4. CASE /\ txs' = put(txs, e.key, transaction(e.address, e.outcome, "pending"))
             /\ pool' = Append(pool, e.key)
    BY <1>3, <1>4, <1>5, <1>6, <2>2, <2>4, SendingKeeps
  <2> QED  BY <1>8, <2>3, <2>4 DEF SetStatus
<1>9. CASE SetStatusFails(e.key, e.address, e.outcome) /\ goOn(r, "each", NoEvent)
  <2>1. PICK a : /\ Relaying(a) /\ reconciler' = [reconciler EXCEPT ![r] = a]
                 /\ Reconcilers' /\ NoneStarts
                 /\ \A s \in Replicas : reconciler'[s].at \notin {"Accepted", "send"}
    BY <1>7, <1>9
  <2>2. CASE UNCHANGED <<txs, pool>>
    BY <1>5, <1>6, <2>1, <2>2, TransactionsKeep DEF Inv, Chain
  <2>3. CASE /\ txs' = put(txs, e.key, transaction(e.address, e.outcome, "failed"))
             /\ pool' = pool
    BY <1>4, <1>5, <1>6, <2>1, <2>3, TransactionPut, TransactionsKeep DEF Inv
  <2> QED  BY <1>9, <2>2, <2>3 DEF SetStatusFails
<1> QED  BY <1>8, <1>9 DEF submit

\* The key of another write is no event's.
LEMMA ForeignKey ==
  ASSUME NEW k, k \notin EventKeys
  PROVE  Claimed(k) /\ \A m, w : Before(m, k) /\ Before(k, m) /\ Writes(k, w)
BY DEF Claimed, Before, Writes

LEMMA AdministeringKeeps ==
  ASSUME Inv, NEW op \in setup.admin, adminSend(op)
  PROVE  Inv'
<1> USE DEF requests, decisions
<1>1. op.key \notin EventKeys
  BY DEF Inv, Sound, EventKeys
<1>2. /\ UNCHANGED <<setup, verifications, kycEvents, claims, handler, reconciler, registry>>
      /\ EventKeys' = EventKeys
  BY DEF adminSend, EventKeys
<1>3. Sound(setup)' /\ Reconcilers' /\ NoneStarts
  BY <1>2, RestingReconcilers DEF Inv
<1>4. CASE UNCHANGED <<txs, pool>>
  BY <1>2, <1>4, ElsewhereKeeps
<1>5. CASE /\ txs' = put(txs, op.key, transaction(op.address, op.status, "pending"))
           /\ pool' = Append(pool, op.key)
  BY <1>1, <1>2, <1>3, <1>5, ForeignKey, SendingKeeps
<1>6. CASE /\ txs' = put(txs, op.key, transaction(op.address, op.status, "failed"))
           /\ pool' = pool
  BY <1>1, <1>2, <1>3, <1>6, ForeignKey, TransactionPut, TransactionsKeep DEF Inv
<1> QED  BY <1>4, <1>5, <1>6 DEF adminSend, SetStatus, SetStatusFails

LEMMA ConfirmingKeeps ==
  ASSUME Inv, NEW k \in DOMAIN txs, confirm(k) \/ windowPasses(k)
  PROVE  Inv'
<1> USE DEF requests, decisions, world
<1>1. /\ UNCHANGED <<setup, verifications, kycEvents, claims, handler, reconciler, pool, registry>>
      /\ EventKeys' = EventKeys
  BY DEF confirm, windowPasses, EventKeys
<1>2. Sound(setup)' /\ Reconcilers' /\ NoneStarts
  BY <1>1, RestingReconcilers DEF Inv
<1>3. PICK v : \/ txs' = [txs EXCEPT ![k].state = v] \/ txs' = [txs EXCEPT ![k].recent = v]
  BY DEF confirm, windowPasses
<1>4. /\ txs' = [j \in DOMAIN txs' |-> txs'[j]] /\ DOMAIN txs' = DOMAIN txs
      /\ \A j \in DOMAIN txs' : Transaction(txs'[j]) /\ Writes(j, txs'[j].address)
  BY <1>3, TransactionMoves DEF Inv
<1> QED  BY <1>1, <1>2, <1>4, TransactionsKeep

LEMMA TailFollows ==
  ASSUME NEW s, IsASequence(s), s # <<>>
  PROVE  /\ IsASequence(Tail(s)) /\ Head(s) = s[1] /\ 1 \in DOMAIN s
         /\ \A i \in DOMAIN Tail(s) : i \in Nat /\ i + 1 \in DOMAIN s /\ 1 < i + 1 /\ Tail(s)[i] = s[i + 1]
<1>1. s \in Seq({s[i] : i \in DOMAIN s})
  BY DEF IsASequence
<1> PICK T : T = {s[i] : i \in DOMAIN s}
  OBVIOUS
<1>2. /\ Head(s) \in T /\ Tail(s) \in Seq(T) /\ Len(Tail(s)) = Len(s) - 1
      /\ \A i \in 1..Len(Tail(s)) : Tail(s)[i] = s[i + 1]
  BY <1>1, HeadTailProperties
<1>3. Len(s) \in Nat /\ DOMAIN s = 1..Len(s) /\ Len(s) # 0 /\ DOMAIN Tail(s) = 1..(Len(s) - 1)
  BY <1>1, <1>2, LenProperties, EmptySeq
<1>4. IsASequence(Tail(s))
  BY <1>2, SeqIsASequence
<1>5. Head(s) = s[1]
  BY <1>1
<1> QED  BY <1>2, <1>3, <1>4, <1>5

\* The head of the pool leaves it, to the chain or for good.
LEMMA PoppingKeeps ==
  ASSUME Inv, pool # <<>>, pool' = Tail(pool), NEW v, txs' = [txs EXCEPT ![Head(pool)].state = v],
         UNCHANGED <<setup, verifications, kycEvents, claims, handler, reconciler>>,
         NEW w, \/ registry' = registry
                \/ registry' = Append(registry, w) /\ w.key = Head(pool)
                     /\ w.address = txs[Head(pool)].address
  PROVE  Inv'
<1> PICK k : k = Head(pool)
  OBVIOUS
<1>1. /\ IsASequence(pool') /\ k = pool[1] /\ 1 \in DOMAIN pool
      /\ \A i \in DOMAIN pool' :
           i \in Nat /\ i + 1 \in DOMAIN pool /\ 1 < i + 1 /\ pool'[i] = pool[i + 1]
  BY TailFollows DEF Inv, Chain
<1>2. k \in DOMAIN txs /\ k \in Mined \cup Pooled
  BY <1>1 DEF Inv, Chain, Pooled
<1>3. EventKeys' = EventKeys /\ Sound(setup)'
  BY DEF EventKeys, Inv
<1>4. Reconcilers' /\ NoneStarts
  BY <1>3, RestingReconcilers
<1>5. /\ \A a, b : Before(a, b) <=> Before(a, b)'
      /\ \A x : Claimed(x) <=> Claimed(x)'
      /\ \A x, y : Writes(x, y) <=> Writes(x, y)'
  BY <1>3, SameOrder
<1>6. /\ txs' = [j \in DOMAIN txs' |-> txs'[j]] /\ DOMAIN txs' = DOMAIN txs
      /\ \A j \in DOMAIN txs' : Transaction(txs'[j]) /\ Writes(j, txs'[j].address)
  BY <1>2, TransactionMoves DEF Inv
<1>7. \A i \in DOMAIN pool' : pool'[i] \in DOMAIN txs' /\ pool'[i] \in Pooled
  BY <1>1, <1>6 DEF Inv, Chain, Pooled
<1>8. \A m \in Mined \cup {k}, j \in DOMAIN pool' : Before(m, pool'[j])
  BY <1>1 DEF Inv, Ordered
<1>9. \A i, j \in DOMAIN pool' : i < j => Before(pool'[i], pool'[j])
  <2> TAKE i, j \in DOMAIN pool'
  <2> HAVE i < j
  <2>1. i \in Nat /\ j \in Nat /\ i + 1 \in DOMAIN pool /\ j + 1 \in DOMAIN pool /\ i + 1 < j + 1
        /\ pool'[i] = pool[i + 1] /\ pool'[j] = pool[j + 1]
    BY <1>1
  <2> QED  BY <2>1 DEF Inv, Ordered
<1>10. /\ IsASequence(registry')
       /\ \A i \in DOMAIN registry' : Writes(registry'[i].key, registry'[i].address)
       /\ \A i \in DOMAIN registry' : registry'[i].key \in Mined \cup {k}
       /\ \A i, j \in DOMAIN registry' : i < j => Before(registry'[i].key, registry'[j].key)
  <2>1. CASE registry' = registry
    BY <2>1 DEF Inv, Chain, Mined, Ordered
  <2>2. CASE registry' = Append(registry, w) /\ w.key = k /\ w.address = txs[k].address
    <3>1. /\ IsASequence(registry') /\ DOMAIN registry' = DOMAIN registry \cup {Len(registry) + 1}
          /\ \A i \in DOMAIN registry : i \in 1..Len(registry) /\ registry'[i] = registry[i]
          /\ registry'[Len(registry) + 1] = w /\ Len(registry) \in Nat
      BY <2>2, AppendsLast DEF Inv, Chain
    <3>2. Writes(k, w.address)
      BY <1>2, <2>2 DEF Inv, Chain
    <3>3. \A i \in DOMAIN registry' : Writes(registry'[i].key, registry'[i].address)
      BY <2>2, <3>1, <3>2 DEF Inv, Chain
    <3>4. \A i \in DOMAIN registry : registry'[i].key \in Mined
      BY <3>1 DEF Mined
    <3>5. \A m \in Mined : Before(m, k)
      BY <1>1 DEF Inv, Ordered
    <3>6. ASSUME NEW i \in DOMAIN registry', NEW j \in DOMAIN registry', i < j
          PROVE  Before(registry'[i].key, registry'[j].key)
      <4>1. i \in DOMAIN registry
        BY <3>1, <3>6
      <4>2. CASE j \in DOMAIN registry
        BY <3>1, <3>6, <4>1, <4>2 DEF Inv, Ordered
      <4>3. CASE j = Len(registry) + 1
        BY <2>2, <3>1, <3>4, <3>5, <4>1, <4>3
      <4> QED  BY <3>1, <4>2, <4>3
    <3> QED  BY <2>2, <3>1, <3>3, <3>4, <3>6
  <2> QED  BY <2>1, <2>2
<1>11. Mined' \subseteq Mined \cup {k} /\ Pooled' \subseteq Pooled
  BY <1>7, <1>10 DEF Mined, Pooled
<1>12. Chain'
  <2>1. IsASequence(pool)' /\ IsASequence(registry)'
    BY <1>1, <1>10 DEF IsASequence
  <2>2. \A i \in DOMAIN registry' : Writes(registry[i].key, registry[i].address)'
    BY <1>5, <1>10
  <2>3. \A j \in DOMAIN txs' : Transaction(txs[j])' /\ Writes(j, txs[j].address)'
    BY <1>5, <1>6 DEF Transaction
  <2> QED  BY <1>6, <1>7, <2>1, <2>2, <2>3 DEF Chain
<1>13. Ordered'
  BY <1>5, <1>8, <1>9, <1>10, <1>11 DEF Ordered
<1>14. Current'
  BY <1>2, <1>4, <1>5, <1>11 DEF Inv, Current, NoneStarts
<1> QED  BY <1>3, <1>4, <1>12, <1>13, <1>14, SentKeeps

LEMMA FrontIsPrefix ==
  ASSUME NEW s, IsASequence(s), s # <<>>
  PROVE  LET f == SubSeq(s, 1, Len(s) - 1)
         IN  IsASequence(f) /\ DOMAIN f \subseteq DOMAIN s /\ \A i \in DOMAIN f : f[i] = s[i]
<1> PICK T : T = {s[i] : i \in DOMAIN s}
  OBVIOUS
<1>1. s \in Seq(T)
  BY DEF IsASequence
<1>2. Len(s) \in Nat /\ Len(s) # 0 /\ DOMAIN s = 1..Len(s)
  BY <1>1, LenProperties, EmptySeq
<1> PICK f : f = SubSeq(s, 1, Len(s) - 1)
  OBVIOUS
<1>3. f \in Seq(T) /\ Len(f) = Len(s) - 1 /\ \A i \in 1..(Len(s) - 1) : f[i] = s[i]
  BY <1>1, <1>2, SubSeqProperties
<1>4. IsASequence(f) /\ DOMAIN f = 1..(Len(s) - 1)
  BY <1>3, SeqIsASequence, LenProperties
<1> QED  BY <1>2, <1>3, <1>4

LEMMA ReorganisingKeeps ==
  ASSUME Inv, reorg
  PROVE  Inv'
<1> USE DEF requests, decisions
<1>1. /\ UNCHANGED <<setup, verifications, kycEvents, claims, handler, reconciler, pool>>
      /\ EventKeys' = EventKeys
  BY DEF reorg, EventKeys
<1>2. Sound(setup)' /\ Reconcilers' /\ NoneStarts
  BY <1>1, RestingReconcilers DEF Inv
<1>3. /\ \A a, b : Before(a, b) <=> Before(a, b)'
      /\ \A x : Claimed(x) <=> Claimed(x)'
      /\ \A x, y : Writes(x, y) <=> Writes(x, y)'
  BY <1>1, SameOrder
<1>4. /\ IsASequence(registry') /\ DOMAIN registry' \subseteq DOMAIN registry
      /\ \A i \in DOMAIN registry' : registry'[i] = registry[i]
  BY FrontIsPrefix DEF reorg, Inv, Chain
<1>5. /\ txs' = [j \in DOMAIN txs' |-> txs'[j]] /\ DOMAIN txs' = DOMAIN txs
      /\ \A j \in DOMAIN txs' : Transaction(txs'[j]) /\ Writes(j, txs'[j].address)
  <2> PICK k : k = registry[Len(registry)].key
    OBVIOUS
  <2>1. CASE k \in DOMAIN txs /\ txs' = [txs EXCEPT ![k].state = "reorged"]
    BY <2>1, TransactionMoves DEF Inv
  <2>2. CASE txs' = txs
    BY <2>2 DEF Inv, Chain
  <2> QED  BY <2>1, <2>2 DEF reorg
<1>6. Mined' \subseteq Mined /\ Pooled' = Pooled
  BY <1>1, <1>4 DEF Mined, Pooled
<1>7. Chain'
  <2>1. IsASequence(pool)' /\ IsASequence(registry)'
    BY <1>1, <1>4 DEF Inv, Chain, IsASequence
  <2>2. \A i \in DOMAIN registry' : Writes(registry[i].key, registry[i].address)'
    BY <1>3, <1>4 DEF Inv, Chain
  <2>3. \A j \in DOMAIN txs' : Transaction(txs[j])' /\ Writes(j, txs[j].address)'
    BY <1>3, <1>5 DEF Transaction
  <2>4. \A i \in DOMAIN pool' : pool'[i] \in DOMAIN txs'
    BY <1>1, <1>5 DEF Inv, Chain
  <2> QED  BY <1>5, <2>1, <2>2, <2>3, <2>4 DEF Chain
<1>8. Ordered'
  <2>1. \A i, j \in DOMAIN registry' : i < j => Before(registry'[i].key, registry'[j].key)
    BY <1>4 DEF Inv, Ordered
  <2> QED  BY <1>1, <1>3, <1>6, <2>1 DEF Inv, Ordered
<1>9. Current'
  BY <1>2, <1>3, <1>6 DEF Inv, Current, NoneStarts
<1> QED  BY <1>1, <1>2, <1>7, <1>8, <1>9, SentKeeps

\* The deployment's plan shrinks, and its deliveries do not.
LEMMA SoundShrinks ==
  ASSUME Sound(setup), NEW S,
         \/ setup' = [setup EXCEPT !.multisig = @ \ S] \/ setup' = [setup EXCEPT !.edits = @ \ S]
  PROVE  Sound(setup)' /\ EventKeys' = EventKeys
<1>1. {"provider", "deliveries", "applicants", "admin", "multisig"} \subseteq DOMAIN setup
  BY DEF Sound
<1>2. /\ DOMAIN setup' = DOMAIN setup
      /\ setup'.provider = setup.provider /\ setup'.deliveries = setup.deliveries
      /\ setup'.applicants = setup.applicants /\ setup'.admin = setup.admin
      /\ setup'.multisig \subseteq setup.multisig
  BY <1>1
<1>3. eventKeys(setup') = eventKeys(setup)
  BY <1>2 DEF eventKeys
<1>4. Sound(setup')
  BY <1>1, <1>2, <1>3 DEF Sound
<1> QED  BY <1>3, <1>4 DEF EventKeys, Sound, eventKeys

LEMMA OutsideKeeps ==
  ASSUME Inv, editSanctions \/ \E op \in setup.multisig : multisig(op)
  PROVE  Inv'
<1> USE DEF requests, decisions, chain
<1>1. CASE editSanctions
  <2>1. PICK set : setup' = [setup EXCEPT !.edits = @ \ {set}]
    BY <1>1 DEF editSanctions
  <2>2. Sound(setup)' /\ EventKeys' = EventKeys
    BY <2>1, SoundShrinks DEF Inv
  <2>3. UNCHANGED <<verifications, kycEvents, claims, handler, reconciler, txs, pool, registry>>
    BY <1>1 DEF editSanctions
  <2>4. Reconcilers' /\ NoneStarts
    BY <2>2, <2>3, RestingReconcilers
  <2> QED  BY <2>2, <2>3, <2>4, TransactionsKeep DEF Inv, Chain
<1>2. ASSUME NEW op \in setup.multisig, multisig(op)
      PROVE  Inv'
  <2>1. Sound(setup)' /\ EventKeys' = EventKeys
    BY <1>2, SoundShrinks DEF Inv, multisig
  <2>2. op.key \notin EventKeys
    BY DEF Inv, Sound, EventKeys
  <2>3. UNCHANGED <<verifications, kycEvents, claims, handler, reconciler, txs, pool>>
    BY <1>2 DEF multisig
  <2>4. Reconcilers' /\ NoneStarts
    BY <2>1, <2>3, RestingReconcilers
  <2>5. /\ \A a, b : Before(a, b) <=> Before(a, b)'
        /\ \A x : Claimed(x) <=> Claimed(x)'
        /\ \A x, y : Writes(x, y) <=> Writes(x, y)'
    BY <2>1, <2>3, SameOrder
  <2>6. Claimed(op.key) /\ \A m, w : Before(m, op.key) /\ Before(op.key, m) /\ Writes(op.key, w)
    BY <2>2, ForeignKey
  <2>7. /\ IsASequence(registry') /\ DOMAIN registry' = DOMAIN registry \cup {Len(registry) + 1}
        /\ \A i \in DOMAIN registry : i \in 1..Len(registry) /\ registry'[i] = registry[i]
        /\ registry'[Len(registry) + 1] = op /\ Len(registry) \in Nat
    BY <1>2, AppendsLast DEF Inv, Chain, multisig
  <2>8. Mined' = Mined \cup {op.key} /\ Pooled' = Pooled
    BY <2>3, <2>7 DEF Mined, Pooled
  <2>9. Chain'
    <3>1. IsASequence(pool)' /\ IsASequence(registry)'
      BY <2>3, <2>7 DEF Inv, Chain, IsASequence
    <3>2. \A i \in DOMAIN registry' : Writes(registry[i].key, registry[i].address)'
      BY <2>5, <2>6, <2>7 DEF Inv, Chain
    <3> QED  BY <2>3, <2>5, <3>1, <3>2 DEF Inv, Chain, Transaction
  <2>10. Ordered'
    <3>1. ASSUME NEW i \in DOMAIN registry', NEW j \in DOMAIN registry', i < j
          PROVE  Before(registry'[i].key, registry'[j].key)
      <4>1. i \in DOMAIN registry
        BY <2>7, <3>1
      <4>2. CASE j \in DOMAIN registry
        BY <2>7, <3>1, <4>1, <4>2 DEF Inv, Ordered
      <4>3. CASE j = Len(registry) + 1
        BY <2>6, <2>7, <4>3
      <4> QED  BY <2>7, <4>2, <4>3
    <3> QED  BY <2>3, <2>5, <2>6, <2>8, <3>1 DEF Inv, Ordered
  <2>11. Current'
    BY <2>4, <2>5, <2>6, <2>8 DEF Inv, Current, NoneStarts
  <2> QED  BY <2>1, <2>3, <2>4, <2>9, <2>10, <2>11, SentKeeps
<1> QED  BY <1>1, <1>2

-----------------------------------------------------------------------------
(* The whole specification.                                                *)

LEMMA InitKeeps ==
  ASSUME Init
  PROVE  Inv
<1> USE DEF Init
<1>1. Sound(setup)
  BY SetupAssumption
<1>2. Bound /\ Events
  BY DEF Bound, Events
<1>3. Claims
  BY DEF Claims
<1>4. Handlers
  <2>1. Handling(Idle)
    BY IdleHandling
  <2> QED  BY <2>1 DEF Handlers
<1>5. Reconcilers
  <2>1. Relaying(Resting)
    BY BatchRelaying
  <2> QED  BY <2>1 DEF Reconcilers
<1>6. DOMAIN pool = {} /\ DOMAIN registry = {} /\ Mined = {} /\ Pooled = {}
  BY DEF Mined, Pooled
<1>7. Chain
  <2>1. IsASequence(<<>>)
    <3>1. <<>> \in Seq({})
      OBVIOUS
    <3> QED  BY <3>1, SeqIsASequence
  <2> QED  BY <1>6, <2>1 DEF Chain
<1>8. Ordered
  BY <1>6 DEF Ordered
<1>9. Current
  BY <1>6 DEF Current, Resting
<1> QED  BY <1>1, <1>2, <1>3, <1>4, <1>5, <1>7, <1>8, <1>9 DEF Inv

LEMMA MiningKeeps ==
  ASSUME Inv, mine \/ revert \/ consumeNonce
  PROVE  Inv'
<1> USE DEF requests, decisions, world
<1>1. CASE mine
  <2> PICK w : w = [key |-> Head(pool), address |-> txs[Head(pool)].address,
                    status |-> txs[Head(pool)].status]
    OBVIOUS
  <2>1. w.key = Head(pool) /\ w.address = txs[Head(pool)].address
    OBVIOUS
  <2>2. /\ pool # <<>> /\ pool' = Tail(pool) /\ txs' = [txs EXCEPT ![Head(pool)].state = "mined"]
        /\ UNCHANGED <<setup, verifications, kycEvents, claims, handler, reconciler>>
        /\ registry' = Append(registry, w)
    BY <1>1 DEF mine
  <2> QED  BY <2>1, <2>2, PoppingKeeps
<1>2. CASE revert
  <2>1. /\ pool # <<>> /\ pool' = Tail(pool) /\ txs' = [txs EXCEPT ![Head(pool)].state = "reverted"]
        /\ UNCHANGED <<setup, verifications, kycEvents, claims, handler, reconciler, registry>>
    BY <1>2 DEF revert
  <2> QED  BY <2>1, PoppingKeeps
<1>3. CASE consumeNonce
  <2>1. /\ pool # <<>> /\ pool' = Tail(pool) /\ txs' = [txs EXCEPT ![Head(pool)].state = "consumed"]
        /\ UNCHANGED <<setup, verifications, kycEvents, claims, handler, reconciler, registry>>
    BY <1>3 DEF consumeNonce
  <2> QED  BY <2>1, PoppingKeeps
<1> QED  BY <1>1, <1>2, <1>3

\* Challenges, the administrator's desk and the read model are elsewhere.
LEMMA OtherStepsKeep ==
  ASSUME Inv,
         \/ \E w \in Wallets : \E n \in setup.nonces : createChallenge(w, n)
         \/ \E n \in setup.nonces : expireChallenge(n)
         \/ \E r \in Replicas : \E op \in setup.admin : setComplianceStatus(r, op)
         \/ \E op \in setup.admin : adminRecord(op)
         \/ Reload \/ Projects \/ UNCHANGED vars
  PROVE  Inv'
<1> USE DEF requests, decisions, chain, world
<1>1. UNCHANGED <<setup, verifications, kycEvents, claims, handler, reconciler, txs, pool, registry>>
  <2>1. CASE Projects
    BY <2>1 DEF Projects, listStatuses, loadInvestor, upsertInvestor, listInvestors, resetInvestor
  <2>2. CASE Reload
    BY <2>2 DEF Reload
  <2>3. CASE UNCHANGED vars
    BY <2>3 DEF vars
  <2>4. CASE \E r \in Replicas : \E op \in setup.admin : setComplianceStatus(r, op)
    BY <2>4 DEF setComplianceStatus
  <2>5. CASE \E op \in setup.admin : adminRecord(op)
    BY <2>5 DEF adminRecord
  <2>6. CASE \/ \E w \in Wallets : \E n \in setup.nonces : createChallenge(w, n)
             \/ \E n \in setup.nonces : expireChallenge(n)
    BY <2>6 DEF createChallenge, expireChallenge
  <2> QED  BY <2>1, <2>2, <2>3, <2>4, <2>5, <2>6
<1> QED  BY <1>1, ElsewhereKeeps

LEMMA NextKeeps ==
  ASSUME \A r, s \in Replicas : r = s, Inv, [Next]_vars
  PROVE  Inv'
<1>1. CASE \E w \in setup.applicants : startKYC(w)
  BY <1>1, StartingKeeps
<1>2. ASSUME NEW h \in DOMAIN handler,
             \/ Serves(h) \/ abandonRequest(h)
             \/ \E n \in setup.nonces : verifyChallenge(h, n)
             \/ \E d \in setup.deliveries : kycWebhook(h, d)
      PROVE  Inv'
  BY <1>2, ChallengesKeep, DeliveringKeeps, ProcessingKeeps, FinalizingKeeps, MonitoringKeeps DEF Serves
<1>3. ASSUME NEW r \in Replicas, Reconciles(r) \/ abandonTick(r)
      PROVE  Inv'
  BY <1>3, SettlingKeeps, ReconcilingKeeps, SubmittingKeeps, UpdatingKeeps DEF Reconciles
<1>4. CASE \E op \in setup.admin : adminSend(op)
  BY <1>4, AdministeringKeeps
<1>5. CASE mine \/ revert \/ consumeNonce
  BY <1>5, MiningKeeps
<1>6. CASE reorg
  BY <1>6, ReorganisingKeeps
<1>7. CASE \E k \in DOMAIN txs : confirm(k) \/ windowPasses(k)
  BY <1>7, ConfirmingKeeps
<1>8. CASE editSanctions \/ \E op \in setup.multisig : multisig(op)
  BY <1>8, OutsideKeeps
<1>9. CASE \/ \E w \in Wallets : \E n \in setup.nonces : createChallenge(w, n)
           \/ \E n \in setup.nonces : expireChallenge(n)
           \/ \E r \in Replicas : \E op \in setup.admin : setComplianceStatus(r, op)
           \/ \E op \in setup.admin : adminRecord(op)
           \/ Reload \/ Projects \/ UNCHANGED vars
  BY <1>9, OtherStepsKeep
<1> QED  BY <1>1, <1>2, <1>3, <1>4, <1>5, <1>6, <1>7, <1>8, <1>9 DEF Next, Administers

LEMMA InvInOrder ==
  ASSUME Inv
  PROVE  InOrder
<1> SUFFICES ASSUME NEW i \in DOMAIN registry, NEW j \in DOMAIN registry, i < j,
                    fromWebhook(i), fromWebhook(j), registry[i].address = registry[j].address
             PROVE  \/ registry[i].key = registry[j].key
                    \/ newer(kycEvents[registry[j].key], registry[i].key)
  BY DEF InOrder
<1>1. registry[i].key \in EventKeys /\ registry[j].key \in EventKeys
  BY KeysAreEvents DEF Inv, fromWebhook
<1>2. /\ kycEvents[registry[i].key].address = registry[i].address
      /\ kycEvents[registry[j].key].address = registry[j].address
  BY <1>1 DEF Inv, Chain, Writes
<1>3. Before(registry[i].key, registry[j].key)
  BY DEF Inv, Ordered
<1> QED  BY <1>1, <1>2, <1>3 DEF Before

\* The chain never writes a provider's decision over a newer one of the same
\* wallet, whatever is delivered, abandoned, retried or reorganised away, when one
\* reconciler relays the decisions (ClaimLatestForAddress, the check of
\* reconcileOne and the transaction manager's order).  Two reconcilers may each
\* have looked at the claim before the other's event took it.
THEOREM DecisionsStayInOrder ==
  ASSUME \A r, s \in Replicas : r = s
  PROVE  Spec => []InOrder
<1>1. Init => Inv
  BY InitKeeps
<1>2. Inv /\ [Next]_vars => Inv'
  BY NextKeeps
<1>3. Inv => InOrder
  BY InvInOrder
<1> QED  BY <1>1, <1>2, <1>3, PTL DEF Spec
=============================================================================
