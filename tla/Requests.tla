------------------------------ MODULE Requests ------------------------------
(***************************************************************************)
(* Login and the protected write routes of the API (server/internal/auth,  *)
(* api/auth.go, api/api.go): single-use challenges are exchanged for an    *)
(* admin token or a wallet session, and a request with a token passes      *)
(* Authenticate, RequireRole and Idempotency before its handler runs,      *)
(* which records its intent in the audit log, takes effect and records the *)
(* result.  Each call to the database is a step of its own, and the server *)
(* may be restarted between any two, with another admin address.           *)
(*                                                                         *)
(* Time is left out: a challenge, a token, a session or a reservation may  *)
(* expire at any moment, which includes a handler that outlives the TTL of *)
(* its reservation.  Signatures are those of their signer.                 *)
(***************************************************************************)
EXTENDS Integers, FiniteSets, TLC

CONSTANTS
    Callers,          \* requests that may be served at once
    Wallets,          \* addresses
    Admins,           \* addresses that may be configured as the admin's
    AdminNonces,      \* challenges of POST /auth/challenge
    WalletNonces,     \* challenges of POST /compliance/challenge
    Keys,             \* a route, its parameters and an Idempotency-Key
    Bodies,           \* request bodies
    MaxChallenges,    \* challenges in a behaviour
    MaxReservations   \* reservations in a behaviour

ASSUME RequestsAssumption == {MaxChallenges, MaxReservations} \subseteq Nat /\ Admins \subseteq Wallets /\ AdminNonces \cap WalletNonces = {}

VARIABLES
    admin,         \* AdminAddress of the running server
    challenges,    \* the challenge collections
    credentials,   \* JWTs (not stored by the server) and wallet sessions, by challenge
    serving,       \* the request each caller has under way
    reservations,  \* the idempotency collection, by principal and key
    audit,         \* the audit log: intents and results, by reservation token
    tokens,        \* fencing tokens given out so far
    \* History, read by the properties only.
    issued,        \* how often a challenge was exchanged
    expired,       \* fencing tokens whose reservation expired
    effects,       \* the reservations, with their bodies, whose handler took effect
    replays        \* what was answered from the collection

vars == <<admin, challenges, credentials, serving, reservations, audit, tokens, issued, expired, effects, replays>>

(* Callers, bodies, and nonces and addresses of one kind are interchangeable. *)
Symmetry ==
    UNION {Permutations(S) : S \in {Callers, Bodies, Keys, AdminNonces, WalletNonces, Admins, Wallets \ Admins}}

Nonces == AdminNonces \cup WalletNonces
Scoped == Admins \X Keys          \* principal and key

Init ==
    /\ admin \in Admins
    /\ challenges = [n \in Nonces |-> {}]
    /\ credentials = [n \in Nonces |-> {}]
    /\ serving = [q \in Callers |-> {}]
    /\ reservations = [s \in Scoped |-> {}]
    /\ audit = {} /\ tokens = 0
    /\ issued = [n \in Nonces |-> 0]
    /\ expired = {} /\ effects = {} /\ replays = {}

Idle(q) == serving[q] = {}
Becomes(q, doing) == serving' = [serving EXCEPT ![q] = {doing}]
Answer(q) == serving' = [serving EXCEPT ![q] = {}]

-----------------------------------------------------------------------------
(* Challenges.                                                             *)

CreateChallenge(n, address) ==
    /\ challenges[n] = {} /\ Cardinality({m \in Nonces : challenges[m] # {}}) < MaxChallenges
    /\ challenges' = [challenges EXCEPT ![n] = {[address |-> address, used |-> FALSE, live |-> TRUE]}]
    /\ UNCHANGED <<admin, credentials, serving, reservations, audit, tokens, issued, expired, effects, replays>>

(* Verify reads the challenge and checks expiry, use and the signer, ... *)
Verify(q, n, signer) ==
    /\ Idle(q)
    /\ \E c \in challenges[n] : c.live /\ ~c.used /\ c.address = signer
    /\ Becomes(q, [stage |-> "verify", nonce |-> n, signer |-> signer])
    /\ UNCHANGED <<admin, challenges, credentials, reservations, audit, tokens, issued, expired, effects, replays>>

(* Mutant: the used flag is set without comparing it. *)
MarkUsedAlways(n) == challenges[n] # {}

MarkUsed(n) == \E c \in challenges[n] : ~c.used

NewCredential(address) == [address |-> address, live |-> TRUE]

(* A token is for the configured admin, a session for any signer. *)
MayIssue(n, signer) == n \in AdminNonces => signer = admin

(* ... then consumes it by compare-and-set; createSession and              *)
(* verifyChallenge go on to issue.                                         *)
Consume(q) ==
    \E t \in serving[q] :
        /\ t.stage = "verify"
        /\ IF MarkUsed(t.nonce)
           THEN challenges' = [challenges EXCEPT ![t.nonce] = {[c EXCEPT !.used = TRUE] : c \in @}]
           ELSE UNCHANGED challenges
        /\ IF MarkUsed(t.nonce) /\ MayIssue(t.nonce, t.signer)
           THEN /\ credentials' = [credentials EXCEPT ![t.nonce] = {NewCredential(t.signer)}]
                /\ issued' = [issued EXCEPT ![t.nonce] = @ + 1]
           ELSE UNCHANGED <<credentials, issued>>
        /\ Answer(q)
        /\ UNCHANGED <<admin, reservations, audit, tokens, expired, effects, replays>>

-----------------------------------------------------------------------------
(* The middleware of a protected route.                                    *)

ParsesTo(a) == \E n \in AdminNonces : \E t \in credentials[n] : t.live /\ t.address = a

(* Authenticate and RequireRole: the principals of valid admin tokens. *)
Authenticated == {a \in Admins : a = admin /\ ParsesTo(a)}

Claimable(s) == \A r \in reservations[s] : ~r.live

(* Reserve inserts a reservation, or replaces an expired one, in one step; *)
(* a live one is read in another.                                          *)
Reserve(q, principal, k, body) ==
    LET s == <<principal, k>> IN
    /\ Idle(q) /\ principal \in Authenticated
    /\ IF Claimable(s)
       THEN /\ tokens < MaxReservations /\ tokens' = tokens + 1
            /\ reservations' = [reservations EXCEPT ![s] =
                                   {[hash |-> body, token |-> tokens', live |-> TRUE, response |-> {}]}]
            /\ Becomes(q, [stage |-> "handler", scoped |-> s, body |-> body, token |-> tokens'])
       ELSE /\ Becomes(q, [stage |-> "duplicate", scoped |-> s, body |-> body])
            /\ UNCHANGED <<reservations, tokens>>
    /\ UNCHANGED <<admin, challenges, credentials, audit, issued, expired, effects, replays>>

(* Nothing found is an internal error; another body or no response yet is  *)
(* a conflict.                                                             *)
Duplicate(q) ==
    \E t \in serving[q] :
        /\ t.stage = "duplicate"
        /\ replays' = replays \cup UNION {{[scoped |-> t.scoped, body |-> t.body, response |-> p] : p \in r.response} :
                                          r \in {x \in reservations[t.scoped] : x.hash = t.body}}
        /\ Answer(q)
        /\ UNCHANGED <<admin, challenges, credentials, reservations, audit, tokens, issued, expired, effects>>

-----------------------------------------------------------------------------
(* The handler.                                                            *)

MayAct(t) == <<t.token, "intent">> \in audit

(* recordAuditIntent; a handler whose intent is not recorded aborts. *)
RecordIntent(q) ==
    \E t \in serving[q], stored \in BOOLEAN :
        /\ t.stage = "handler"
        /\ audit' = IF stored THEN audit \cup {<<t.token, "intent">>} ELSE audit
        /\ Becomes(q, [t EXCEPT !.stage = IF MayAct(t)' THEN "act" ELSE "failed"])
        /\ UNCHANGED <<admin, challenges, credentials, reservations, tokens, issued, expired, effects, replays>>

(* The operation succeeds, is refused, or fails after it took effect. *)
Act(q) ==
    \E t \in serving[q], takes, ok \in BOOLEAN :
        /\ t.stage = "act"
        /\ ok => takes
        /\ effects' = IF takes THEN effects \cup {[scoped |-> t.scoped, body |-> t.body, token |-> t.token]} ELSE effects
        /\ Becomes(q, [t EXCEPT !.stage = IF ok THEN "succeeded" ELSE "failed"])
        /\ UNCHANGED <<admin, challenges, credentials, reservations, audit, tokens, issued, expired, replays>>

(* recordAuditResult, whose failure is only logged. *)
RecordResult(q) ==
    \E t \in serving[q] :
        /\ t.stage \in {"succeeded", "failed"} /\ MayAct(t) /\ <<t.token, "result">> \notin audit
        /\ audit' = audit \cup {<<t.token, "result">>}
        /\ UNCHANGED <<admin, challenges, credentials, serving, reservations, tokens, issued, expired, effects, replays>>

-----------------------------------------------------------------------------
(* The end of the middleware: Complete and Release match key and token.    *)

(* Mutant: Complete matches the key alone. *)
CompleteAny(s, token, body) ==
    reservations' = [reservations EXCEPT ![s] = {[r EXCEPT !.response = {[body |-> body, token |-> token]}] : r \in @}]

Complete(s, token, body) ==
    reservations' = [reservations EXCEPT ![s] =
                        {IF r.token = token THEN [r EXCEPT !.response = {[body |-> body, token |-> token]}] ELSE r : r \in @}]

(* Mutant: Release matches the key alone. *)
ReleaseAny(s, token) == reservations' = [reservations EXCEPT ![s] = {}]

Release(s, token) == reservations' = [reservations EXCEPT ![s] = {r \in @ : r.token # token}]

(* The response is sent although storing it may fail. *)
Finish(q) ==
    \E t \in serving[q] :
        /\ t.stage \in {"succeeded", "failed"}
        /\ \/ t.stage = "succeeded" /\ Complete(t.scoped, t.token, t.body)
           \/ t.stage = "failed" /\ Release(t.scoped, t.token)
           \/ UNCHANGED reservations
        /\ Answer(q)
        /\ UNCHANGED <<admin, challenges, credentials, audit, tokens, issued, expired, effects, replays>>

-----------------------------------------------------------------------------
(* Time and restarts.                                                      *)

ExpireChallenge(n) ==
    /\ \E c \in challenges[n] : c.live
    /\ challenges' = [challenges EXCEPT ![n] = {[c EXCEPT !.live = FALSE] : c \in @}]
    /\ UNCHANGED <<admin, credentials, serving, reservations, audit, tokens, issued, expired, effects, replays>>

ExpireCredential(n) ==
    /\ \E t \in credentials[n] : t.live
    /\ credentials' = [credentials EXCEPT ![n] = {[t EXCEPT !.live = FALSE] : t \in @}]
    /\ UNCHANGED <<admin, challenges, serving, reservations, audit, tokens, issued, expired, effects, replays>>

ExpireReservation(s) ==
    \E r \in reservations[s] :
        /\ r.live
        /\ reservations' = [reservations EXCEPT ![s] = {[r EXCEPT !.live = FALSE]}]
        /\ expired' = expired \cup {r.token}
        /\ UNCHANGED <<admin, challenges, credentials, serving, audit, tokens, issued, effects, replays>>

(* The server stops; what it had under way is lost. *)
Restart(a) ==
    /\ admin' = a
    /\ serving' = [q \in Callers |-> {}]
    /\ UNCHANGED <<challenges, credentials, reservations, audit, tokens, issued, expired, effects, replays>>

Next ==
    \/ \E n \in Nonces, w \in Wallets : CreateChallenge(n, w)
    \/ \E q \in Callers, n \in Nonces, w \in Wallets : Verify(q, n, w)
    \/ \E q \in Callers : Consume(q) \/ Duplicate(q) \/ RecordIntent(q) \/ Act(q) \/ RecordResult(q) \/ Finish(q)
    \/ \E q \in Callers, a \in Admins, k \in Keys, body \in Bodies : Reserve(q, a, k, body)
    \/ \E n \in Nonces : ExpireChallenge(n) \/ ExpireCredential(n)
    \/ \E s \in Scoped : ExpireReservation(s)
    \/ \E a \in Admins : Restart(a)

Spec == Init /\ [][Next]_vars

-----------------------------------------------------------------------------

(* A challenge is exchanged for at most one token or session, however many *)
(* requests present its signature at once and whenever they were read.     *)
OneSessionPerChallenge == \A n \in Nonces : issued[n] <= 1

Holding == {t \in UNION {serving[q] : q \in Callers} : t.stage \in {"handler", "act", "succeeded", "failed"}}

(* A request whose reservation has not expired keeps it until its end, so  *)
(* that no other request runs under its key: not when an earlier holder    *)
(* that outlived its own reservation finishes, either.  It is about        *)
(* Reserve, Complete and Release.                                          *)
HolderKeepsReservation ==
    \A t \in Holding : t.token \notin expired => \E r \in reservations[t.scoped] : r.token = t.token

(* What is replayed to a request took effect for the same principal, key   *)
(* and body, under the reservation it was stored in.                       *)
ReplayMatches ==
    \A p \in replays :
        /\ p.response.body = p.body
        /\ [scoped |-> p.scoped, body |-> p.body, token |-> p.response.token] \in effects
=============================================================================
