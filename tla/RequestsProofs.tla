--------------------------- MODULE RequestsProofs ---------------------------
(***************************************************************************)
(* The safety of login and of the idempotent write routes, for any number  *)
(* of callers, challenges, keys and reservations.                          *)
(***************************************************************************)
EXTENDS Requests, TLAPS

Challenge == [address : Wallets, used : BOOLEAN, live : BOOLEAN]
Response == [body : Bodies, token : Nat]
Reservation == [hash : Bodies, token : Nat, live : BOOLEAN, response : SUBSET Response]

HolderStages == {"handler", "act", "succeeded", "failed"}

\* What a caller may have under way, by stage.
Verifying == [stage : {"verify"}, nonce : Nonces, signer : Wallets]
Reading == [stage : {"duplicate"}, scoped : Scoped, body : Bodies]
Handling == [stage : HolderStages, scoped : Scoped, body : Bodies, token : Nat]
Tasks == Verifying \cup Reading \cup Handling

TypeOK ==
  /\ challenges \in [Nonces -> SUBSET Challenge]
  /\ serving \in [Callers -> SUBSET Tasks]
  /\ reservations \in [Scoped -> SUBSET Reservation]
  /\ tokens \in Nat
  /\ issued \in [Nonces -> Nat]

-----------------------------------------------------------------------------
(* The steps of a request keep the types.                                  *)

\* A task at a holder's stage has the fields of one.
LEMMA HolderFields ==
  ASSUME NEW t \in Tasks
  PROVE  /\ t.stage \in HolderStages => t \in Handling
         /\ t.stage = "verify" => t \in Verifying
         /\ t.stage = "duplicate" => t \in Reading
BY DEF Tasks, Verifying, Reading, Handling, HolderStages

\* A challenge or a reservation that is marked keeps its other fields.
LEMMA MarkedFields ==
  /\ \A c \in Challenge :
       /\ [c EXCEPT !.used = TRUE] \in Challenge /\ [c EXCEPT !.used = TRUE].used
       /\ [c EXCEPT !.live = FALSE] \in Challenge /\ [c EXCEPT !.live = FALSE].used = c.used
  /\ \A r \in Reservation :
       LET x == [r EXCEPT !.live = FALSE]
       IN  x \in Reservation /\ x.token = r.token /\ x.hash = r.hash /\ x.response = r.response
BY DEF Challenge, Reservation

LEMMA MarkedSets ==
  ASSUME NEW S \in SUBSET Challenge, S # {}
  PROVE  /\ {[c EXCEPT !.used = TRUE] : c \in S} # {}
         /\ {[c EXCEPT !.live = FALSE] : c \in S} # {}
         /\ \A x \in {[c EXCEPT !.used = TRUE] : c \in S} : x.used
         /\ (\A c \in S : c.used) => \A x \in {[c EXCEPT !.live = FALSE] : c \in S} : x.used
<1>1. PICK d \in S : TRUE
  OBVIOUS
<1>2. \A x \in {[c EXCEPT !.used = TRUE] : c \in S} : x.used
  <2> TAKE x \in {[c EXCEPT !.used = TRUE] : c \in S}
  <2>1. PICK c \in S : x = [c EXCEPT !.used = TRUE]
    OBVIOUS
  <2> QED  BY <2>1, MarkedFields
<1>3. ASSUME \A c \in S : c.used, NEW x \in {[c EXCEPT !.live = FALSE] : c \in S}
      PROVE  x.used
  <2>1. PICK c \in S : x = [c EXCEPT !.live = FALSE]
    OBVIOUS
  <2> QED  BY <1>3, <2>1, MarkedFields
<1> QED  BY <1>1, <1>2, <1>3

LEMMA TypeStep ==
  ASSUME TypeOK, Next
  PROVE  TypeOK'
<1> USE DEF TypeOK
<1>1. ASSUME NEW n \in Nonces, NEW w \in Wallets, CreateChallenge(n, w)
      PROVE  TypeOK'
  BY <1>1 DEF CreateChallenge, Challenge
<1>2. ASSUME NEW q \in Callers, NEW n \in Nonces, NEW w \in Wallets, Verify(q, n, w)
      PROVE  TypeOK'
  BY <1>2 DEF Verify, Becomes, Tasks, Verifying
<1>3. ASSUME NEW q \in Callers, Consume(q)
      PROVE  TypeOK'
  <2>1. PICK t \in serving[q] : t.stage = "verify" /\ Consume(q)!(t)
    BY <1>3 DEF Consume
  <2>2. t.nonce \in Nonces
    BY <2>1, HolderFields DEF Verifying
  <2>3. challenges' \in [Nonces -> SUBSET Challenge]
    <3>1. \A c \in challenges[t.nonce] : [c EXCEPT !.used = TRUE] \in Challenge
      BY <2>2, MarkedFields
    <3> QED  BY <2>1, <2>2, <3>1
  <2>4. issued' \in [Nonces -> Nat]
    BY <2>1, <2>2
  <2> QED  BY <2>1, <2>3, <2>4 DEF Answer
<1>4. ASSUME NEW q \in Callers, Duplicate(q)
      PROVE  TypeOK'
  BY <1>4 DEF Duplicate, Answer
<1>5. ASSUME NEW q \in Callers, RecordIntent(q)
      PROVE  TypeOK'
  <2>1. PICK t \in serving[q] :
          /\ t.stage = "handler"
          /\ serving' = [serving EXCEPT ![q] = {[t EXCEPT !.stage = IF MayAct(t)' THEN "act" ELSE "failed"]}]
    BY <1>5 DEF RecordIntent, Becomes
  <2>2. t \in Handling
    BY <2>1, HolderFields DEF HolderStages
  <2>3. [t EXCEPT !.stage = IF MayAct(t)' THEN "act" ELSE "failed"] \in Handling
    BY <2>2 DEF Handling, HolderStages
  <2> QED  BY <1>5, <2>1, <2>3 DEF RecordIntent, Tasks
<1>6. ASSUME NEW q \in Callers, Act(q)
      PROVE  TypeOK'
  <2>1. PICK t \in serving[q], ok \in BOOLEAN :
          /\ t.stage = "act"
          /\ serving' = [serving EXCEPT ![q] = {[t EXCEPT !.stage = IF ok THEN "succeeded" ELSE "failed"]}]
    BY <1>6 DEF Act, Becomes
  <2>2. t \in Handling
    BY <2>1, HolderFields DEF HolderStages
  <2>3. [t EXCEPT !.stage = IF ok THEN "succeeded" ELSE "failed"] \in Handling
    BY <2>2 DEF Handling, HolderStages
  <2> QED  BY <1>6, <2>1, <2>3 DEF Act, Tasks
<1>7. ASSUME NEW q \in Callers, RecordResult(q)
      PROVE  TypeOK'
  BY <1>7 DEF RecordResult
<1>8. ASSUME NEW q \in Callers, Finish(q)
      PROVE  TypeOK'
  <2>1. PICK t \in serving[q] : t.stage \in {"succeeded", "failed"} /\ Finish(q)!(t)
    BY <1>8 DEF Finish
  <2>2. t \in Handling
    BY <2>1, HolderFields DEF HolderStages
  <2>3. CASE Complete(t.scoped, t.token, t.body)
    <3>1. reservations' \in [Scoped -> SUBSET Reservation]
      BY <2>2, <2>3 DEF Complete, Handling, Reservation, Response
    <3> QED  BY <2>1, <3>1 DEF Answer
  <2>4. CASE Release(t.scoped, t.token)
    <3>1. reservations' \in [Scoped -> SUBSET Reservation]
      BY <2>2, <2>4 DEF Release, Handling
    <3> QED  BY <2>1, <3>1 DEF Answer
  <2>5. CASE UNCHANGED reservations
    BY <2>1, <2>5 DEF Answer
  <2> QED  BY <2>1, <2>3, <2>4, <2>5
<1>9. ASSUME NEW q \in Callers, NEW a \in Admins, NEW k \in Keys, NEW body \in Bodies, Reserve(q, a, k, body)
      PROVE  TypeOK'
  <2>1. <<a, k>> \in Scoped
    BY DEF Scoped
  <2>2. CASE Claimable(<<a, k>>)
    <3>1. /\ tokens' = tokens + 1
          /\ reservations' = [reservations EXCEPT ![<<a, k>>] =
                                {[hash |-> body, token |-> tokens', live |-> TRUE, response |-> {}]}]
          /\ serving' = [serving EXCEPT ![q] = {[stage |-> "handler", scoped |-> <<a, k>>, body |-> body, token |-> tokens']}]
      BY <1>9, <2>2 DEF Reserve, Becomes
    <3>2. [hash |-> body, token |-> tokens', live |-> TRUE, response |-> {}] \in Reservation
      BY <3>1 DEF Reservation
    <3>3. [stage |-> "handler", scoped |-> <<a, k>>, body |-> body, token |-> tokens'] \in Tasks
      BY <2>1, <3>1 DEF Tasks, Handling, HolderStages
    <3> QED  BY <1>9, <2>1, <3>1, <3>2, <3>3 DEF Reserve
  <2>3. CASE ~Claimable(<<a, k>>)
    <3>1. /\ serving' = [serving EXCEPT ![q] = {[stage |-> "duplicate", scoped |-> <<a, k>>, body |-> body]}]
          /\ UNCHANGED <<reservations, tokens>>
      BY <1>9, <2>3 DEF Reserve, Becomes
    <3>2. [stage |-> "duplicate", scoped |-> <<a, k>>, body |-> body] \in Tasks
      BY <2>1 DEF Tasks, Reading
    <3> QED  BY <1>9, <3>1, <3>2 DEF Reserve
  <2> QED  BY <2>2, <2>3
<1>10. ASSUME NEW n \in Nonces, ExpireChallenge(n)
       PROVE  TypeOK'
  BY <1>10 DEF ExpireChallenge, Challenge
<1>11. ASSUME NEW n \in Nonces, ExpireCredential(n)
       PROVE  TypeOK'
  BY <1>11 DEF ExpireCredential
<1>12. ASSUME NEW s \in Scoped, ExpireReservation(s)
       PROVE  TypeOK'
  <2>1. \A r \in reservations[s] : [r EXCEPT !.live = FALSE] \in Reservation
    BY MarkedFields
  <2> QED  BY <1>12, <2>1 DEF ExpireReservation
<1>13. ASSUME NEW a \in Admins, Restart(a)
       PROVE  TypeOK'
  BY <1>13 DEF Restart
<1> QED  BY <1>1, <1>2, <1>3, <1>4, <1>5, <1>6, <1>7, <1>8, <1>9, <1>10, <1>11, <1>12, <1>13 DEF Next

-----------------------------------------------------------------------------
(* Challenges.                                                             *)

\* A challenge that was exchanged is there and is marked as used.
Exchanged ==
  \A n \in Nonces :
    /\ issued[n] <= 1
    /\ issued[n] # 0 => challenges[n] # {} /\ \A c \in challenges[n] : c.used

LEMMA ExchangedStep ==
  ASSUME TypeOK, Exchanged, Next
  PROVE  Exchanged'
<1> USE DEF TypeOK, Exchanged
<1>1. ASSUME NEW n \in Nonces, NEW w \in Wallets, CreateChallenge(n, w)
      PROVE  Exchanged'
  BY <1>1 DEF CreateChallenge
<1>2. ASSUME NEW q \in Callers, Consume(q)
      PROVE  Exchanged'
  <2>1. PICK t \in serving[q] : t.stage = "verify" /\ Consume(q)!(t)
    BY <1>2 DEF Consume
  <2>2. t.nonce \in Nonces
    BY <2>1, HolderFields DEF Verifying
  <2>3. CASE MarkUsed(t.nonce)
    <3>1. issued[t.nonce] = 0 /\ challenges[t.nonce] # {}
      BY <2>2, <2>3 DEF MarkUsed
    <3>2. challenges' = [challenges EXCEPT ![t.nonce] = {[c EXCEPT !.used = TRUE] : c \in @}]
      BY <2>1, <2>3
    <3>3. challenges'[t.nonce] # {} /\ \A c \in challenges'[t.nonce] : c.used
      <4>1. challenges'[t.nonce] = {[c EXCEPT !.used = TRUE] : c \in challenges[t.nonce]}
        BY <2>2, <3>2
      <4> QED  BY <2>2, <3>1, <4>1, MarkedSets
    <3>4. \A n \in Nonces : n # t.nonce => challenges'[n] = challenges[n] /\ issued'[n] = issued[n]
      BY <2>1, <2>2, <3>2
    <3>5. issued'[t.nonce] <= 1
      BY <2>1, <2>2, <3>1
    <3> QED  BY <3>3, <3>4, <3>5
  <2>4. CASE ~MarkUsed(t.nonce)
    BY <2>1, <2>4
  <2> QED  BY <2>3, <2>4
<1>3. ASSUME NEW n \in Nonces, ExpireChallenge(n)
      PROVE  Exchanged'
  <2>1. /\ challenges' = [challenges EXCEPT ![n] = {[c EXCEPT !.live = FALSE] : c \in @}]
        /\ issued' = issued
    BY <1>3 DEF ExpireChallenge
  <2>2. challenges'[n] = {[c EXCEPT !.live = FALSE] : c \in challenges[n]}
    BY <2>1
  <2>3. challenges[n] # {} =>
          /\ challenges'[n] # {}
          /\ (\A c \in challenges[n] : c.used) => \A c \in challenges'[n] : c.used
    BY <2>2, MarkedSets
  <2>4. \A m \in Nonces : m # n => challenges'[m] = challenges[m]
    BY <2>1
  <2> QED  BY <2>1, <2>3, <2>4
<1>4. CASE UNCHANGED <<challenges, issued>>
  BY <1>4
<1> QED
  BY <1>1, <1>2, <1>3, <1>4
  DEF Next, Verify, Duplicate, RecordIntent, Act, RecordResult, Finish, Reserve, ExpireCredential,
      ExpireReservation, Restart

-----------------------------------------------------------------------------
(* Reservations.                                                           *)

isHolder(t) == t.stage \in HolderStages

\* A caller has one task, a key one reservation, a token one holder.
OneEach ==
  /\ \A q \in Callers : \A t, u \in serving[q] : t = u
  /\ \A s \in Scoped : \A r, x \in reservations[s] : r = x
  /\ \A p, q \in Callers : \A t \in serving[p], u \in serving[q] :
       isHolder(t) /\ isHolder(u) /\ t.token = u.token => p = q

\* Tokens are below the counter, so that the next one is new.
TokensGiven ==
  /\ \A q \in Callers : \A t \in serving[q] : isHolder(t) => t.token <= tokens
  /\ \A s \in Scoped : \A r \in reservations[s] : r.token <= tokens

effectOf(t) == [scoped |-> t.scoped, body |-> t.body, token |-> t.token]

\* A holder's reservation is there unless it expired, and is for its body; a
\* holder that succeeded took effect.
Held ==
  \A q \in Callers : \A t \in serving[q] : isHolder(t) =>
    /\ t.token \notin expired => \E r \in reservations[t.scoped] : r.token = t.token
    /\ \A r \in reservations[t.scoped] : r.token = t.token => r.hash = t.body
    /\ t.stage = "succeeded" => effectOf(t) \in effects

\* A reservation that is not live expired, and a response it keeps is that of
\* an effect for its key and body.
Kept ==
  \A s \in Scoped : \A r \in reservations[s] :
    /\ ~r.live => r.token \in expired
    /\ \A p \in r.response :
         p.body = r.hash /\ [scoped |-> s, body |-> p.body, token |-> p.token] \in effects

Reserved == OneEach /\ TokensGiven /\ Held /\ Kept

\* A step in which callers only go on with, or drop, what they hold.
ServingMoves ==
  /\ UNCHANGED <<reservations, tokens, expired>>
  /\ effects \subseteq effects'
  /\ \A q \in Callers :
       /\ \A t, u \in serving'[q] : t = u
       /\ \A u \in serving'[q] : isHolder(u) =>
            /\ \E t \in serving[q] :
                 isHolder(t) /\ t.scoped = u.scoped /\ t.body = u.body /\ t.token = u.token
                   /\ (u.stage = "succeeded" => effectOf(u) \in effects' \/ t.stage = "succeeded")

LEMMA MovesKeep ==
  ASSUME TypeOK, Reserved, ServingMoves
  PROVE  Reserved'
<1> USE DEF ServingMoves
<1>1. OneEach'
  BY DEF Reserved, OneEach
<1>2. TokensGiven'
  BY DEF Reserved, TokensGiven
<1>3. Held'
  <2> SUFFICES ASSUME NEW q \in Callers, NEW u \in serving'[q], isHolder(u)
               PROVE  /\ u.token \notin expired => \E r \in reservations[u.scoped] : r.token = u.token
                      /\ \A r \in reservations[u.scoped] : r.token = u.token => r.hash = u.body
                      /\ u.stage = "succeeded" => effectOf(u) \in effects'
    BY DEF Held
  <2>1. PICK t \in serving[q] :
          /\ isHolder(t) /\ t.scoped = u.scoped /\ t.body = u.body /\ t.token = u.token
          /\ u.stage = "succeeded" => effectOf(u) \in effects' \/ t.stage = "succeeded"
    OBVIOUS
  <2> QED  BY <2>1 DEF Reserved, Held, effectOf
<1>4. Kept'
  BY DEF Reserved, Kept
<1> QED  BY <1>1, <1>2, <1>3, <1>4 DEF Reserved

\* A step in which no caller gets a task, and reservations[s] is rewritten:
\* none but a dropped holder's is taken away, and a response is added for an
\* effect.
Rewrites(s) ==
  /\ UNCHANGED <<tokens, effects>>
  /\ expired \subseteq expired'
  /\ \A q \in Callers : serving'[q] \subseteq serving[q]
  /\ \A x \in Scoped : x # s => reservations'[x] = reservations[x]
  /\ \A x \in reservations'[s] : \E r \in reservations[s] :
       /\ r.token = x.token /\ r.hash = x.hash
       /\ ~x.live => ~r.live \/ r.token \in expired'
       /\ \A p \in x.response :
            \/ p \in r.response
            \/ p.body = x.hash /\ [scoped |-> s, body |-> p.body, token |-> p.token] \in effects
  /\ \A y, z \in reservations'[s] : y = z
  /\ \A q \in Callers : \A t \in serving'[q] : isHolder(t) /\ t.scoped = s =>
       \A r \in reservations[s] : r.token = t.token => \E x \in reservations'[s] : x.token = t.token

LEMMA RewritesKeep ==
  ASSUME TypeOK, Reserved, NEW s \in Scoped, Rewrites(s)
  PROVE  Reserved'
<1> USE DEF Rewrites
<1>1. OneEach'
  BY DEF Reserved, OneEach
<1>2. TokensGiven'
  BY DEF Reserved, TokensGiven
<1>3. Held'
  <2> SUFFICES ASSUME NEW q \in Callers, NEW t \in serving'[q], isHolder(t)
               PROVE  /\ t.token \notin expired' => \E r \in reservations'[t.scoped] : r.token = t.token
                      /\ \A r \in reservations'[t.scoped] : r.token = t.token => r.hash = t.body
                      /\ t.stage = "succeeded" => effectOf(t) \in effects
    BY DEF Held
  <2>1. t \in serving[q] /\ t.scoped \in Scoped
    BY HolderFields DEF TypeOK, isHolder, Handling
  <2>2. /\ t.token \notin expired => \E r \in reservations[t.scoped] : r.token = t.token
        /\ \A r \in reservations[t.scoped] : r.token = t.token => r.hash = t.body
        /\ t.stage = "succeeded" => effectOf(t) \in effects
    BY <2>1 DEF Reserved, Held
  <2>3. CASE t.scoped = s
    BY <2>2, <2>3
  <2>4. CASE t.scoped # s
    BY <2>1, <2>2, <2>4
  <2> QED  BY <2>3, <2>4
<1>4. Kept'
  <2> SUFFICES ASSUME NEW x \in Scoped, NEW y \in reservations'[x]
               PROVE  /\ ~y.live => y.token \in expired'
                      /\ \A p \in y.response :
                           p.body = y.hash /\ [scoped |-> x, body |-> p.body, token |-> p.token] \in effects
    BY DEF Kept
  <2>1. CASE x = s
    BY <2>1 DEF Reserved, Kept
  <2>2. CASE x # s
    BY <2>2 DEF Reserved, Kept
  <2> QED  BY <2>1, <2>2
<1> QED  BY <1>1, <1>2, <1>3, <1>4 DEF Reserved

\* A reservation is granted under a new token, in place of none or of one that
\* is not live.
LEMMA GrantKeeps ==
  ASSUME TypeOK, Reserved, NEW q \in Callers, NEW s \in Scoped, NEW body \in Bodies,
         Idle(q), Claimable(s),
         tokens' = tokens + 1,
         reservations' = [reservations EXCEPT ![s] =
                            {[hash |-> body, token |-> tokens', live |-> TRUE, response |-> {}]}],
         serving' = [serving EXCEPT ![q] =
                       {[stage |-> "handler", scoped |-> s, body |-> body, token |-> tokens']}],
         UNCHANGED <<expired, effects>>
  PROVE  Reserved'
<1> DEFINE new == [hash |-> body, token |-> tokens', live |-> TRUE, response |-> {}]
           task == [stage |-> "handler", scoped |-> s, body |-> body, token |-> tokens']
<1>1. /\ reservations'[s] = {new}
      /\ \A x \in Scoped : x # s => reservations'[x] = reservations[x]
      /\ serving'[q] = {task}
      /\ \A p \in Callers : p # q => serving'[p] = serving[p]
  BY DEF TypeOK
<1>2. /\ isHolder(task) /\ task.scoped = s /\ task.body = body /\ task.token = tokens + 1
      /\ task.stage = "handler"
      /\ new.token = tokens + 1 /\ new.hash = body /\ new.live = TRUE /\ new.response = {}
  BY DEF isHolder, HolderStages
<1>3. \A p \in Callers : \A t \in serving[p] : isHolder(t) => t.token \in Nat /\ t.scoped \in Scoped /\ t.token <= tokens
  BY HolderFields DEF TypeOK, isHolder, Handling, Reserved, TokensGiven
<1>4. \A x \in Scoped : \A r \in reservations[x] : r.token \in Nat /\ r.token <= tokens
  BY DEF TypeOK, Reservation, Reserved, TokensGiven
<1>5. tokens \in Nat
  BY DEF TypeOK
<1> HIDE DEF new, task
<1>6. OneEach'
  <2>1. \A p \in Callers : \A t, u \in serving'[p] : t = u
    BY <1>1 DEF Reserved, OneEach
  <2>2. \A x \in Scoped : \A r, y \in reservations'[x] : r = y
    BY <1>1 DEF Reserved, OneEach
  <2>3. ASSUME NEW p1 \in Callers, NEW p2 \in Callers, NEW t \in serving'[p1], NEW u \in serving'[p2],
               isHolder(t), isHolder(u), t.token = u.token
        PROVE  p1 = p2
    <3>1. CASE p1 = q /\ p2 # q
      BY <1>1, <1>2, <1>3, <1>5, <2>3, <3>1
    <3>2. CASE p1 # q /\ p2 = q
      BY <1>1, <1>2, <1>3, <1>5, <2>3, <3>2
    <3>3. CASE p1 # q /\ p2 # q
      BY <1>1, <2>3, <3>3 DEF Reserved, OneEach
    <3> QED  BY <3>1, <3>2, <3>3
  <2> QED  BY <2>1, <2>2, <2>3 DEF OneEach
<1>7. TokensGiven'
  BY <1>1, <1>2, <1>3, <1>4, <1>5 DEF TokensGiven
<1>8. Held'
  <2> SUFFICES ASSUME NEW p \in Callers, NEW t \in serving'[p], isHolder(t)
               PROVE  /\ t.token \notin expired => \E r \in reservations'[t.scoped] : r.token = t.token
                      /\ \A r \in reservations'[t.scoped] : r.token = t.token => r.hash = t.body
                      /\ t.stage = "succeeded" => effectOf(t) \in effects
    BY DEF Held
  <2>1. CASE p = q
    BY <1>1, <1>2, <2>1
  <2>2. CASE p # q
    <3>1. t \in serving[p] /\ t.scoped \in Scoped /\ t.token \in Nat /\ t.token <= tokens
      BY <1>1, <1>3, <2>2
    <3>2. /\ t.token \notin expired => \E r \in reservations[t.scoped] : r.token = t.token
          /\ \A r \in reservations[t.scoped] : r.token = t.token => r.hash = t.body
          /\ t.stage = "succeeded" => effectOf(t) \in effects
      BY <3>1 DEF Reserved, Held
    <3>3. CASE t.scoped # s
      BY <1>1, <3>1, <3>2, <3>3
    <3>4. CASE t.scoped = s
      <4>1. \A r \in reservations[s] : r.token \in expired
        BY DEF Claimable, Reserved, Kept
      <4>2. t.token \in expired
        BY <3>2, <3>4, <4>1
      <4>3. \A r \in reservations'[t.scoped] : r.token # t.token
        BY <1>1, <1>2, <1>5, <3>1, <3>4
      <4> QED  BY <3>2, <4>2, <4>3
    <3> QED  BY <3>3, <3>4
  <2> QED  BY <2>1, <2>2
<1>9. Kept'
  <2> SUFFICES ASSUME NEW x \in Scoped, NEW r \in reservations'[x]
               PROVE  /\ ~r.live => r.token \in expired
                      /\ \A p \in r.response :
                           p.body = r.hash /\ [scoped |-> x, body |-> p.body, token |-> p.token] \in effects
    BY DEF Kept
  <2>1. CASE x = s
    BY <1>1, <1>2, <2>1
  <2>2. CASE x # s
    BY <1>1, <2>2 DEF Reserved, Kept
  <2> QED  BY <2>1, <2>2
<1> QED  BY <1>6, <1>7, <1>8, <1>9 DEF Reserved

\* The end of a request stores its response, or drops its reservation.
LEMMA FinishKeeps ==
  ASSUME TypeOK, Reserved, NEW q \in Callers, Finish(q)
  PROVE  Reserved'
<1>1. PICK t \in serving[q] :
        /\ t.stage \in {"succeeded", "failed"}
        /\ \/ t.stage = "succeeded" /\ Complete(t.scoped, t.token, t.body)
           \/ t.stage = "failed" /\ Release(t.scoped, t.token)
           \/ UNCHANGED reservations
        /\ serving' = [serving EXCEPT ![q] = {}]
        /\ UNCHANGED <<tokens, expired, effects>>
  BY DEF Finish, Answer
<1>2. t \in Handling /\ isHolder(t)
  BY <1>1, HolderFields DEF TypeOK, isHolder, HolderStages
<1>3. t.scoped \in Scoped /\ t.body \in Bodies /\ t.token \in Nat
  BY <1>2 DEF Handling
<1> DEFINE s == t.scoped
<1>4. /\ serving'[q] = {}
      /\ \A p \in Callers : p # q => serving'[p] = serving[p]
      /\ \A p \in Callers : \A u \in serving'[p] : isHolder(u) => u.token # t.token
  BY <1>1, <1>2 DEF TypeOK, Reserved, OneEach
<1>5. \A r, x \in reservations[s] : r = x
  BY <1>3 DEF Reserved, OneEach
<1>6. CASE t.stage = "succeeded" /\ Complete(t.scoped, t.token, t.body)
  <2> DEFINE answer == [body |-> t.body, token |-> t.token]
             filled(r) == IF r.token = t.token THEN [r EXCEPT !.response = {answer}] ELSE r
  <2>1. /\ reservations'[s] = {filled(r) : r \in reservations[s]}
        /\ \A x \in Scoped : x # s => reservations'[x] = reservations[x]
    BY <1>3, <1>6 DEF Complete, TypeOK
  <2>2. /\ answer.body = t.body /\ answer.token = t.token
        /\ [scoped |-> s, body |-> t.body, token |-> t.token] \in effects
        /\ \A r \in reservations[s] : r.token = t.token => r.hash = t.body
    BY <1>2, <1>6 DEF Reserved, Held, effectOf
  <2>3. \A r \in Reservation :
          /\ filled(r).token = r.token /\ filled(r).hash = r.hash /\ filled(r).live = r.live
          /\ filled(r).response = IF r.token = t.token THEN {answer} ELSE r.response
    BY DEF Reservation
  <2>4. reservations[s] \subseteq Reservation
    BY <1>3 DEF TypeOK
  <2> HIDE DEF filled, answer
  <2>5. \A x \in reservations'[s] : \E r \in reservations[s] :
          /\ r.token = x.token /\ r.hash = x.hash
          /\ ~x.live => ~r.live \/ r.token \in expired'
          /\ \A p \in x.response :
               \/ p \in r.response
               \/ p.body = x.hash /\ [scoped |-> s, body |-> p.body, token |-> p.token] \in effects
    <3> TAKE x \in reservations'[s]
    <3>1. PICK r \in reservations[s] : x = filled(r)
      BY <2>1
    <3>2. /\ r.token = x.token /\ r.hash = x.hash
          /\ x.live = r.live
          /\ x.response = IF r.token = t.token THEN {answer} ELSE r.response
      BY <2>3, <2>4, <3>1
    <3>3. CASE r.token = t.token
      BY <2>2, <3>2, <3>3
    <3>4. CASE r.token # t.token
      BY <3>2, <3>4
    <3> QED  BY <3>3, <3>4
  <2>6. \A y, z \in reservations'[s] : y = z
    BY <1>5, <2>1
  <2>7. \A r \in reservations[s] : \E x \in reservations'[s] : x.token = r.token
    BY <2>1, <2>3, <2>4
  <2>8. /\ UNCHANGED <<tokens, effects>> /\ expired \subseteq expired'
        /\ \A p \in Callers : serving'[p] \subseteq serving[p]
        /\ \A p \in Callers : \A u \in serving'[p] : isHolder(u) /\ u.scoped = s =>
             \A r \in reservations[s] : r.token = u.token => \E x \in reservations'[s] : x.token = u.token
    BY <1>1, <1>4, <2>7
  <2>9. Rewrites(s)
    BY <2>1, <2>5, <2>6, <2>8, Zenon DEF Rewrites
  <2> QED  BY <1>3, <2>9, RewritesKeep
<1>7. CASE t.stage = "failed" /\ Release(t.scoped, t.token)
  <2>1. /\ reservations'[s] = {r \in reservations[s] : r.token # t.token}
        /\ \A x \in Scoped : x # s => reservations'[x] = reservations[x]
    BY <1>3, <1>7 DEF Release, TypeOK
  <2>2. Rewrites(s)
    BY <1>1, <1>4, <1>5, <2>1 DEF Rewrites
  <2> QED  BY <1>3, <2>2, RewritesKeep
<1>8. CASE UNCHANGED reservations
  <2>1. ServingMoves
    <3>1. ASSUME NEW p \in Callers, NEW u \in serving'[p]
          PROVE  u \in serving[p] /\ \A x \in serving'[p] : x = u
      BY <1>4 DEF Reserved, OneEach
    <3> QED  BY <1>1, <1>8, <3>1 DEF ServingMoves
  <2> QED  BY <2>1, MovesKeep
<1> QED  BY <1>1, <1>6, <1>7, <1>8

LEMMA ExpireKeeps ==
  ASSUME TypeOK, Reserved, NEW s \in Scoped, ExpireReservation(s)
  PROVE  Reserved'
<1>1. PICK r \in reservations[s] :
        /\ reservations' = [reservations EXCEPT ![s] = {[r EXCEPT !.live = FALSE]}]
        /\ expired' = expired \cup {r.token}
        /\ UNCHANGED <<serving, tokens, effects>>
  BY DEF ExpireReservation
<1> DEFINE x == [r EXCEPT !.live = FALSE]
<1>2. /\ reservations'[s] = {x}
      /\ \A y \in Scoped : y # s => reservations'[y] = reservations[y]
  BY <1>1 DEF TypeOK
<1>3. x.token = r.token /\ x.hash = r.hash /\ x.response = r.response
  BY <1>1, MarkedFields DEF TypeOK
<1>4. \A y \in reservations[s] : y = r
  BY <1>1 DEF Reserved, OneEach
<1> HIDE DEF x
<1>5. Rewrites(s)
  BY <1>1, <1>2, <1>3, <1>4 DEF Rewrites
<1> QED  BY <1>5, RewritesKeep

\* A caller goes from one task to another, with what it holds.
LEMMA CallerMoves ==
  ASSUME TypeOK, Reserved, NEW q \in Callers, NEW u,
         serving' = [serving EXCEPT ![q] = {u}],
         UNCHANGED <<reservations, tokens, expired>>, effects \subseteq effects',
         isHolder(u) =>
           \E t \in serving[q] :
             /\ isHolder(t) /\ t.scoped = u.scoped /\ t.body = u.body /\ t.token = u.token
             /\ u.stage = "succeeded" => effectOf(u) \in effects'
  PROVE  Reserved'
<1>1. serving'[q] = {u} /\ \A p \in Callers : p # q => serving'[p] = serving[p]
  BY DEF TypeOK
<1>2. ServingMoves
  <2>1. \A p \in Callers : \A x, y \in serving'[p] : x = y
    BY <1>1 DEF Reserved, OneEach
  <2>2. ASSUME NEW p \in Callers, NEW y \in serving'[p], isHolder(y)
        PROVE  \E t \in serving[p] :
                 /\ isHolder(t) /\ t.scoped = y.scoped /\ t.body = y.body /\ t.token = y.token
                 /\ y.stage = "succeeded" => effectOf(y) \in effects' \/ t.stage = "succeeded"
    <3>1. CASE p = q
      BY <1>1, <2>2, <3>1
    <3>2. CASE p # q
      BY <1>1, <2>2, <3>2
    <3> QED  BY <3>1, <3>2
  <2> QED  BY <2>1, <2>2 DEF ServingMoves
<1> QED  BY <1>2, MovesKeep

LEMMA ReservedStep ==
  ASSUME TypeOK, Reserved, Next
  PROVE  Reserved'
<1>1. ASSUME NEW q \in Callers, NEW n \in Nonces, NEW w \in Wallets, Verify(q, n, w)
      PROVE  Reserved'
  <2> DEFINE u == [stage |-> "verify", nonce |-> n, signer |-> w]
  <2>1. serving' = [serving EXCEPT ![q] = {u}] /\ UNCHANGED <<reservations, tokens, expired, effects>>
    BY <1>1 DEF Verify, Becomes
  <2>2. ~isHolder(u)
    BY DEF isHolder, HolderStages
  <2> HIDE DEF u
  <2> QED  BY <2>1, <2>2, CallerMoves
<1>2. ASSUME NEW q \in Callers, serving' = [serving EXCEPT ![q] = {}],
             UNCHANGED <<reservations, tokens, expired, effects>>
      PROVE  Reserved'
  <2>1. serving'[q] = {} /\ \A p \in Callers : p # q => serving'[p] = serving[p]
    BY <1>2 DEF TypeOK
  <2>2. ServingMoves
    <3>1. ASSUME NEW p \in Callers, NEW u \in serving'[p]
          PROVE  u \in serving[p] /\ \A x \in serving'[p] : x = u
      BY <2>1 DEF Reserved, OneEach
    <3> QED  BY <1>2, <3>1 DEF ServingMoves
  <2> QED  BY <2>2, MovesKeep
<1>3. ASSUME NEW q \in Callers, Consume(q) \/ Duplicate(q)
      PROVE  Reserved'
  BY <1>2, <1>3 DEF Consume, Duplicate, Answer
<1>4. ASSUME NEW q \in Callers, RecordIntent(q)
      PROVE  Reserved'
  <2>1. PICK t \in serving[q] :
          /\ t.stage = "handler"
          /\ serving' = [serving EXCEPT ![q] = {[t EXCEPT !.stage = IF MayAct(t)' THEN "act" ELSE "failed"]}]
          /\ UNCHANGED <<reservations, tokens, expired, effects>>
    BY <1>4 DEF RecordIntent, Becomes
  <2> DEFINE u == [t EXCEPT !.stage = IF MayAct(t)' THEN "act" ELSE "failed"]
  <2>2. t \in Handling /\ isHolder(t)
    BY <2>1, HolderFields DEF TypeOK, isHolder, HolderStages
  <2>3. u.scoped = t.scoped /\ u.body = t.body /\ u.token = t.token /\ u.stage # "succeeded"
    BY <2>2 DEF Handling
  <2> HIDE DEF u
  <2> QED  BY <2>1, <2>2, <2>3, CallerMoves DEF u
<1>5. ASSUME NEW q \in Callers, Act(q)
      PROVE  Reserved'
  <2>1. PICK t \in serving[q], takes \in BOOLEAN, ok \in BOOLEAN :
          /\ t.stage = "act"
          /\ ok => takes
          /\ effects' = IF takes THEN effects \cup {effectOf(t)} ELSE effects
          /\ serving' = [serving EXCEPT ![q] = {[t EXCEPT !.stage = IF ok THEN "succeeded" ELSE "failed"]}]
          /\ UNCHANGED <<reservations, tokens, expired>>
    BY <1>5 DEF Act, Becomes, effectOf
  <2> DEFINE u == [t EXCEPT !.stage = IF ok THEN "succeeded" ELSE "failed"]
  <2>2. t \in Handling /\ isHolder(t)
    BY <2>1, HolderFields DEF TypeOK, isHolder, HolderStages
  <2>3. u.scoped = t.scoped /\ u.body = t.body /\ u.token = t.token /\ (u.stage = "succeeded" => ok)
    BY <2>2 DEF Handling
  <2>4. u.stage = "succeeded" => effectOf(u) \in effects'
    BY <2>1, <2>3 DEF effectOf
  <2>5. serving' = [serving EXCEPT ![q] = {u}] /\ effects \subseteq effects'
    BY <2>1
  <2> HIDE DEF u
  <2> QED  BY <2>1, <2>2, <2>3, <2>4, <2>5, CallerMoves
<1>6. ASSUME NEW q \in Callers, NEW a \in Admins, NEW k \in Keys, NEW body \in Bodies, Reserve(q, a, k, body)
      PROVE  Reserved'
  <2>1. <<a, k>> \in Scoped
    BY DEF Scoped
  <2>2. CASE Claimable(<<a, k>>)
    BY <1>6, <2>1, <2>2, GrantKeeps DEF Reserve, Becomes
  <2>3. CASE ~Claimable(<<a, k>>)
    <3> DEFINE u == [stage |-> "duplicate", scoped |-> <<a, k>>, body |-> body]
    <3>1. serving' = [serving EXCEPT ![q] = {u}] /\ UNCHANGED <<reservations, tokens, expired, effects>>
      BY <1>6, <2>3 DEF Reserve, Becomes
    <3>2. ~isHolder(u)
      BY DEF isHolder, HolderStages
    <3> HIDE DEF u
    <3> QED  BY <3>1, <3>2, CallerMoves
  <2> QED  BY <2>2, <2>3
<1>7. ASSUME NEW a \in Admins, Restart(a)
      PROVE  Reserved'
  <2>1. ServingMoves
    BY <1>7 DEF Restart, ServingMoves
  <2> QED  BY <2>1, MovesKeep
<1>8. CASE UNCHANGED <<serving, reservations, tokens, expired, effects>>
  BY <1>8 DEF Reserved, OneEach, TokensGiven, Held, Kept
<1>9. CASE \E n \in Nonces, w \in Wallets : CreateChallenge(n, w)
  BY <1>8, <1>9 DEF CreateChallenge
<1>10. CASE \E n \in Nonces : ExpireChallenge(n) \/ ExpireCredential(n)
  BY <1>8, <1>10 DEF ExpireChallenge, ExpireCredential
<1>11. CASE \E q \in Callers : RecordResult(q)
  BY <1>8, <1>11 DEF RecordResult
<1> QED
  BY <1>1, <1>3, <1>4, <1>5, <1>6, <1>7, <1>9, <1>10, <1>11, FinishKeeps, ExpireKeeps DEF Next

-----------------------------------------------------------------------------
(* The theorems.                                                           *)

LEMMA StepKeeps ==
  ASSUME TypeOK, Exchanged, Reserved, ReplayMatches, [Next]_vars
  PROVE  TypeOK' /\ Exchanged' /\ Reserved' /\ ReplayMatches'
<1>1. CASE UNCHANGED vars
  BY <1>1 DEF vars, TypeOK, Exchanged, Reserved, OneEach, TokensGiven, Held, Kept, ReplayMatches
<1>2. CASE Next
  <2>1. TypeOK' /\ Exchanged' /\ Reserved'
    BY <1>2, TypeStep, ExchangedStep, ReservedStep
  <2>2. ASSUME NEW q \in Callers, Duplicate(q)
        PROVE  ReplayMatches'
    <3>1. PICK t \in serving[q] :
            /\ t.stage = "duplicate"
            /\ replays' = replays \cup
                 UNION {{[scoped |-> t.scoped, body |-> t.body, response |-> p] : p \in r.response} :
                        r \in {x \in reservations[t.scoped] : x.hash = t.body}}
            /\ effects' = effects
      BY <2>2 DEF Duplicate
    <3>2. t.scoped \in Scoped
      BY <3>1, HolderFields DEF TypeOK, Reading
    <3>3. ASSUME NEW r \in reservations[t.scoped], r.hash = t.body, NEW p \in r.response
          PROVE  p.body = t.body /\ [scoped |-> t.scoped, body |-> t.body, token |-> p.token] \in effects
      BY <3>2, <3>3 DEF Reserved, Kept
    <3>4. ASSUME NEW e \in replays', e \notin replays
          PROVE  e.response.body = e.body /\ [scoped |-> e.scoped, body |-> e.body, token |-> e.response.token] \in effects
      <4>1. PICK r \in reservations[t.scoped] :
              r.hash = t.body /\ \E p \in r.response : e = [scoped |-> t.scoped, body |-> t.body, response |-> p]
        BY <3>1, <3>4
      <4>2. PICK p \in r.response : e = [scoped |-> t.scoped, body |-> t.body, response |-> p]
        BY <4>1
      <4> QED  BY <3>3, <4>1, <4>2
    <3> QED  BY <3>1, <3>4 DEF ReplayMatches
  <2>3. replays' = replays /\ effects \subseteq effects' => ReplayMatches'
    BY DEF ReplayMatches
  <2>4. (\E q \in Callers : Duplicate(q)) \/ (replays' = replays /\ effects \subseteq effects')
    BY <1>2
    DEF Next, CreateChallenge, Verify, Consume, RecordIntent, Act, RecordResult, Finish, Reserve,
        ExpireChallenge, ExpireCredential, ExpireReservation, Restart
  <2> QED  BY <2>1, <2>2, <2>3, <2>4
<1> QED  BY <1>1, <1>2

LEMMA InitKeeps ==
  ASSUME Init
  PROVE  TypeOK /\ Exchanged /\ Reserved /\ ReplayMatches
BY DEF Init, TypeOK, Exchanged, Reserved, OneEach, TokensGiven, Held, Kept, ReplayMatches

Safe == TypeOK /\ Exchanged /\ Reserved /\ ReplayMatches

LEMMA SafeInvariant == Spec => []Safe
<1>1. Init => Safe
  BY InitKeeps DEF Safe
<1>2. Safe /\ [Next]_vars => Safe'
  BY StepKeeps DEF Safe
<1> QED  BY <1>1, <1>2, PTL DEF Spec

\* Verify and MarkUsed: whatever the number of requests that present one
\* challenge, and of restarts between their steps, at most one is given a token
\* or a session for it.
THEOREM ChallengesSingleUse == Spec => []OneSessionPerChallenge
<1>1. Safe => OneSessionPerChallenge
  BY DEF Safe, Exchanged, OneSessionPerChallenge
<1> QED  BY <1>1, SafeInvariant, PTL

\* Reserve, Complete and Release: a request keeps the reservation it was
\* granted until that expires, for any number of callers, keys and expiries.
THEOREM HoldersKept == Spec => []HolderKeepsReservation
<1>1. Safe => HolderKeepsReservation
  <2> SUFFICES ASSUME Safe, NEW t \in Holding, t.token \notin expired
               PROVE  \E r \in reservations[t.scoped] : r.token = t.token
    BY DEF HolderKeepsReservation
  <2>1. PICK q \in Callers : t \in serving[q] /\ isHolder(t)
    BY DEF Holding, isHolder, HolderStages
  <2> QED  BY <2>1 DEF Safe, Reserved, Held
<1> QED  BY <1>1, SafeInvariant, PTL

\* Idempotency: every replayed response is that of an operation that took
\* effect for the same principal, key and body.
THEOREM ReplaysFaithful == Spec => []ReplayMatches
BY SafeInvariant, PTL DEF Safe
=============================================================================
