------------------------ MODULE IncomeServiceProofs ------------------------
(***************************************************************************)
(* A prepared snapshot is, whatever was reorganised since, the one that    *)
(* the canonical chain's own events give for its record block: for any     *)
(* number of requests, lengths of the chain, and lags of the indexer.  The *)
(* argument: indexed blocks below the finality depth are final; an event   *)
(* carries its block's number, so that the survivors of a record block     *)
(* depend on the blocks up to it alone; and a final block stays.           *)
(***************************************************************************)
EXTENDS IncomeService, SequenceTheorems, TLAPS

-----------------------------------------------------------------------------
(* Entitlements depend on the blocks up to the record block alone.         *)

\* Blocks c and d agree up to b.
Agree(c, d, b) == b <= Len(c) /\ b <= Len(d) /\ \A i \in 1..b : c[i] = d[i]

LEMMA SameSurvivors ==
    ASSUME NEW c, NEW d, Numbered(c), Numbered(d), NEW b \in Nat, Agree(c, d, b)
    PROVE  survivors(eventsOf(c), b) = survivors(eventsOf(d), b)
<1>1. ASSUME NEW x, NEW y, Numbered(x), Numbered(y), Agree(x, y, b),
             NEW e \in survivors(eventsOf(x), b)
      PROVE  e \in survivors(eventsOf(y), b)
  <2>1. PICK i \in DOMAIN x : e \in x[i].events
    BY <1>1 DEF survivors, eventsOf
  <2>2. e.block = i /\ e.block <= b
    BY <1>1, <2>1 DEF Numbered, survivors
  <2>3. DOMAIN x = 1..Len(x) /\ DOMAIN y = 1..Len(y) /\ Len(x) \in Nat /\ Len(y) \in Nat
    BY <1>1 DEF Numbered
  <2>4. i \in 1..b /\ i \in DOMAIN y
    BY <1>1, <2>2, <2>3 DEF Agree
  <2>5. x[i] = y[i]
    BY <1>1, <2>4 DEF Agree
  <2> QED  BY <2>1, <2>2, <2>4, <2>5 DEF survivors, eventsOf
<1>2. Agree(d, c, b)
  BY DEF Agree
<1> QED  BY <1>1, <1>2

LEMMA SameShares ==
    ASSUME NEW c, NEW d, Numbered(c), Numbered(d), NEW b \in Nat, Agree(c, d, b), NEW t
    PROVE  ComputeEntitlements(eventsOf(c), b, t) = ComputeEntitlements(eventsOf(d), b, t)
<1>1. survivors(eventsOf(c), b) = survivors(eventsOf(d), b)
  BY SameSurvivors
<1> QED  BY <1>1 DEF ComputeEntitlements

LEMMA SharesNamed ==
    ASSUME NEW events, NEW b, NEW t, NEW s \in ComputeEntitlements(events, b, t)
    PROVE  s.recordBlock = b /\ s.total = t
BY DEF ComputeEntitlements

-----------------------------------------------------------------------------
(* The chain grows, and loses what is not final.                           *)

LEMMA MaxOfTwo ==
    ASSUME NEW a \in Int, NEW b \in Int
    PROVE  Max({a, b}) \in {a, b} /\ Max({a, b}) >= a /\ Max({a, b}) >= b
<1>1. \E x \in {a, b} : \A y \in {a, b} : x >= y
  OBVIOUS
<1> QED  BY <1>1 DEF Max

LEMMA BlockPlaced ==
    ASSUME NEW c, NEW call, NEW tx, NEW e \in block(c, call, tx).events
    PROVE  e.block = Len(c) + 1
BY DEF block, placed

LEMMA Grown ==
    ASSUME NEW c, Numbered(c), NEW x, \A e \in x.events : e.block = Len(c) + 1,
           NEW d, d = Append(c, x)
    PROVE  Numbered(d) /\ Len(d) = Len(c) + 1 /\ \A i \in 1..Len(c) : d[i] = c[i]
<1> DEFINE S == Range(c) \cup {x}
<1>1. c \in Seq(S) /\ x \in S /\ Len(c) \in Nat
  BY DEF Numbered
<1> HIDE DEF S
<1>2. d \in Seq(S) /\ Len(d) = Len(c) + 1
  BY <1>1
<1>3. \A i \in 1..Len(c) : d[i] = c[i]
  BY <1>1
<1>4. d[Len(c) + 1] = x
  BY <1>1
<1>6. ASSUME NEW i \in DOMAIN d, NEW e \in d[i].events
      PROVE  e.block = i
  <2>1. i \in 1..Len(c) \/ i = Len(c) + 1
    BY <1>1, <1>2
  <2>2. CASE i \in 1..Len(c)
    BY <1>3, <1>6, <2>2 DEF Numbered
  <2> QED  BY <1>4, <1>6, <2>1, <2>2
<1>7. d \in Seq(Range(d))
  BY <1>2 DEF Range
<1> QED  BY <1>2, <1>3, <1>6, <1>7 DEF Numbered

LEMMA Shortened ==
    ASSUME NEW c, Numbered(c), Len(c) > 0, NEW d, d = Front(c)
    PROVE  Numbered(d) /\ Len(d) = Len(c) - 1 /\ \A i \in 1..Len(d) : d[i] = c[i]
<1>1. c \in Seq(Range(c)) /\ Len(c) \in Nat
  BY DEF Numbered
<1>2. d = [i \in 1..(Len(c) - 1) |-> c[i]]
  BY <1>1 DEF Front
<1>3. Len(d) = Len(c) - 1 /\ DOMAIN d = 1..(Len(c) - 1) /\ d \in Seq(Range(c))
  BY <1>1, <1>2
<1>4. d \in Seq(Range(d))
  BY <1>3 DEF Range
<1> QED  BY <1>1, <1>2, <1>3, <1>4 DEF Numbered
-----------------------------------------------------------------------------
(* The invariant.                                                          *)

ChainOK ==
    /\ Numbered(chain)
    /\ finalized \in Nat /\ finalized <= Len(chain) /\ Len(chain) - Finality <= finalized

IndexedOK ==
    /\ Numbered(indexed)
    /\ Len(indexed) - Finality <= finalized
    /\ \A i \in 1..(Len(indexed) - Finality) : indexed[i] = chain[i]

\* The canonical chain's own events give this snapshot for its record block.
Canonical(s) ==
    /\ s.recordBlock \in 0..finalized /\ s.total \in Totals
    /\ s \in ComputeEntitlements(eventsOf(chain), s.recordBlock, s.total)

PrepsOK ==
    /\ preps \in Seq(Range(preps))
    /\ \A i \in DOMAIN preps :
          /\ preps[i] = [snapshot |-> preps[i].snapshot, claimDeadline |-> preps[i].claimDeadline]
          /\ Canonical(preps[i].snapshot)

CallerOK(k) ==
    /\ k = [stage |-> k.stage, snapshot |-> k.snapshot, deadline |-> k.deadline]
    /\ k.stage # "idle" => \E s : k.snapshot = {s} /\ Canonical(s)

CallersOK ==
    /\ caller = [c \in Callers |-> caller[c]]
    /\ \A c \in Callers : CallerOK(caller[c])

Inv == scope \in Scopes /\ ChainOK /\ IndexedOK /\ PrepsOK /\ CallersOK
-----------------------------------------------------------------------------
(* What a step of the chain or of the indexer leaves true.                 *)

\* The final part of the chain stays and the depth of the final part grows.
Extends ==
    /\ ChainOK /\ ChainOK' /\ finalized <= finalized'
    /\ \A i \in 1..finalized : chain'[i] = chain[i]

LEMMA CanonicalKept ==
    ASSUME Extends, NEW s, Canonical(s)
    PROVE  Canonical(s)'
<1> DEFINE b == s.recordBlock
<1>1. b \in Nat /\ b \in 0..finalized /\ b \in 0..finalized'
  BY DEF Extends, ChainOK, Canonical
<1>2. Len(chain) \in Nat /\ Len(chain') \in Nat
  BY DEF Extends, ChainOK, Numbered
<1>3. Agree(chain, chain', b)
  BY <1>1, <1>2 DEF Extends, ChainOK, Agree
<1>4. Numbered(chain) /\ Numbered(chain')
  BY DEF Extends, ChainOK
<1> HIDE DEF b
<1>5. ComputeEntitlements(eventsOf(chain), b, s.total) = ComputeEntitlements(eventsOf(chain'), b, s.total)
  BY <1>1, <1>3, <1>4, SameShares
<1> QED  BY <1>1, <1>5 DEF Canonical, b

\* The indexer's blocks below the finality depth, preparations and callers.
LEMMA ExtendsKeeps ==
    ASSUME Inv, Extends, UNCHANGED <<indexed, preps, caller, scope>>
    PROVE  Inv'
<1>1. IndexedOK'
  <2>1. Len(indexed) \in Nat
    BY DEF Inv, IndexedOK, Numbered
  <2>2. \A i \in 1..(Len(indexed) - Finality) : i \in 1..finalized /\ indexed[i] = chain[i]
    BY <2>1, HistoryAssumption DEF Inv, IndexedOK, ChainOK
  <2> QED  BY <2>1, <2>2, HistoryAssumption DEF Inv, IndexedOK, ChainOK, Extends
<1>2. PrepsOK'
  <2>1. \A i \in DOMAIN preps : Canonical(preps[i].snapshot)'
    BY CanonicalKept DEF Inv, PrepsOK
  <2> QED  BY <2>1 DEF Inv, PrepsOK, Canonical
<1>3. CallersOK'
  <2>1. ASSUME NEW c \in Callers
        PROVE  CallerOK(caller[c])'
    <3>1. CASE caller[c].stage = "idle"
      BY <3>1 DEF Inv, CallersOK, CallerOK
    <3>2. CASE caller[c].stage # "idle"
      <4>1. PICK s : caller[c].snapshot = {s} /\ Canonical(s)
        BY <3>2 DEF Inv, CallersOK, CallerOK
      <4>2. Canonical(s)'
        BY <4>1, CanonicalKept
      <4> QED  BY <4>1, <4>2 DEF Inv, CallersOK, CallerOK
    <3> QED  BY <3>1, <3>2
  <2> QED  BY <2>1 DEF Inv, CallersOK
<1> QED  BY <1>1, <1>2, <1>3 DEF Inv, Extends

LEMMA ChainKeeps ==
    ASSUME Inv, Chain
    PROVE  Inv'
<1>1. UNCHANGED <<indexed, preps, caller, scope>>
  BY DEF Chain, readVars, incomeVars
<1>2. ChainOK /\ Len(chain) \in Nat /\ Finality \in Nat
  BY HistoryAssumption DEF Inv, ChainOK, Numbered
<1>3. ASSUME NEW call, Mine(call)
      PROVE  Extends
  <2>1. Numbered(chain) /\ chain' = Append(chain, block(chain, call, mined + 1))
    BY <1>2, <1>3 DEF Mine, ChainOK
  <2>2. /\ Numbered(chain') /\ Len(chain') = Len(chain) + 1
        /\ \A i \in 1..Len(chain) : chain'[i] = chain[i]
    <3>1. PICK c, d, x : c = chain /\ d = chain' /\ x = block(chain, call, mined + 1)
      OBVIOUS
    <3>2. \A e \in x.events : e.block = Len(c) + 1
      BY <3>1, BlockPlaced
    <3>3. Numbered(d) /\ Len(d) = Len(c) + 1 /\ \A i \in 1..Len(c) : d[i] = c[i]
      BY <2>1, <3>1, <3>2, Grown
    <3> QED  BY <3>1, <3>3
  <2>3. finalized' = Max({finalized, Len(chain') - Finality})
    BY <1>3 DEF Mine
  <2>4. finalized \in Int /\ Len(chain') - Finality \in Int
    BY <1>2, <2>2 DEF ChainOK
  <2>5. /\ finalized' \in {finalized, Len(chain') - Finality}
        /\ finalized' >= finalized /\ finalized' >= Len(chain') - Finality
    BY <2>3, <2>4, MaxOfTwo
  <2> QED  BY <1>2, <2>2, <2>5 DEF Extends, ChainOK
<1>4. ASSUME Reorg
      PROVE  Extends
  <2>1. /\ Numbered(chain') /\ Len(chain') = Len(chain) - 1
        /\ \A i \in 1..Len(chain') : chain'[i] = chain[i]
    BY <1>2, <1>4, Shortened DEF Reorg, ChainOK
  <2> QED  BY <1>2, <1>4, <2>1 DEF Extends, ChainOK, Reorg
<1>5. ASSUME Tick
      PROVE  Extends
  BY <1>2, <1>5 DEF Tick, Extends, ChainOK
<1>6. Extends
  BY <1>3, <1>4, <1>5 DEF Chain
<1> QED  BY <1>1, <1>6, ExtendsKeeps

\* An index of the whole chain agrees with all of it.
LEMMA IndexKeeps ==
    ASSUME Inv, IndexChain
    PROVE  Inv'
<1>1. indexed' = chain /\ UNCHANGED <<chain, finalized, preps, caller, scope>>
  BY DEF IndexChain, Index, chainVars, incomeVars
<1>2. IndexedOK'
  BY <1>1 DEF Inv, ChainOK, IndexedOK
<1> QED  BY <1>1, <1>2 DEF Inv, ChainOK, PrepsOK, CallersOK, CallerOK, Canonical

LEMMA ReconcileKeeps ==
    ASSUME Inv, (\E m \in Models : Reconcile(m)) \/ Disturb
    PROVE  Inv'
<1>1. UNCHANGED <<indexed, chain, finalized, preps, caller, scope>>
  BY DEF Reconcile, Disturb, PassStep, BeginPass, ListEvents, Upsert, Prune, PassFails, SetActive,
         chainVars, incomeVars
<1> QED  BY <1>1 DEF Inv, ChainOK, IndexedOK, PrepsOK, CallersOK, CallerOK, Canonical
-----------------------------------------------------------------------------
(* Prepare.                                                                *)

\* The request's state is replaced by one that is fine, nothing else moves.
LEMMA CallerKeeps ==
    ASSUME Inv, NEW c \in Callers, NEW k, CallerOK(k), caller' = [caller EXCEPT ![c] = k],
           PrepsOK', UNCHANGED <<chainVars, readVars, scope>>
    PROVE  Inv'
<1>1. UNCHANGED <<chain, finalized, indexed, scope>>
  BY DEF chainVars, readVars
<1>2. CallerOK(k)'
  BY <1>1 DEF CallerOK, Canonical
<1>3. ASSUME NEW e \in Callers
      PROVE  CallerOK(caller[e])'
  <2>1. CASE e = c
    BY <1>2, <2>1 DEF Inv, CallersOK, CallerOK, Canonical
  <2>2. CASE e # c
    BY <1>1, <2>2 DEF Inv, CallersOK, CallerOK, Canonical
  <2> QED  BY <2>1, <2>2
<1>4. CallersOK'
  BY <1>3 DEF Inv, CallersOK
<1> QED  BY <1>1, <1>4 DEF Inv, ChainOK, IndexedOK

LEMMA PrepsKept ==
    ASSUME PrepsOK, UNCHANGED <<preps, chainVars>>
    PROVE  PrepsOK'
BY DEF PrepsOK, Canonical, chainVars

LEMMA NoCallOK == CallerOK(NoCall)
BY DEF CallerOK, NoCall

\* What is computed from indexed blocks below the finality depth is what the
\* canonical chain gives.
LEMMA BeginKeeps ==
    ASSUME Inv, NEW c \in Callers, NEW b \in scope.records, NEW total \in Totals, NEW deadline,
           BeginPrepare(c, b, total, deadline), UNCHANGED <<chainVars, readVars, scope>>
    PROVE  Inv'
<1>1. PICK s \in ComputeEntitlements(eventsOf(indexed), b, total) :
        caller' = [caller EXCEPT ![c] = [stage |-> "check", snapshot |-> {s}, deadline |-> deadline]]
  BY DEF BeginPrepare
<1>2. b \in Nat /\ Finality \in Nat /\ b <= Len(indexed) - Finality
  BY ScopesAssumption, HistoryAssumption DEF Inv, BeginPrepare, finalBlock
<1>3. /\ Numbered(indexed) /\ Numbered(chain) /\ Len(indexed) \in Nat /\ Len(chain) \in Nat
      /\ b \in 0..finalized /\ Agree(indexed, chain, b)
  BY <1>2 DEF Inv, ChainOK, IndexedOK, Numbered, Agree
<1>4. ComputeEntitlements(eventsOf(indexed), b, total) = ComputeEntitlements(eventsOf(chain), b, total)
  BY <1>2, <1>3, SameShares
<1>5. s.recordBlock = b /\ s.total = total
  BY <1>1, SharesNamed
<1>6. Canonical(s)
  BY <1>1, <1>3, <1>4, <1>5 DEF Canonical
<1>7. PICK k : k = [stage |-> "check", snapshot |-> {s}, deadline |-> deadline]
  OBVIOUS
<1>8. CallerOK(k)
  BY <1>6, <1>7 DEF CallerOK
<1>9. PrepsOK'
  BY PrepsKept DEF Inv, BeginPrepare
<1> QED  BY <1>1, <1>7, <1>8, <1>9, CallerKeeps

\* A later stage of the same request.
LEMMA StageOK ==
    ASSUME NEW k, NEW l, CallerOK(k), k.stage # "idle", NEW stage, l = [k EXCEPT !.stage = stage]
    PROVE  CallerOK(l)
<1>1. k = [stage |-> k.stage, snapshot |-> k.snapshot, deadline |-> k.deadline]
  BY DEF CallerOK
<1>2. l = [stage |-> stage, snapshot |-> k.snapshot, deadline |-> k.deadline]
  BY <1>1
<1> QED  BY <1>2 DEF CallerOK

\* A later date of a stored preparation leaves its snapshot.
LEMMA RedateKeeps ==
    ASSUME Inv, NEW c \in Callers, redatePreparation(c), UNCHANGED chainVars
    PROVE  PrepsOK'
<1>1. UNCHANGED <<chain, finalized>>
  BY DEF chainVars
<1>2. Len(preps) \in Nat /\ DOMAIN preps = 1..Len(preps)
  BY DEF Inv, PrepsOK
<1>3. preps' = [i \in 1..Len(preps) |->
                  IF i = Min(preparedAt(c))
                    THEN [preps[i] EXCEPT !.claimDeadline = caller[c].deadline] ELSE preps[i]]
  BY <1>2 DEF redatePreparation
<1>4. preps' \in Seq(Range(preps')) /\ DOMAIN preps' = DOMAIN preps
  BY <1>2, <1>3 DEF Range
<1>5. ASSUME NEW i \in DOMAIN preps
      PROVE  /\ preps'[i] = [snapshot |-> preps'[i].snapshot, claimDeadline |-> preps'[i].claimDeadline]
             /\ preps'[i].snapshot = preps[i].snapshot
  <2>1. PICK p, d : p = preps[i] /\ d = caller[c].deadline
    OBVIOUS
  <2>2. p = [snapshot |-> p.snapshot, claimDeadline |-> p.claimDeadline]
    BY <2>1 DEF Inv, PrepsOK
  <2>3. [p EXCEPT !.claimDeadline = d] = [snapshot |-> p.snapshot, claimDeadline |-> d]
    BY <2>2
  <2>4. preps'[i] = p \/ preps'[i] = [snapshot |-> p.snapshot, claimDeadline |-> d]
    BY <1>2, <1>3, <2>1, <2>3
  <2> QED  BY <2>1, <2>2, <2>4
<1>6. \A i \in DOMAIN preps : Canonical(preps[i].snapshot)
  BY DEF Inv, PrepsOK
<1> QED  BY <1>1, <1>4, <1>5, <1>6 DEF PrepsOK, Canonical
\* The stored preparation is the caller's snapshot.
LEMMA CreateStoresCanonical ==
    ASSUME Inv, NEW c \in Callers, caller[c].stage = "create", UNCHANGED chainVars,
           preps' = Append(preps, [snapshot |-> CHOOSE s \in caller[c].snapshot : TRUE,
                                   claimDeadline |-> caller[c].deadline])
    PROVE  PrepsOK'
<1>1. UNCHANGED <<chain, finalized>>
  BY DEF chainVars
<1>2. PICK s : caller[c].snapshot = {s} /\ Canonical(s)
  BY DEF Inv, CallersOK, CallerOK
<1>3. PICK p : p = [snapshot |-> s, claimDeadline |-> caller[c].deadline]
  OBVIOUS
<1>4. preps' = Append(preps, p)
  <2>1. (CHOOSE x \in caller[c].snapshot : TRUE) = s
    BY <1>2
  <2> QED  BY <1>3, <2>1
<1>5. preps \in Seq(Range(preps)) /\ Len(preps) \in Nat /\ DOMAIN preps = 1..Len(preps)
  BY DEF Inv, PrepsOK
<1>6. PICK S : S = Range(preps) \cup {p}
  OBVIOUS
<1>7. preps \in Seq(S) /\ p \in S
  BY <1>5, <1>6
<1>8. preps' \in Seq(S) /\ Len(preps') = Len(preps) + 1 /\ DOMAIN preps' = 1..(Len(preps) + 1)
  BY <1>4, <1>5, <1>7
<1>9. preps' \in Seq(Range(preps'))
  BY <1>8 DEF Range
<1>10. ASSUME NEW i \in DOMAIN preps'
       PROVE  preps'[i] = p \/ (i \in DOMAIN preps /\ preps'[i] = preps[i])
  BY <1>4, <1>5, <1>7, <1>8
<1>11. ASSUME NEW q, q = p \/ \E i \in DOMAIN preps : q = preps[i]
       PROVE  q = [snapshot |-> q.snapshot, claimDeadline |-> q.claimDeadline] /\ Canonical(q.snapshot)
  BY <1>2, <1>3, <1>11 DEF Inv, PrepsOK
<1> QED  BY <1>1, <1>9, <1>10, <1>11 DEF PrepsOK, Canonical

LEMMA PrepareKeeps ==
    ASSUME Inv, NEW c \in Callers, PrepareStep(c)
    PROVE  Inv'
<1>1. UNCHANGED <<chainVars, readVars, scope>> /\ CallerOK(caller[c])
  BY DEF PrepareStep, Inv, CallersOK
<1>2. ASSUME NEW b \in scope.records, NEW total \in Totals, NEW deadline,
             BeginPrepare(c, b, total, deadline)
      PROVE  Inv'
  BY <1>1, <1>2, BeginKeeps
<1>3. ASSUME PrepsOK', caller' = [caller EXCEPT ![c] = NoCall]
      PROVE  Inv'
  BY <1>1, <1>3, NoCallOK, CallerKeeps
<1>4. ASSUME PrepsOK', caller[c].stage # "idle", NEW stage,
             caller' = [caller EXCEPT ![c] = [caller[c] EXCEPT !.stage = stage]]
      PROVE  Inv'
  <2>1. PICK k, l : k = caller[c] /\ l = [k EXCEPT !.stage = stage]
    OBVIOUS
  <2>2. CallerOK(l)
    BY <1>1, <1>4, <2>1, StageOK
  <2>3. caller' = [caller EXCEPT ![c] = l]
    BY <1>4, <2>1
  <2> QED  BY <1>1, <1>4, <2>2, <2>3, CallerKeeps
<1>5. ASSUME UNCHANGED preps
      PROVE  PrepsOK'
  BY <1>1, <1>5, PrepsKept DEF Inv
<1>6. ASSUME CheckDistributed(c)
      PROVE  Inv'
  <2>1. \/ caller' = [caller EXCEPT ![c] = NoCall]
        \/ caller' = [caller EXCEPT ![c] = [caller[c] EXCEPT !.stage = "redate"]]
    BY <1>6 DEF CheckDistributed
  <2> QED  BY <1>3, <1>4, <1>5, <1>6, <2>1 DEF CheckDistributed
<1>7. ASSUME Redate(c)
      PROVE  Inv'
  <2>1. CASE preparedAt(c) # {}
    <3>1. redatePreparation(c) /\ caller' = [caller EXCEPT ![c] = NoCall]
      BY <1>7, <2>1 DEF Redate
    <3> QED  BY <1>1, <1>3, <3>1, RedateKeeps
  <2>2. CASE preparedAt(c) = {}
    <3>1. UNCHANGED preps /\ caller' = [caller EXCEPT ![c] = [caller[c] EXCEPT !.stage = "create"]]
      BY <1>7, <2>2 DEF Redate
    <3> QED  BY <1>4, <1>5, <1>7, <3>1 DEF Redate
  <2> QED  BY <2>1, <2>2
<1>8. ASSUME Create(c)
      PROVE  Inv'
  <2>1. caller[c].stage = "create" /\ caller' = [caller EXCEPT ![c] = NoCall]
    BY <1>8 DEF Create
  <2>2. PrepsOK'
    <3>1. CASE preparedAt(c) # {}
      BY <1>1, <1>8, <3>1, RedateKeeps DEF Create
    <3>2. CASE preparedAt(c) = {}
      BY <1>1, <1>8, <2>1, <3>2, CreateStoresCanonical DEF Create
    <3> QED  BY <3>1, <3>2
  <2> QED  BY <1>3, <2>1, <2>2
<1>9. ASSUME PrepareFails(c)
      PROVE  Inv'
  BY <1>3, <1>5, <1>9 DEF PrepareFails
<1> QED  BY <1>2, <1>6, <1>7, <1>8, <1>9 DEF PrepareStep

-----------------------------------------------------------------------------
(* The theorems.                                                           *)

LEMMA InitInv == Init => Inv
<1> SUFFICES ASSUME Init
             PROVE  Inv
  OBVIOUS
<1>1. scope \in Scopes /\ Numbered(chain) /\ indexed = chain
  BY ScopesAssumption DEF Init, ReadInit
<1>2. Len(chain) \in Nat /\ Finality \in Nat
  BY <1>1, HistoryAssumption DEF Numbered
<1>3. finalized \in {0, Len(chain) - Finality} /\ finalized >= 0 /\ finalized >= Len(chain) - Finality
  <2>1. finalized = Max({0, Len(chain) - Finality})
    BY DEF Init
  <2>2. 0 \in Int /\ Len(chain) - Finality \in Int
    BY <1>2
  <2> QED  BY <2>1, <2>2, MaxOfTwo
<1>4. PrepsOK
  BY DEF Init, PrepsOK
<1>5. CallersOK
  BY NoCallOK DEF Init, CallersOK
<1> QED  BY <1>1, <1>2, <1>3, <1>4, <1>5 DEF Inv, ChainOK, IndexedOK

LEMMA NextInv == Inv /\ [Next]_vars => Inv'
<1> SUFFICES ASSUME Inv, [Next]_vars
             PROVE  Inv'
  OBVIOUS
<1>1. CASE UNCHANGED vars
  BY <1>1 DEF vars, chainVars, readVars, incomeVars, Inv, ChainOK, IndexedOK, PrepsOK, CallersOK,
              CallerOK, Canonical
<1>2. CASE Next
  BY <1>2, ChainKeeps, IndexKeeps, ReconcileKeeps, PrepareKeeps DEF Next
<1> QED  BY <1>1, <1>2

PreparedCanonical == \A i \in DOMAIN preps : Canonical(preps[i].snapshot)

\* Whatever several requests, the indexer's lag and reorganisations do
\* (Service.Prepare and its finality check), a stored snapshot is one that
\* the events of the canonical chain give for a final record block.
THEOREM PreparationsStayCanonical == Spec => []PreparedCanonical
<1>1. Inv => PreparedCanonical
  BY DEF Inv, PrepsOK, PreparedCanonical
<1> QED  BY <1>1, InitInv, NextInv, PTL DEF Spec

\* Hence it pays each holder his share of what the contracts' state at the
\* record block gives him, as soon as ComputeEntitlements does so on the
\* canonical chain's own events.
THEOREM PreparationsStayRight == Spec /\ []SharesRight => []PreparedStaysRight
<1>1. Inv /\ SharesRight => PreparedStaysRight
  <2> SUFFICES ASSUME Inv, SharesRight, NEW i \in DOMAIN preps
               PROVE  /\ preps[i].snapshot.recordBlock \in DOMAIN chain
                      /\ Right(preps[i].snapshot, chain[preps[i].snapshot.recordBlock].state)
    BY DEF PreparedStaysRight
  <2>1. Canonical(preps[i].snapshot)
    BY DEF Inv, PrepsOK
  <2>2. preps[i].snapshot.recordBlock \in 0..Len(chain)
    BY <2>1 DEF Canonical, Inv, ChainOK, Numbered
  <2> QED  BY <2>1, <2>2 DEF Canonical, SharesRight
<1> QED  BY <1>1, InitInv, NextInv, PTL DEF Spec
=============================================================================
