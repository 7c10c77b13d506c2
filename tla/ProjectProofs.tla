---------------------------- MODULE ProjectProofs ----------------------------
(***************************************************************************)
(* Safety of the project for every set of accounts, amounts, attestations, *)
(* roots and payments: type correctness, conservation of the supply, that  *)
(* the escrow and the distributor can always pay what they owe, that the   *)
(* project implements RedemptionPromise, what a pause stops, what no step  *)
(* does to a holder's tokens (spend what is frozen, deliver to an account  *)
(* that is not eligible), and what the auditor's attestations authorise.   *)
(***************************************************************************)
EXTENDS Project, FunctionTheorems, FiniteSetTheorems, NaturalsInduction, WellFoundedInduction, TLAPS

-----------------------------------------------------------------------------
(* Sums: Total is a natural number, no element exceeds it, and replacing   *)
(* one element changes it by the difference.                               *)

\* n units of one element are n things.
LEMMA UnitsOfCardinality ==
  ASSUME NEW x, NEW n \in Nat
  PROVE  IsFiniteSet(UnitsOf(x, n)) /\ Cardinality(UnitsOf(x, n)) = n
<1>1. IsFiniteSet({x}) /\ Cardinality({x}) = 1
  BY FS_Singleton, Zenon
<1>2. IsFiniteSet(1..n) /\ Cardinality(1..n) = n
  BY FS_Interval
<1>3. /\ IsFiniteSet({x} \X (1..n))
      /\ Cardinality({x} \X (1..n)) = Cardinality({x}) * Cardinality(1..n)
  BY <1>1, <1>2, FS_Product, Zenon
<1> QED  BY <1>1, <1>2, <1>3 DEF UnitsOf

\* The units of a function on a finite domain are finitely many.
LEMMA UnitsFinite ==
  ASSUME NEW D, IsFiniteSet(D), NEW f \in [D -> Nat]
  PROVE  IsFiniteSet(Units(f))
<1> DEFINE F == {UnitsOf(x, f[x]) : x \in D}
           g == [x \in D |-> UnitsOf(x, f[x])]
<1>1. g \in Surjection(D, F)
  BY DEF Surjection
<1>2. IsFiniteSet(F)
  <2> HIDE DEF g, F
  <2> QED  BY <1>1, FS_Surjection
<1>3. \A T \in F : IsFiniteSet(T)
  BY UnitsOfCardinality
<1>4. IsFiniteSet(UNION F)
  <2> HIDE DEF F
  <2> QED  BY <1>2, <1>3, FS_UNION
<1> QED  BY <1>4 DEF Units

\* The units of f with those of x taken out are those of f elsewhere.
LEMMA UnitsSplit ==
  ASSUME NEW D, NEW f \in [D -> Nat], NEW x \in D
  PROVE  /\ Units(f) = (Units(f) \ UnitsOf(x, f[x])) \cup UnitsOf(x, f[x])
         /\ Units(f) \cap UnitsOf(x, f[x]) = UnitsOf(x, f[x])
BY DEF Units

LEMMA UnitsExcept ==
  ASSUME NEW D, NEW f \in [D -> Nat], NEW x \in D, NEW n \in Nat
  PROVE  /\ Units([f EXCEPT ![x] = n])
              = (Units(f) \ UnitsOf(x, f[x])) \cup UnitsOf(x, n)
         /\ (Units(f) \ UnitsOf(x, f[x])) \cap UnitsOf(x, n) = {}
<1> DEFINE h == [f EXCEPT ![x] = n]
<1>1. h \in [D -> Nat] /\ h[x] = n /\ \A y \in D \ {x} : h[y] = f[y]
  OBVIOUS
<1>2. \A u : u \in Units(f) <=> \E y \in D : u \in UnitsOf(y, f[y])
  BY DEF Units
<1>3. \A u : u \in Units(h) <=> \E y \in D : u \in UnitsOf(y, h[y])
  BY <1>1 DEF Units
<1>4. \A y, k, u : u \in UnitsOf(y, k) => u[1] = y
  BY DEF UnitsOf
<1> HIDE DEF h
<1>5. \A u : u \in Units(h) <=>
              u \in (Units(f) \ UnitsOf(x, f[x])) \cup UnitsOf(x, n)
  BY <1>1, <1>2, <1>3, <1>4
<1>6. \A u \in Units(f) \ UnitsOf(x, f[x]) : u \notin UnitsOf(x, n)
  BY <1>2, <1>4
<1> QED  BY <1>5, <1>6 DEF h

\* A sum is a natural number.
LEMMA TotalType ==
  ASSUME NEW D, IsFiniteSet(D), NEW f \in [D -> Nat]
  PROVE  Total(f) \in Nat
BY UnitsFinite, FS_CardinalityType DEF Total

\* No element exceeds the sum.
LEMMA TotalBound ==
  ASSUME NEW D, IsFiniteSet(D), NEW f \in [D -> Nat], NEW x \in D
  PROVE  f[x] <= Total(f)
<1>1. IsFiniteSet(Units(f))
  BY UnitsFinite
<1>2. UnitsOf(x, f[x]) \in SUBSET Units(f)
  BY DEF Units
<1>3. Cardinality(UnitsOf(x, f[x])) <= Cardinality(Units(f))
  BY <1>1, <1>2, FS_Subset
<1> QED  BY <1>3, UnitsOfCardinality DEF Total

\* Replacing one element changes the sum by the difference.
LEMMA TotalExcept ==
  ASSUME NEW D, IsFiniteSet(D), NEW f \in [D -> Nat], NEW x \in D, NEW n \in Nat
  PROVE  Total([f EXCEPT ![x] = n]) = Total(f) - f[x] + n
<1> DEFINE U == Units(f)
           A == UnitsOf(x, f[x])
           B == UnitsOf(x, n)
<1>1. IsFiniteSet(U) /\ Cardinality(U) \in Nat
  BY UnitsFinite, FS_CardinalityType
<1>2. /\ IsFiniteSet(A) /\ Cardinality(A) = f[x]
      /\ IsFiniteSet(B) /\ Cardinality(B) = n
  BY UnitsOfCardinality
<1>3. U \cap A = A /\ (U \ A) \cap B = {}
      /\ Units([f EXCEPT ![x] = n]) = (U \ A) \cup B
  BY UnitsSplit, UnitsExcept
<1> HIDE DEF U, A, B
<1>4. IsFiniteSet(U \ A) /\ Cardinality(U \ A) = Cardinality(U) - f[x]
  <2>1. /\ IsFiniteSet(U \ A)
        /\ Cardinality(U \ A) = Cardinality(U) - Cardinality(U \cap A)
    BY <1>1, FS_Difference, Zenon
  <2> QED  BY <2>1, <1>2, <1>3
<1>5. Cardinality((U \ A) \cup B) = Cardinality(U \ A) + n - Cardinality({})
  BY <1>2, <1>3, <1>4, FS_Union
<1>6. Cardinality({}) = 0
  BY FS_EmptySet
<1>7. f[x] \in Nat
  OBVIOUS
<1>8. Cardinality((U \ A) \cup B) = Cardinality(U) - f[x] + n
  BY <1>1, <1>4, <1>5, <1>6, <1>7
<1> QED  BY <1>3, <1>8 DEF Total, U

\* The same for two functions that differ at one element only.
LEMMA TotalChanged ==
  ASSUME NEW D, IsFiniteSet(D), NEW f \in [D -> Nat], NEW g \in [D -> Nat], NEW x \in D,
         \A y \in D \ {x} : g[y] = f[y]
  PROVE  Total(g) = Total(f) - f[x] + g[x]
<1> DEFINE n == g[x]
<1>1. g = [f EXCEPT ![x] = n]
  OBVIOUS
<1>2. n \in Nat
  OBVIOUS
<1> HIDE DEF n
<1>3. Total([f EXCEPT ![x] = n]) = Total(f) - f[x] + n
  BY <1>2, TotalExcept
<1> QED  BY <1>1, <1>3 DEF n

\* The sum of zeros is zero.
LEMMA TotalZero ==
  ASSUME NEW D, NEW f \in [D -> Nat], \A x \in D : f[x] = 0
  PROVE  Total(f) = 0
<1>1. Units(f) = {}
  BY DEF Units, UnitsOf
<1> QED  BY <1>1, FS_EmptySet DEF Total

\* A sum of larger elements is larger.
LEMMA TotalMonotone ==
  ASSUME NEW D, IsFiniteSet(D), NEW f \in [D -> Nat], NEW g \in [D -> Nat],
         \A x \in D : f[x] <= g[x]
  PROVE  Total(f) <= Total(g)
<1>1. ASSUME NEW x \in D
      PROVE  UnitsOf(x, f[x]) \subseteq UnitsOf(x, g[x])
  <2>1. f[x] \in Nat /\ g[x] \in Nat /\ f[x] <= g[x]
    OBVIOUS
  <2>2. 1..f[x] \subseteq 1..g[x]
    BY <2>1
  <2> QED  BY <2>2 DEF UnitsOf
<1>2. Units(f) \in SUBSET Units(g)
  BY <1>1 DEF Units
<1>3. IsFiniteSet(Units(g))
  BY UnitsFinite
<1> QED  BY <1>2, <1>3, FS_Subset DEF Total

-----------------------------------------------------------------------------
(* The contracts' transactions.                                            *)

\* A nonempty set of positions of a batch has a greatest element.
LEMMA GreatestPosition ==
  ASSUME NEW n \in Nat, NEW S \in SUBSET (1..n), S # {}
  PROVE  \E i \in S : \A j \in S : j <= i
<1> DEFINE T == {n - i : i \in S}
<1>0. PICK e \in S : TRUE
  OBVIOUS
<1>1. T \subseteq Nat /\ T # {}
  <2>1. \A i \in S : n - i \in Nat
    OBVIOUS
  <2>2. n - e \in T
    BY <1>0
  <2> QED  BY <2>1, <2>2
<1>2. PICK m \in T : \A k \in T : ~(<<k, m>> \in OpToRel(<, Nat))
  BY <1>1, NatLessThanWellFounded, WFMin, Zenon
<1>3. \A k \in T : ~(k < m)
  BY <1>1, <1>2 DEF OpToRel
<1>4. PICK i \in S : m = n - i
  OBVIOUS
<1>5. \A j \in S : j <= i
  BY <1>3, <1>4
<1> QED  BY <1>5

\* What a batch writes are records of its own entries or the old ones.
LEMMA SetStatusesType ==
  ASSUME RegistryTypeOK, NEW n \in Nat, NEW batch \in [1..n -> StatusUpdates],
         setStatuses(batch)
  PROVE  RegistryTypeOK'
<1>1. ASSUME NEW a \in Accounts, positionsOf(batch, a) # {}
      PROVE  lastPosition(batch, a) \in positionsOf(batch, a)
  <2>1. positionsOf(batch, a) \in SUBSET (1..n)
    BY DEF positionsOf
  <2>2. \E i \in positionsOf(batch, a) : \A j \in positionsOf(batch, a) : j <= i
    BY <1>1, <2>1, GreatestPosition
  <2> QED  BY <2>2 DEF lastPosition
<1>2. \A a \in Accounts : positionsOf(batch, a) # {}
        => recordOf(batch[lastPosition(batch, a)]) \in ComplianceRecord
  BY <1>1, RegistryAssumption DEF positionsOf, recordOf, StatusUpdate, ComplianceRecord
<1> QED  BY <1>2 DEF setStatuses, RegistryTypeOK

LEMMA RegistryType ==
  ASSUME RegistryTypeOK, RegistryNext \/ Tick
  PROVE  RegistryTypeOK'
<1>1. CASE \E u \in StatusUpdates : setStatus(u)
  BY <1>1, RegistryAssumption
  DEF RegistryTypeOK, setStatus, recordOf, StatusUpdate, ComplianceRecord
<1>2. CASE \E n \in 2..MaxBatch : \E batch \in [1..n -> StatusUpdates] : setStatuses(batch)
  BY <1>2, SetStatusesType, RegistryAssumption
<1>3. CASE Tick
  BY <1>3 DEF Tick, RegistryTypeOK
<1> QED  BY <1>1, <1>2, <1>3 DEF RegistryNext
-----------------------------------------------------------------------------
(* The tokens.                                                             *)

LEMMA MovedType ==
  ASSUME NEW f \in [Accounts -> Nat], NEW from \in Accounts, NEW to \in Accounts,
         NEW value \in Nat, value <= f[from]
  PROVE  /\ Moved(f, from, to, value) \in [Accounts -> Nat]
         /\ from # to => /\ Moved(f, from, to, value)[from] = f[from] - value
                         /\ Moved(f, from, to, value)[to] = f[to] + value
         /\ from = to => Moved(f, from, to, value) = f
         /\ \A a \in Accounts \ {from, to} : Moved(f, from, to, value)[a] = f[a]
<1> DEFINE g == [f EXCEPT ![from] = @ - value]
<1>1. g \in [Accounts -> Nat] /\ g[from] = f[from] - value
  OBVIOUS
<1>2. \A a \in Accounts \ {from} : g[a] = f[a]
  OBVIOUS
<1>3. Moved(f, from, to, value) = [g EXCEPT ![to] = g[to] + value]
  BY DEF Moved
<1> HIDE DEF g
<1>4. CASE from # to
  BY <1>1, <1>2, <1>3, <1>4
<1>5. CASE from = to
  BY <1>1, <1>2, <1>3, <1>5
<1> QED  BY <1>4, <1>5

\* Unfrozen tokens are tokens.
LEMMA UnfrozenType ==
  ASSUME TokenTypeOK, NEW a \in Accounts
  PROVE  unfrozen(a) \in Nat /\ unfrozen(a) <= balance[a]
BY DEF TokenTypeOK, unfrozen

LEMMA UpdateType ==
  ASSUME TokenTypeOK, NEW from \in Accounts, NEW to \in Accounts, NEW value \in Nat,
         update(from, to, value)
  PROVE  value <= balance[from] /\ balance' \in [Accounts -> Nat]
<1>1. value <= balance[from]
  BY UnfrozenType DEF update, updatable, TokenTypeOK
<1> QED  BY <1>1, MovedType DEF update, TokenTypeOK

LEMMA SeizureType ==
  ASSUME TokenTypeOK, NEW from \in Accounts, NEW amount \in Nat, amount <= balance[from]
  PROVE  frozenAfterSeizure(from, amount) \in Nat
BY DEF TokenTypeOK, unfrozen, frozenAfterSeizure

LEMMA TokenType ==
  ASSUME TokenTypeOK, TokenNext
  PROVE  TokenTypeOK'
<1> USE TokenAssumption
<1>1. ASSUME NEW from \in Holders, NEW to \in Accounts, NEW value \in Amounts,
             transfer(from, to, value)
      PROVE  TokenTypeOK'
  <2>1. from \in Accounts /\ value \in Nat
    BY DEF Holders
  <2>2. balance' \in [Accounts -> Nat]
    BY <1>1, <2>1, UpdateType DEF transfer
  <2> QED  BY <1>1, <2>2 DEF transfer, TokenTypeOK
<1>2. CASE pause \/ unpause
  BY <1>2 DEF pause, unpause, TokenTypeOK
<1>3. CASE \E f \in Freezes : setFrozenTokens(f[1], f[2])
  BY <1>3 DEF setFrozenTokens, TokenTypeOK
<1>4. ASSUME NEW from \in Accounts, NEW to \in Accounts, NEW amount \in Amounts,
             forcedTransfer(from, to, amount)
      PROVE  TokenTypeOK'
  <2>1. frozenAfterSeizure(from, amount) \in Nat
    BY <1>4, SeizureType DEF forcedTransfer
  <2>2. balance' \in [Accounts -> Nat]
    BY <1>4, MovedType DEF forcedTransfer, TokenTypeOK
  <2> QED  BY <1>4, <2>1, <2>2 DEF forcedTransfer, TokenTypeOK
<1> QED  BY <1>1, <1>2, <1>3, <1>4 DEF TokenNext

\* A checked transfer moves exactly its value, and takes from nobody else.
LEMMA CheckedTransfer ==
  ASSUME QuoteTypeOK, NEW from \in Accounts, NEW to \in Accounts, NEW value \in Nat,
         checkedQuoteTransfer(from, to, value)
  PROVE  /\ QuoteTypeOK'
         /\ value <= quote[from]
         /\ \A a \in Accounts \ {from} : quote'[a] >= quote[a]
         /\ quote'[from] >= quote[from] - value
         /\ from # to => quote' = Moved(quote, from, to, value)
<1>1. PICK fee \in QuoteFees :
        /\ fee <= value
        /\ value <= quote[from]
        /\ quote' = [[quote EXCEPT ![from] = @ - value] EXCEPT ![to] = @ + (value - fee)]
  BY DEF checkedQuoteTransfer, quoteTransfer
<1>2. fee \in Nat
  BY QuoteAssumption
<1>3. CASE from = to
  <2>1. quote'[from] = quote[from] - value + (value - fee)
    BY <1>1, <1>3 DEF QuoteTypeOK
  <2>2. value = 0 /\ fee = 0
    BY <1>1, <1>2, <1>3, <2>1 DEF QuoteTypeOK, checkedQuoteTransfer
  <2> QED  BY <1>1, <1>3, <2>2 DEF QuoteTypeOK
<1>4. CASE from # to
  <2>1. quote'[to] = quote[to] + (value - fee)
    BY <1>1, <1>4 DEF QuoteTypeOK
  <2>2. fee = 0
    BY <1>1, <1>2, <2>1 DEF QuoteTypeOK, checkedQuoteTransfer
  <2> QED  BY <1>1, <1>2, <1>4, <2>2 DEF QuoteTypeOK, Moved
<1> QED  BY <1>3, <1>4

\* Holders' own transfers take from nobody else.
LEMMA QuoteType ==
  ASSUME QuoteTypeOK, QuoteNext
  PROVE  QuoteTypeOK' /\ \A a \in Contracts : quote'[a] >= quote[a]
<1>1. PICK p \in Payments : quoteTransfer(p[1], p[2], p[3])
  BY DEF QuoteNext
<1>2. p[1] \in Holders /\ p[2] \in Accounts /\ p[3] \in Nat
  BY QuoteAssumption
<1>3. PICK fee \in QuoteFees :
        /\ fee <= p[3]
        /\ p[3] <= quote[p[1]]
        /\ quote' = [[quote EXCEPT ![p[1]] = @ - p[3]] EXCEPT ![p[2]] = @ + (p[3] - fee)]
  BY <1>1 DEF quoteTransfer
<1>4. fee \in Nat /\ p[1] \in Accounts /\ p[1] \notin Contracts /\ Contracts \subseteq Accounts
  BY <1>2, QuoteAssumption, TokenAssumption DEF Holders
<1> QED  BY <1>2, <1>3, <1>4 DEF QuoteTypeOK
-----------------------------------------------------------------------------
(* The other contracts.                                                    *)

LEMMA SystemAccounts ==
  /\ VaultAddr \in Accounts /\ EscrowAddr \in Accounts /\ DistributorAddr \in Accounts
  /\ VaultAddr \in Contracts /\ EscrowAddr \in Contracts /\ DistributorAddr \in Contracts
  /\ VaultAddr # EscrowAddr /\ DistributorAddr \notin {VaultAddr, EscrowAddr}
  /\ Holders \subseteq Accounts /\ Holders \cap Contracts = {}
  /\ Amounts \subseteq Nat
BY RegistryAssumption, TokenAssumption, IncomeAssumption DEF SystemAddresses, Holders

\* The supply stays a natural number only because the Vault never holds more.
LEMMA SupplyType ==
  ASSUME TokenTypeOK, SupplyTypeOK, balance[VaultAddr] <= totalSupply, SupplyNext
  PROVE  TokenTypeOK' /\ SupplyTypeOK'
<1> USE SystemAccounts
<1>1. ASSUME NEW a \in Attestations, mint(a)
      PROVE  TokenTypeOK' /\ SupplyTypeOK'
  <2>1. a.amount \in Nat /\ a.nonce \in Nat /\ a.key \in STRING
    BY SupplyAssumption DEF Attestation
  <2>2. TokenTypeOK'
    BY <1>1, <2>1 DEF mint, controllerMint, TokenTypeOK
  <2>3. SupplyTypeOK'
    BY <1>1, <2>1 DEF mint, SupplyTypeOK
  <2> QED  BY <2>2, <2>3
<1>2. ASSUME NEW a \in Attestations, burn(a)
      PROVE  TokenTypeOK' /\ SupplyTypeOK'
  <2>1. a.amount \in Nat /\ a.nonce \in Nat /\ a.key \in STRING
    BY SupplyAssumption DEF Attestation
  <2>2. TokenTypeOK'
    BY <1>2, <2>1 DEF burn, controllerBurn, TokenTypeOK
  <2>3. SupplyTypeOK'
    BY <1>2, <2>1 DEF burn, SupplyTypeOK
  <2> QED  BY <2>2, <2>3
<1>3. CASE \E newAuditor \in Auditors : setAuditor(newAuditor)
  BY <1>3 DEF setAuditor, tokenVars, TokenTypeOK, SupplyTypeOK
<1> QED  BY <1>1, <1>2, <1>3 DEF SupplyNext

LEMMA PriceType ==
  ASSUME PriceTypeOK, PriceNext
  PROVE  PriceTypeOK'
BY PriceAssumption DEF PriceNext, setPurchasePrice, setRedemptionPrice, PriceTypeOK

\* A rounded price of a whole number of units is a whole number.
LEMMA QuotesType ==
  ASSUME PriceTypeOK, NEW s \in Strategies, NEW amount \in Nat
  PROVE  quotePurchase(s, amount) \in Nat /\ quoteRedemption(s, amount) \in Nat
<1>1. PriceUnit \in Nat /\ PriceUnit > 0 /\ purchasePrice[s] \in Nat /\ redemptionPrice[s] \in Nat
  BY PriceAssumption DEF PriceTypeOK
<1>2. amount * purchasePrice[s] \in Nat /\ amount * redemptionPrice[s] \in Nat
  BY <1>1
<1>3. ASSUME NEW n \in Nat PROVE n \div PriceUnit \in Nat
  BY <1>1
<1>4. amount * purchasePrice[s] + PriceUnit - 1 \in Nat
  BY <1>1, <1>2
<1> QED  BY <1>2, <1>3, <1>4 DEF quotePurchase, quoteRedemption

LEMMA VaultType ==
  ASSUME TokenTypeOK, QuoteTypeOK, PriceTypeOK, VaultTypeOK, VaultNext
  PROVE  TokenTypeOK' /\ QuoteTypeOK' /\ VaultTypeOK'
<1> USE SystemAccounts
<1>1. ASSUME NEW buyer \in Holders, NEW recipient \in Accounts, NEW amount \in Amounts,
             NEW limit, NEW deadline, buy(buyer, amount, limit, recipient, deadline)
      PROVE  TokenTypeOK' /\ QuoteTypeOK' /\ VaultTypeOK'
  <2>1. quotePurchase(strategy, amount) \in Nat
    BY QuotesType DEF VaultTypeOK
  <2>2. QuoteTypeOK'
    BY <1>1, <2>1, CheckedTransfer DEF buy
  <2>3. balance' \in [Accounts -> Nat]
    BY <1>1, UpdateType DEF buy
  <2> QED  BY <1>1, <2>2, <2>3 DEF buy, vaultVars, TokenTypeOK, VaultTypeOK
<1>2. ASSUME NEW amount \in Amounts, withdrawProceeds(amount)
      PROVE  TokenTypeOK' /\ QuoteTypeOK' /\ VaultTypeOK'
  <2>1. QuoteTypeOK'
    BY <1>2, CheckedTransfer DEF withdrawProceeds, VaultTypeOK
  <2> QED  BY <1>2, <2>1 DEF withdrawProceeds, tokenVars, vaultVars, TokenTypeOK, VaultTypeOK
<1>3. CASE \E s \in Strategies : setStrategy(s)
  BY <1>3 DEF setStrategy, tokenVars, TokenTypeOK, QuoteTypeOK, VaultTypeOK
<1>4. CASE \E t \in Treasuries : setTreasury(t)
  BY <1>4, VaultAssumption DEF setTreasury, tokenVars, TokenTypeOK, QuoteTypeOK, VaultTypeOK
<1>5. CASE \E m \in Minimums : setMinPurchaseQuote(m)
  BY <1>5, VaultAssumption
  DEF setMinPurchaseQuote, tokenVars, TokenTypeOK, QuoteTypeOK, VaultTypeOK
<1> QED  BY <1>1, <1>2, <1>3, <1>4, <1>5 DEF VaultNext

\* A request that is not None has an account as its beneficiary.
HasBeneficiary ==
  \A id \in RequestIds : requests[id].status # "None" => requests[id].beneficiary \in Holders

\* The ids from nextId on have never been used.
FreshRequests == \A id \in RequestIds : id >= nextId => requests[id] = NoRequest

EscrowInv == EscrowTypeOK /\ HasBeneficiary /\ FreshRequests

\* What moving a request to another stage keeps.
LEMMA StageKept ==
  ASSUME EscrowInv, NEW id \in RequestIds, NEW status \in RedemptionStatus \ {"None"},
         requests[id].status # "None", UNCHANGED nextId,
         requests' = [requests EXCEPT ![id].status = status]
  PROVE  EscrowInv'
<1>1. EscrowTypeOK'
  BY DEF EscrowInv, EscrowTypeOK, RedemptionRequest
<1>2. id < nextId
  BY EscrowAssumption DEF EscrowInv, EscrowTypeOK, FreshRequests, NoRequest, RequestIds
<1>3. \A i \in RequestIds \ {id} : requests'[i] = requests[i]
  BY DEF EscrowInv, EscrowTypeOK
<1>4. requests'[id].beneficiary = requests[id].beneficiary
  BY DEF EscrowInv, EscrowTypeOK, RedemptionRequest
<1>5. HasBeneficiary'
  BY <1>3, <1>4 DEF EscrowInv, HasBeneficiary
<1>6. FreshRequests'
  BY <1>2, <1>3, EscrowAssumption DEF EscrowInv, EscrowTypeOK, FreshRequests, RequestIds
<1> QED  BY <1>1, <1>5, <1>6 DEF EscrowInv

LEMMA RequestType ==
  ASSUME TokenTypeOK, PriceTypeOK, VaultTypeOK, EscrowInv, now \in Nat,
         NEW caller \in Holders, NEW amount \in Amounts, NEW limit, NEW deadline,
         requestRedemption(caller, amount, limit, deadline)
  PROVE  TokenTypeOK' /\ EscrowInv'
<1> USE SystemAccounts, EscrowAssumption
<1> DEFINE r == [beneficiary |-> caller, rwaAmount |-> amount,
                 quoteAmount |-> quoteRedemption(strategy, amount), createdAt |-> now,
                 status |-> "Pending"]
<1>1. r \in RedemptionRequest /\ r.status = "Pending" /\ r.beneficiary = caller
  BY QuotesType DEF VaultTypeOK, RedemptionRequest, RedemptionStatus
<1>2. nextId \in RequestIds /\ nextId \in Nat /\ nextId' = nextId + 1 /\ nextId' \in 0..MaxRequests
  BY DEF requestRedemption, EscrowInv, EscrowTypeOK, RequestIds
<1>3. requests' = [requests EXCEPT ![nextId] = r]
  BY DEF requestRedemption
<1> HIDE DEF r
<1>4. EscrowTypeOK'
  BY <1>1, <1>2, <1>3 DEF EscrowInv, EscrowTypeOK
<1>5. /\ requests'[nextId] = r
      /\ \A i \in RequestIds \ {nextId} : requests'[i] = requests[i]
  BY <1>2, <1>3 DEF EscrowInv, EscrowTypeOK
<1>6. HasBeneficiary'
  BY <1>1, <1>5 DEF EscrowInv, HasBeneficiary
<1>7. FreshRequests'
  BY <1>2, <1>5 DEF EscrowInv, FreshRequests, RequestIds
<1>8. TokenTypeOK'
  BY UpdateType DEF requestRedemption, TokenTypeOK
<1> QED  BY <1>4, <1>6, <1>7, <1>8 DEF EscrowInv

\* Returning escrowed tokens to an account.
LEMMA ReturnType ==
  ASSUME TokenTypeOK, NEW to \in Accounts, NEW value \in Nat, returnEscrowedRWA(to, value)
  PROVE  value <= balance[EscrowAddr] /\ balance' \in [Accounts -> Nat]
BY SystemAccounts, MovedType DEF returnEscrowedRWA, returnable, TokenTypeOK

LEMMA EscrowType ==
  ASSUME RegistryTypeOK, TokenTypeOK, QuoteTypeOK, PriceTypeOK, VaultTypeOK, EscrowInv,
         EscrowNext
  PROVE  TokenTypeOK' /\ QuoteTypeOK' /\ EscrowInv'
<1> USE SystemAccounts
<1>1. ASSUME NEW caller \in Holders, NEW amount \in Amounts, NEW limit, NEW deadline,
             requestRedemption(caller, amount, limit, deadline)
      PROVE  TokenTypeOK' /\ QuoteTypeOK' /\ EscrowInv'
  <2>1. TokenTypeOK' /\ EscrowInv'
    BY <1>1, RequestType DEF RegistryTypeOK
  <2> QED  BY <1>1, <2>1 DEF requestRedemption, QuoteTypeOK
<1>2. ASSUME NEW id \in RequestIds, fundRedemption(id)
      PROVE  TokenTypeOK' /\ QuoteTypeOK' /\ EscrowInv'
  <2>1. EscrowInv'
    BY <1>2, StageKept DEF fundRedemption, RedemptionStatus
  <2>2. requests[id].quoteAmount \in Nat
    BY DEF EscrowInv, EscrowTypeOK, RedemptionRequest
  <2>3. QuoteTypeOK'
    BY <1>2, <2>2, CheckedTransfer, EscrowAssumption DEF fundRedemption
  <2> QED  BY <1>2, <2>1, <2>3 DEF fundRedemption, tokenVars, TokenTypeOK
<1>3. ASSUME NEW id \in RequestIds, rejectRedemption(id)
      PROVE  TokenTypeOK' /\ QuoteTypeOK' /\ EscrowInv'
  <2>1. EscrowInv'
    BY <1>3, StageKept DEF rejectRedemption, rejectable, RedemptionStatus
  <2>2. requests[id].rwaAmount \in Nat /\ requests[id].beneficiary \in Accounts
    BY <1>3 DEF EscrowInv, EscrowTypeOK, HasBeneficiary, RedemptionRequest, rejectRedemption,
                rejectable
  <2>3. balance' \in [Accounts -> Nat]
    BY <1>3, <2>2, UpdateType DEF rejectRedemption
  <2> QED  BY <1>3, <2>1, <2>3 DEF rejectRedemption, TokenTypeOK, QuoteTypeOK
<1>4. ASSUME NEW id \in RequestIds, NEW caller \in Holders, cancelRedemption(id, caller)
      PROVE  TokenTypeOK' /\ QuoteTypeOK' /\ EscrowInv'
  <2>1. EscrowInv'
    BY <1>4, StageKept DEF cancelRedemption, cancellable, RedemptionStatus
  <2>2. requests[id].rwaAmount \in Nat /\ requests[id].beneficiary \in Accounts
    BY <1>4 DEF EscrowInv, EscrowTypeOK, HasBeneficiary, RedemptionRequest, cancelRedemption,
                cancellable
  <2>3. balance' \in [Accounts -> Nat]
    BY <1>4, <2>2, ReturnType DEF cancelRedemption
  <2> QED  BY <1>4, <2>1, <2>3 DEF cancelRedemption, TokenTypeOK, QuoteTypeOK
<1>5. ASSUME NEW id \in RequestIds, claimRedemption(id)
      PROVE  TokenTypeOK' /\ QuoteTypeOK' /\ EscrowInv'
  <2>1. EscrowInv'
    BY <1>5, StageKept DEF claimRedemption, RedemptionStatus
  <2>2. /\ requests[id].rwaAmount \in Nat /\ requests[id].quoteAmount \in Nat
        /\ requests[id].beneficiary \in Accounts
    BY <1>5 DEF EscrowInv, EscrowTypeOK, HasBeneficiary, RedemptionRequest, claimRedemption
  <2>3. balance' \in [Accounts -> Nat]
    BY <1>5, <2>2, ReturnType DEF claimRedemption
  <2>4. QuoteTypeOK'
    BY <1>5, <2>2, CheckedTransfer DEF claimRedemption
  <2> QED  BY <1>5, <2>1, <2>3, <2>4 DEF claimRedemption, TokenTypeOK
<1> QED  BY <1>1, <1>2, <1>3, <1>4, <1>5 DEF EscrowNext
-----------------------------------------------------------------------------
(* The income distributor.                                                 *)

\* The ids from nextDistribution on have never been used.
FreshDistributions ==
  \A id \in DistributionIds : id >= nextDistribution => distributions[id] = NoDistribution

\* No distribution has paid more than was deposited for it.
NotOverpaid ==
  \A id \in DistributionIds : distributions[id].claimed <= distributions[id].total

IncomeInv == IncomeTypeOK /\ FreshDistributions /\ NotOverpaid

\* What replacing one used distribution keeps.
LEMMA DistributionKept ==
  ASSUME IncomeInv, NEW id \in DistributionIds, NEW d \in Distribution,
         d.claimed <= d.total, id < nextDistribution, UNCHANGED nextDistribution,
         incomeClaimed' \in [DistributionIds -> SUBSET Accounts],
         distributions' = [distributions EXCEPT ![id] = d]
  PROVE  IncomeInv'
<1>1. distributions'[id] = d /\ \A i \in DistributionIds \ {id} : distributions'[i] = distributions[i]
  BY DEF IncomeInv, IncomeTypeOK
<1>2. IncomeTypeOK'
  BY DEF IncomeInv, IncomeTypeOK
<1>3. FreshDistributions'
  BY <1>1, IncomeAssumption DEF IncomeInv, IncomeTypeOK, FreshDistributions, DistributionIds
<1>4. NotOverpaid'
  BY <1>1 DEF IncomeInv, NotOverpaid
<1> QED  BY <1>2, <1>3, <1>4 DEF IncomeInv

LEMMA CreateKeeps ==
  ASSUME TokenTypeOK, QuoteTypeOK, VaultTypeOK, IncomeInv, now \in Nat,
         NEW root \in Roots, NEW total \in Amounts, NEW deadline \in 1..MaxDeadline,
         createDistribution(root, total, deadline)
  PROVE  TokenTypeOK' /\ QuoteTypeOK' /\ VaultTypeOK' /\ IncomeInv'
<1> USE SystemAccounts, IncomeAssumption
<1> DEFINE d == [merkleRoot |-> root, total |-> total, claimed |-> 0,
                 claimDeadline |-> deadline, reclaimed |-> FALSE]
<1>1. d \in Distribution /\ d.claimed <= d.total
  BY DEF Distribution
<1>2. /\ nextDistribution \in DistributionIds /\ nextDistribution \in Nat
      /\ nextDistribution' = nextDistribution + 1 /\ nextDistribution' \in 0..MaxDistributions
  BY DEF createDistribution, IncomeInv, IncomeTypeOK, DistributionIds
<1>3. distributions' = [distributions EXCEPT ![nextDistribution] = d]
  BY DEF createDistribution
<1> HIDE DEF d
<1>4. /\ distributions'[nextDistribution] = d
      /\ \A i \in DistributionIds \ {nextDistribution} : distributions'[i] = distributions[i]
  BY <1>2, <1>3 DEF IncomeInv, IncomeTypeOK
<1>5. IncomeTypeOK'
  BY <1>1, <1>2, <1>3 DEF IncomeInv, IncomeTypeOK, createDistribution
<1>6. FreshDistributions'
  BY <1>2, <1>4 DEF IncomeInv, FreshDistributions, DistributionIds
<1>7. NotOverpaid'
  BY <1>1, <1>4 DEF IncomeInv, NotOverpaid
<1>8. QuoteTypeOK'
  BY CheckedTransfer DEF createDistribution
<1>9. TokenTypeOK' /\ VaultTypeOK'
  BY DEF createDistribution, tokenVars, vaultVars, TokenTypeOK, VaultTypeOK
<1> QED  BY <1>5, <1>6, <1>7, <1>8, <1>9 DEF IncomeInv

LEMMA ClaimKeeps ==
  ASSUME TokenTypeOK, QuoteTypeOK, VaultTypeOK, IncomeInv,
         NEW id \in DistributionIds, NEW caller \in Holders, NEW amount \in Amounts,
         claim(id, caller, amount)
  PROVE  TokenTypeOK' /\ QuoteTypeOK' /\ VaultTypeOK' /\ IncomeInv'
<1> USE SystemAccounts
<1> DEFINE d == [distributions[id] EXCEPT !.claimed = @ + amount]
<1>1. d \in Distribution /\ d.claimed <= d.total
  BY DEF claim, IncomeInv, IncomeTypeOK, Distribution
<1>2. distributions' = [distributions EXCEPT ![id] = d]
  BY DEF claim
<1>3. incomeClaimed' \in [DistributionIds -> SUBSET Accounts]
  BY DEF claim, IncomeInv, IncomeTypeOK
<1> HIDE DEF d
<1>4. id < nextDistribution /\ UNCHANGED nextDistribution
  BY DEF claim
<1>5. IncomeInv'
  BY <1>1, <1>2, <1>3, <1>4, DistributionKept
<1>6. QuoteTypeOK'
  BY CheckedTransfer DEF claim
<1>7. TokenTypeOK' /\ VaultTypeOK'
  BY DEF claim, tokenVars, vaultVars, TokenTypeOK, VaultTypeOK
<1> QED  BY <1>5, <1>6, <1>7

LEMMA ExtendKeeps ==
  ASSUME TokenTypeOK, QuoteTypeOK, VaultTypeOK, IncomeInv,
         NEW id \in DistributionIds, NEW deadline \in Nat, extendClaimDeadline(id, deadline)
  PROVE  TokenTypeOK' /\ QuoteTypeOK' /\ VaultTypeOK' /\ IncomeInv'
<1> DEFINE d == [distributions[id] EXCEPT !.claimDeadline = deadline]
<1>1. d \in Distribution /\ d.claimed <= d.total
  BY DEF IncomeInv, IncomeTypeOK, NotOverpaid, Distribution
<1>2. distributions' = [distributions EXCEPT ![id] = d]
  BY DEF extendClaimDeadline
<1> HIDE DEF d
<1>3. /\ incomeClaimed' \in [DistributionIds -> SUBSET Accounts]
      /\ id < nextDistribution /\ UNCHANGED nextDistribution
  BY DEF extendClaimDeadline, IncomeInv, IncomeTypeOK
<1>4. IncomeInv'
  BY <1>1, <1>2, <1>3, DistributionKept
<1> QED  BY <1>4 DEF extendClaimDeadline, tokenVars, vaultVars, TokenTypeOK, QuoteTypeOK, VaultTypeOK

LEMMA ReclaimKeeps ==
  ASSUME TokenTypeOK, QuoteTypeOK, VaultTypeOK, IncomeInv,
         NEW id \in DistributionIds, reclaimUnclaimed(id)
  PROVE  TokenTypeOK' /\ QuoteTypeOK' /\ VaultTypeOK' /\ IncomeInv'
<1> USE SystemAccounts
<1> DEFINE d == [distributions[id] EXCEPT !.reclaimed = TRUE]
<1>1. d \in Distribution /\ d.claimed <= d.total /\ remainder(id) \in Nat
  <2>1. distributions[id] \in Distribution
    BY DEF IncomeInv, IncomeTypeOK
  <2>2. /\ distributions[id].claimed <= distributions[id].total
        /\ distributions[id].claimed \in Nat /\ distributions[id].total \in Nat
    BY <2>1 DEF IncomeInv, NotOverpaid, Distribution
  <2>3. d \in Distribution
    BY <2>1 DEF Distribution
  <2>4. d.claimed = distributions[id].claimed /\ d.total = distributions[id].total
    BY <2>1 DEF Distribution
  <2> QED  BY <2>2, <2>3, <2>4 DEF remainder
<1>2. distributions' = [distributions EXCEPT ![id] = d]
  BY DEF reclaimUnclaimed
<1> HIDE DEF d
<1>3. /\ incomeClaimed' \in [DistributionIds -> SUBSET Accounts]
      /\ id < nextDistribution /\ UNCHANGED nextDistribution
  BY DEF reclaimUnclaimed, IncomeInv, IncomeTypeOK
<1>4. IncomeInv'
  BY <1>1, <1>2, <1>3, DistributionKept
<1>5. QuoteTypeOK'
  BY <1>1, CheckedTransfer DEF reclaimUnclaimed, VaultTypeOK, QuoteTypeOK
<1> QED  BY <1>4, <1>5 DEF reclaimUnclaimed, tokenVars, vaultVars, TokenTypeOK, VaultTypeOK

LEMMA IncomeType ==
  ASSUME RegistryTypeOK, TokenTypeOK, QuoteTypeOK, VaultTypeOK, IncomeInv, IncomeNext
  PROVE  TokenTypeOK' /\ QuoteTypeOK' /\ VaultTypeOK' /\ IncomeInv'
BY CreateKeeps, ClaimKeeps, ExtendKeeps, ReclaimKeeps, IncomeAssumption
DEF IncomeNext, RegistryTypeOK

-----------------------------------------------------------------------------
(* Conservation of the supply, and types.                                  *)

\* The supply is needed for the types: a burn subtracts from it.
Base ==
  /\ TypeOK
  /\ SupplyConserved
  /\ HasBeneficiary /\ FreshRequests
  /\ FreshDistributions /\ NotOverpaid

\* Moving tokens between accounts does not change their sum.
LEMMA MovedTotal ==
  ASSUME NEW f \in [Accounts -> Nat], NEW from \in Accounts, NEW to \in Accounts,
         NEW value \in Nat, value <= f[from]
  PROVE  Total(Moved(f, from, to, value)) = Total(f)
<1> DEFINE g == [f EXCEPT ![from] = f[from] - value]
<1>1. g \in [Accounts -> Nat] /\ f[from] - value \in Nat
  OBVIOUS
<1>2. g[from] = f[from] - value /\ \A a \in Accounts \ {from} : g[a] = f[a]
  OBVIOUS
<1> DEFINE h == Moved(f, from, to, value)
<1>3. h = [g EXCEPT ![to] = g[to] + value]
  BY DEF Moved
<1> HIDE DEF g, h
<1>4. Total(g) = Total(f) - f[from] + g[from]
  BY <1>1, <1>2, TotalChanged, ProjectAssumption
<1>5. h \in [Accounts -> Nat] /\ h[to] = g[to] + value
      /\ \A a \in Accounts \ {to} : h[a] = g[a]
  BY <1>1, <1>3
<1>6. Total(h) = Total(g) - g[to] + h[to]
  BY <1>1, <1>5, TotalChanged, ProjectAssumption
<1>7. Total(f) \in Nat /\ Total(g) \in Nat /\ g[to] \in Nat /\ f[from] \in Nat
  BY <1>1, TotalType, ProjectAssumption
<1>8. Total(h) = Total(f)
  BY <1>2, <1>4, <1>5, <1>6, <1>7
<1> QED  BY <1>8 DEF h

\* Nobody holds more than the supply.
LEMMA BalanceBound ==
  ASSUME TypeOK, SupplyConserved, NEW a \in Accounts
  PROVE  balance[a] <= totalSupply
BY TotalBound, ProjectAssumption DEF TypeOK, TokenTypeOK, SupplyConserved

\* A step moves tokens between two accounts, or is a mint or a burn, or
\* leaves the balances alone.
Transfers ==
  /\ UNCHANGED totalSupply
  /\ \E from, to \in Accounts, value \in Nat :
       value <= balance[from] /\ balance' = Moved(balance, from, to, value)

LEMMA UpdateTransfers ==
  ASSUME TokenTypeOK, NEW from \in Accounts, NEW to \in Accounts, NEW value \in Nat,
         update(from, to, value), UNCHANGED totalSupply
  PROVE  Transfers
<1>1. value <= balance[from] /\ balance' = Moved(balance, from, to, value)
  BY UpdateType DEF update
<1> QED  BY <1>1 DEF Transfers

LEMMA TokenMoves ==
  ASSUME Base, TokenNext
  PROVE  Transfers \/ UNCHANGED <<balance, totalSupply>>
<1> USE SystemAccounts DEF Base, TypeOK
<1>1. ASSUME NEW from \in Holders, NEW to \in Accounts, NEW value \in Amounts,
             transfer(from, to, value)
      PROVE  Transfers
  BY <1>1, UpdateTransfers DEF transfer
<1>2. ASSUME NEW from \in Accounts, NEW to \in Accounts, NEW amount \in Amounts,
             forcedTransfer(from, to, amount)
      PROVE  Transfers
  BY <1>2 DEF forcedTransfer, Transfers
<1> QED  BY <1>1, <1>2 DEF TokenNext, pause, unpause, setFrozenTokens

LEMMA VaultMoves ==
  ASSUME Base, VaultNext
  PROVE  Transfers \/ UNCHANGED <<balance, totalSupply>>
<1> USE SystemAccounts DEF Base, TypeOK
<1>1. ASSUME NEW buyer, NEW recipient \in Accounts, NEW amount \in Amounts,
             NEW limit, NEW deadline, buy(buyer, amount, limit, recipient, deadline)
      PROVE  Transfers
  BY <1>1, UpdateTransfers DEF buy
<1> QED  BY <1>1 DEF VaultNext, withdrawProceeds, setStrategy, setTreasury, setMinPurchaseQuote,
                     tokenVars

LEMMA EscrowMoves ==
  ASSUME Base, EscrowNext
  PROVE  Transfers \/ UNCHANGED <<balance, totalSupply>>
<1> USE SystemAccounts DEF Base, TypeOK
<1>0. ASSUME NEW id \in RequestIds
      PROVE  /\ requests[id].rwaAmount \in Nat
             /\ requests[id].status # "None" => requests[id].beneficiary \in Accounts
  BY DEF EscrowTypeOK, RedemptionRequest, HasBeneficiary
<1>1. ASSUME NEW caller \in Holders, NEW amount \in Amounts, NEW limit, NEW deadline,
             requestRedemption(caller, amount, limit, deadline)
      PROVE  Transfers
  BY <1>1, UpdateTransfers DEF requestRedemption
<1>2. ASSUME NEW id \in RequestIds, rejectRedemption(id)
      PROVE  Transfers
  BY <1>0, <1>2, UpdateTransfers DEF rejectRedemption, rejectable
<1>3. ASSUME NEW id \in RequestIds, NEW caller, cancelRedemption(id, caller)
      PROVE  Transfers
  BY <1>0, <1>3 DEF cancelRedemption, cancellable, returnEscrowedRWA, returnable, Transfers
<1>4. ASSUME NEW id \in RequestIds, claimRedemption(id)
      PROVE  Transfers
  BY <1>0, <1>4 DEF claimRedemption, returnEscrowedRWA, returnable, Transfers
<1> QED  BY <1>1, <1>2, <1>3, <1>4 DEF EscrowNext, fundRedemption, tokenVars

LEMMA SupplyMoves ==
  ASSUME Base, SupplyNext
  PROVE  SupplyConserved'
<1> USE SystemAccounts, ProjectAssumption DEF Base, TypeOK, TokenTypeOK
<1>1. ASSUME NEW a \in Attestations
      PROVE  a.amount \in Nat
  BY SupplyAssumption DEF Attestation
<1>2. Total(balance) \in Nat /\ balance[VaultAddr] \in Nat /\ Total(balance) = totalSupply
  BY TotalType DEF SupplyConserved
<1>3. ASSUME NEW a \in Attestations, mint(a)
      PROVE  SupplyConserved'
  <2>1. /\ balance' = [balance EXCEPT ![VaultAddr] = balance[VaultAddr] + a.amount]
        /\ totalSupply' = totalSupply + a.amount
    BY <1>3 DEF mint, controllerMint
  <2>2. /\ balance' \in [Accounts -> Nat] /\ balance'[VaultAddr] = balance[VaultAddr] + a.amount
        /\ \A c \in Accounts \ {VaultAddr} : balance'[c] = balance[c]
    BY <1>1, <1>2, <2>1
  <2>3. Total(balance') = Total(balance) - balance[VaultAddr] + balance'[VaultAddr]
    BY <2>2, TotalChanged
  <2> QED  BY <1>1, <1>2, <2>1, <2>2, <2>3 DEF SupplyConserved
<1>4. ASSUME NEW a \in Attestations, burn(a)
      PROVE  SupplyConserved'
  <2>1. /\ balance' = [balance EXCEPT ![VaultAddr] = balance[VaultAddr] - a.amount]
        /\ totalSupply' = totalSupply - a.amount
        /\ a.amount <= balance[VaultAddr]
    BY <1>4 DEF burn, controllerBurn
  <2>2. /\ balance' \in [Accounts -> Nat] /\ balance'[VaultAddr] = balance[VaultAddr] - a.amount
        /\ \A c \in Accounts \ {VaultAddr} : balance'[c] = balance[c]
    BY <1>1, <1>2, <2>1
  <2>3. Total(balance') = Total(balance) - balance[VaultAddr] + balance'[VaultAddr]
    BY <2>2, TotalChanged
  <2> QED  BY <1>1, <1>2, <2>1, <2>2, <2>3 DEF SupplyConserved
<1> QED  BY <1>3, <1>4 DEF SupplyNext, setAuditor, tokenVars, SupplyConserved

LEMMA TransferConserves ==
  ASSUME Base, Transfers \/ UNCHANGED <<balance, totalSupply>>
  PROVE  SupplyConserved'
<1>1. CASE Transfers
  BY <1>1, MovedTotal DEF Transfers, Base, TypeOK, TokenTypeOK, SupplyConserved
<1>2. CASE UNCHANGED <<balance, totalSupply>>
  BY <1>2 DEF Base, SupplyConserved
<1> QED  BY <1>1, <1>2

LEMMA BaseInit ==
  ASSUME Init
  PROVE  Base
<1> USE DEF Init
<1>1. RegistryTypeOK
  BY DEF RegistryInit, RegistryTypeOK, ComplianceRecord, Statuses
<1>2. TokenTypeOK /\ SupplyConserved
  BY TotalZero DEF TokenInit, TokenTypeOK, SupplyConserved
<1>3. QuoteTypeOK
  BY QuoteAssumption DEF QuoteInit, QuoteTypeOK
<1>4. SupplyTypeOK
  BY SupplyAssumption DEF SupplyInit, SupplyTypeOK
<1>5. PriceTypeOK
  BY PriceAssumption DEF PriceInit, PriceTypeOK
<1>6. VaultTypeOK
  BY VaultAssumption DEF VaultInit, VaultTypeOK
<1>7. EscrowTypeOK /\ HasBeneficiary /\ FreshRequests
  BY EscrowAssumption DEF EscrowInit, EscrowTypeOK, RedemptionRequest, RedemptionStatus,
                          NoRequest, HasBeneficiary, FreshRequests
<1>8. IncomeTypeOK /\ FreshDistributions /\ NotOverpaid
  <2>1. NoDistribution \in Distribution /\ NoDistribution.claimed <= NoDistribution.total
    BY DEF NoDistribution, Distribution
  <2> QED  BY <2>1, IncomeAssumption
           DEF IncomeInit, IncomeTypeOK, FreshDistributions, NotOverpaid
<1> QED  BY <1>1, <1>2, <1>3, <1>4, <1>5, <1>6, <1>7, <1>8 DEF Base, TypeOK

LEMMA BaseStep ==
  ASSUME Base, [Next]_vars
  PROVE  Base'
<1> USE DEF Base, TypeOK
<1>1. CASE RegistryStep
  <2>1. RegistryTypeOK'
    BY <1>1, RegistryType DEF RegistryStep
  <2> QED
    BY <1>1, <2>1
    DEF RegistryStep, tokenVars, supplyVars, priceVars, vaultVars, escrowVars, incomeVars,
        TokenTypeOK, QuoteTypeOK, SupplyTypeOK, PriceTypeOK, VaultTypeOK, EscrowTypeOK,
        IncomeTypeOK, SupplyConserved, HasBeneficiary, FreshRequests, FreshDistributions, NotOverpaid
<1>2. CASE TokenStep
  <2>1. TokenTypeOK' /\ SupplyConserved'
    BY <1>2, TokenType, TokenMoves, TransferConserves DEF TokenStep
  <2> QED
    BY <1>2, <2>1
    DEF TokenStep, registryVars, supplyVars, priceVars, vaultVars, escrowVars, incomeVars,
        RegistryTypeOK, QuoteTypeOK, SupplyTypeOK, PriceTypeOK, VaultTypeOK, EscrowTypeOK,
        IncomeTypeOK, HasBeneficiary, FreshRequests, FreshDistributions, NotOverpaid
<1>3. CASE QuoteStep
  <2>1. QuoteTypeOK'
    BY <1>3, QuoteType DEF QuoteStep
  <2> QED
    BY <1>3, <2>1
    DEF QuoteStep, registryVars, tokenVars, supplyVars, priceVars, vaultVars, escrowVars, incomeVars,
        RegistryTypeOK, TokenTypeOK, SupplyTypeOK, PriceTypeOK, VaultTypeOK, EscrowTypeOK,
        IncomeTypeOK, SupplyConserved, HasBeneficiary, FreshRequests, FreshDistributions, NotOverpaid
<1>4. CASE SupplyStep
  <2>1. TokenTypeOK' /\ SupplyTypeOK'
    BY <1>4, SupplyType, BalanceBound, SystemAccounts DEF SupplyStep
  <2>2. SupplyConserved'
    BY <1>4, SupplyMoves DEF SupplyStep
  <2> QED
    BY <1>4, <2>1, <2>2
    DEF SupplyStep, registryVars, priceVars, vaultVars, escrowVars, incomeVars,
        RegistryTypeOK, QuoteTypeOK, PriceTypeOK, VaultTypeOK, EscrowTypeOK,
        IncomeTypeOK, HasBeneficiary, FreshRequests, FreshDistributions, NotOverpaid
<1>5. CASE PriceStep
  <2>1. PriceTypeOK'
    BY <1>5, PriceType DEF PriceStep
  <2> QED
    BY <1>5, <2>1
    DEF PriceStep, registryVars, tokenVars, supplyVars, vaultVars, escrowVars, incomeVars,
        RegistryTypeOK, TokenTypeOK, QuoteTypeOK, SupplyTypeOK, VaultTypeOK, EscrowTypeOK,
        IncomeTypeOK, SupplyConserved, HasBeneficiary, FreshRequests, FreshDistributions, NotOverpaid
<1>6. CASE VaultStep
  <2>1. TokenTypeOK' /\ QuoteTypeOK' /\ VaultTypeOK'
    BY <1>6, VaultType DEF VaultStep
  <2>2. SupplyConserved'
    BY <1>6, VaultMoves, TransferConserves DEF VaultStep
  <2> QED
    BY <1>6, <2>1, <2>2
    DEF VaultStep, registryVars, supplyVars, priceVars, escrowVars, incomeVars,
        RegistryTypeOK, SupplyTypeOK, PriceTypeOK, EscrowTypeOK,
        IncomeTypeOK, HasBeneficiary, FreshRequests, FreshDistributions, NotOverpaid
<1>7. CASE EscrowStep
  <2>1. TokenTypeOK' /\ QuoteTypeOK' /\ EscrowInv'
    BY <1>7, EscrowType DEF EscrowStep, EscrowInv
  <2>2. SupplyConserved'
    BY <1>7, EscrowMoves, TransferConserves DEF EscrowStep
  <2> QED
    BY <1>7, <2>1, <2>2
    DEF EscrowStep, registryVars, supplyVars, priceVars, vaultVars, incomeVars, EscrowInv,
        RegistryTypeOK, SupplyTypeOK, PriceTypeOK, VaultTypeOK,
        IncomeTypeOK, FreshDistributions, NotOverpaid
<1>8. CASE IncomeStep
  <2>1. TokenTypeOK' /\ QuoteTypeOK' /\ VaultTypeOK' /\ IncomeInv'
    BY <1>8, IncomeType DEF IncomeStep, IncomeInv
  <2>2. UNCHANGED <<balance, totalSupply>>
    BY <1>8 DEF IncomeStep, IncomeNext, createDistribution, claim, extendClaimDeadline,
                reclaimUnclaimed, tokenVars
  <2>3. SupplyConserved'
    BY <2>2, TransferConserves
  <2> QED
    BY <1>8, <2>1, <2>3
    DEF IncomeStep, registryVars, supplyVars, priceVars, escrowVars, IncomeInv,
        RegistryTypeOK, SupplyTypeOK, PriceTypeOK, EscrowTypeOK,
        HasBeneficiary, FreshRequests
<1>9. CASE UNCHANGED vars
  BY <1>9
  DEF vars, RegistryTypeOK, TokenTypeOK, QuoteTypeOK, SupplyTypeOK, PriceTypeOK, VaultTypeOK,
      EscrowTypeOK, IncomeTypeOK, SupplyConserved, HasBeneficiary, FreshRequests,
      FreshDistributions, NotOverpaid
<1> QED  BY <1>1, <1>2, <1>3, <1>4, <1>5, <1>6, <1>7, <1>8, <1>9 DEF Next

\* The inductive invariant that the other theorems start from: the types, the
\* conserved supply, and what unused and used request and distribution slots hold.
THEOREM BaseInvariant == Spec => []Base
<1>1. Init => Base
  BY BaseInit
<1>2. Base /\ [Next]_vars => Base'
  BY BaseStep
<1> QED  BY <1>1, <1>2, PTL DEF Spec

\* Every variable of the project keeps its type, amounts and the supply as
\* natural numbers included: no subtraction of the contracts underflows.
THEOREM TypeCorrect == Spec => []TypeOK
<1>1. Base => TypeOK
  BY DEF Base
<1> QED  BY <1>1, BaseInvariant, PTL

\* The balances always add up to totalSupply, through every path on which
\* RWAToken changes either.
THEOREM SupplyStaysConserved == Spec => []SupplyConserved
<1>1. Base => SupplyConserved
  BY DEF Base
<1> QED  BY <1>1, BaseInvariant, PTL
-----------------------------------------------------------------------------
(* The escrow can pay what it owes.                                        *)

rwaDebts == [id \in RequestIds |-> rwaOwed(requests[id])]
quoteDebts == [id \in RequestIds |-> quoteOwed(requests[id])]

LEMMA RequestsFinite == IsFiniteSet(RequestIds)
BY FS_Interval, EscrowAssumption DEF RequestIds

\* When one request changes, the debts change by what it owes.
LEMMA DebtsChange ==
  ASSUME EscrowTypeOK, EscrowTypeOK', NEW id \in RequestIds,
         \A i \in RequestIds \ {id} : requests'[i] = requests[i]
  PROVE  /\ Total(rwaDebts)' = Total(rwaDebts) - rwaOwed(requests[id]) + rwaOwed(requests'[id])
         /\ Total(quoteDebts)' = Total(quoteDebts) - quoteOwed(requests[id]) + quoteOwed(requests'[id])
         /\ Total(rwaDebts) \in Nat /\ Total(quoteDebts) \in Nat
         /\ Total(rwaDebts)' \in Nat /\ Total(quoteDebts)' \in Nat
         /\ rwaOwed(requests[id]) \in Nat /\ quoteOwed(requests[id]) \in Nat
<1>1. /\ rwaDebts \in [RequestIds -> Nat] /\ quoteDebts \in [RequestIds -> Nat]
      /\ rwaDebts' \in [RequestIds -> Nat] /\ quoteDebts' \in [RequestIds -> Nat]
  BY DEF EscrowTypeOK, RedemptionRequest, rwaDebts, quoteDebts, rwaOwed, quoteOwed
<1>2. /\ \A i \in RequestIds : rwaDebts[i] = rwaOwed(requests[i]) /\ rwaDebts'[i] = rwaOwed(requests'[i])
      /\ \A i \in RequestIds : quoteDebts[i] = quoteOwed(requests[i]) /\ quoteDebts'[i] = quoteOwed(requests'[i])
  BY DEF rwaDebts, quoteDebts, rwaOwed, quoteOwed
<1>3. Total(rwaDebts') = Total(rwaDebts) - rwaDebts[id] + rwaDebts'[id]
  <2>1. \A i \in RequestIds \ {id} : rwaDebts'[i] = rwaDebts[i]
    BY <1>2
  <2> QED  BY <1>1, <2>1, RequestsFinite, TotalChanged
<1>4. Total(quoteDebts') = Total(quoteDebts) - quoteDebts[id] + quoteDebts'[id]
  <2>1. \A i \in RequestIds \ {id} : quoteDebts'[i] = quoteDebts[i]
    BY <1>2
  <2> QED  BY <1>1, <2>1, RequestsFinite, TotalChanged
<1>5. /\ Total(rwaDebts) \in Nat /\ Total(quoteDebts) \in Nat
      /\ Total(rwaDebts') \in Nat /\ Total(quoteDebts') \in Nat
  BY <1>1, RequestsFinite, TotalType
<1>6. Total(rwaDebts)' = Total(rwaDebts') /\ Total(quoteDebts)' = Total(quoteDebts')
  BY DEF Total, Units
<1> QED  BY <1>1, <1>2, <1>3, <1>4, <1>5, <1>6

\* EscrowBacked in terms of the debts.
LEMMA BackedByDebts ==
  /\ EscrowBacked <=> /\ Total(rwaDebts) <= balance[EscrowAddr]
                      /\ Total(quoteDebts) <= quote[EscrowAddr]
  /\ EscrowBacked' <=> /\ Total(rwaDebts)' <= balance'[EscrowAddr]
                       /\ Total(quoteDebts)' <= quote'[EscrowAddr]
BY DEF EscrowBacked, rwaDebts, quoteDebts

\* Where no request changes, nothing may leave the escrow.
LEMMA BackedElsewhere ==
  ASSUME Base, EscrowBacked, UNCHANGED requests, Base',
         balance'[EscrowAddr] >= balance[EscrowAddr], quote'[EscrowAddr] >= quote[EscrowAddr]
  PROVE  EscrowBacked'
<1>1. Total(rwaDebts)' = Total(rwaDebts) /\ Total(quoteDebts)' = Total(quoteDebts)
  BY DEF rwaDebts, quoteDebts
<1>2. rwaDebts \in [RequestIds -> Nat] /\ quoteDebts \in [RequestIds -> Nat]
  BY DEF Base, TypeOK, EscrowTypeOK, RedemptionRequest, rwaDebts, quoteDebts, rwaOwed, quoteOwed
<1>3. Total(rwaDebts) \in Nat /\ Total(quoteDebts) \in Nat
  BY <1>2, RequestsFinite, TotalType
<1>4. /\ balance[EscrowAddr] \in Nat /\ quote[EscrowAddr] \in Nat
      /\ balance'[EscrowAddr] \in Nat /\ quote'[EscrowAddr] \in Nat
  BY SystemAccounts DEF Base, TypeOK, TokenTypeOK, QuoteTypeOK
<1> QED  BY <1>1, <1>3, <1>4, BackedByDebts

\* Tokens that move from another account do not leave the escrow.
LEMMA MovedFromElsewhere ==
  ASSUME NEW f \in [Accounts -> Nat], NEW from \in Accounts, NEW to \in Accounts,
         NEW value \in Nat, value <= f[from], NEW a \in Accounts \ {from}
  PROVE  Moved(f, from, to, value)[a] >= f[a]
<1>1. CASE a = to
  BY <1>1, MovedType
<1>2. CASE a # to
  BY <1>2, MovedType
<1> QED  BY <1>1, <1>2

LEMMA BackedToken ==
  ASSUME Base, TokenNext
  PROVE  balance'[EscrowAddr] >= balance[EscrowAddr]
<1> USE SystemAccounts DEF Base, TypeOK
<1>1. ASSUME NEW from \in Holders, NEW to \in Accounts, NEW value \in Amounts,
             transfer(from, to, value)
      PROVE  balance'[EscrowAddr] >= balance[EscrowAddr]
  <2>1. value <= balance[from] /\ balance' = Moved(balance, from, to, value)
    BY <1>1, UpdateType DEF transfer, update
  <2>2. EscrowAddr \in Accounts \ {from}
    OBVIOUS
  <2> QED  BY <2>1, <2>2, MovedFromElsewhere DEF TokenTypeOK
<1>2. ASSUME NEW from \in Accounts, NEW to \in Accounts, NEW amount \in Amounts,
             forcedTransfer(from, to, amount)
      PROVE  balance'[EscrowAddr] >= balance[EscrowAddr]
  <2>1. amount <= balance[from] /\ balance' = Moved(balance, from, to, amount)
    BY <1>2 DEF forcedTransfer
  <2>2. EscrowAddr \in Accounts \ {from}
    BY <1>2 DEF forcedTransfer, SystemAddresses
  <2> QED  BY <2>1, <2>2, MovedFromElsewhere DEF TokenTypeOK
<1>3. CASE UNCHANGED balance
  BY <1>3 DEF TokenTypeOK
<1> QED  BY <1>1, <1>2, <1>3 DEF TokenNext, pause, unpause, setFrozenTokens

LEMMA BackedVault ==
  ASSUME Base, VaultNext
  PROVE  balance'[EscrowAddr] >= balance[EscrowAddr] /\ quote'[EscrowAddr] >= quote[EscrowAddr]
<1> USE SystemAccounts DEF Base, TypeOK
<1>0. balance[EscrowAddr] \in Nat /\ quote[EscrowAddr] \in Nat
  BY DEF TokenTypeOK, QuoteTypeOK
<1>1. ASSUME NEW buyer \in Holders, NEW recipient \in Accounts, NEW amount \in Amounts,
             NEW limit, NEW deadline, buy(buyer, amount, limit, recipient, deadline)
      PROVE  balance'[EscrowAddr] >= balance[EscrowAddr] /\ quote'[EscrowAddr] >= quote[EscrowAddr]
  <2>1. amount <= balance[VaultAddr] /\ balance' = Moved(balance, VaultAddr, recipient, amount)
    BY <1>1, UpdateType DEF buy, update
  <2>2. EscrowAddr \in Accounts \ {VaultAddr} /\ EscrowAddr \in Accounts \ {buyer}
    OBVIOUS
  <2>3. balance'[EscrowAddr] >= balance[EscrowAddr]
    BY <2>1, <2>2, MovedFromElsewhere DEF TokenTypeOK
  <2>4. quotePurchase(strategy, amount) \in Nat
    BY QuotesType DEF VaultTypeOK
  <2>5. quote'[EscrowAddr] >= quote[EscrowAddr]
    BY <1>1, <2>2, <2>4, CheckedTransfer DEF buy
  <2> QED  BY <2>3, <2>5
<1>2. ASSUME NEW amount \in Amounts, withdrawProceeds(amount)
      PROVE  balance'[EscrowAddr] >= balance[EscrowAddr] /\ quote'[EscrowAddr] >= quote[EscrowAddr]
  <2>1. quote'[EscrowAddr] >= quote[EscrowAddr]
    BY <1>2, CheckedTransfer DEF withdrawProceeds, VaultTypeOK
  <2> QED  BY <1>0, <1>2, <2>1 DEF withdrawProceeds, tokenVars
<1>3. CASE balance' = balance /\ quote' = quote
  BY <1>0, <1>3
<1> QED  BY <1>1, <1>2, <1>3 DEF VaultNext, setStrategy, setTreasury, setMinPurchaseQuote, tokenVars

LEMMA BackedIncome ==
  ASSUME Base, IncomeNext
  PROVE  balance'[EscrowAddr] >= balance[EscrowAddr] /\ quote'[EscrowAddr] >= quote[EscrowAddr]
<1> USE SystemAccounts, IncomeAssumption DEF Base, TypeOK
<1>0. balance[EscrowAddr] \in Nat /\ quote[EscrowAddr] \in Nat
  BY DEF TokenTypeOK, QuoteTypeOK
<1>1. UNCHANGED balance
  BY DEF IncomeNext, createDistribution, claim, extendClaimDeadline, reclaimUnclaimed, tokenVars
<1>2. ASSUME NEW root, NEW total \in Amounts, NEW deadline,
             createDistribution(root, total, deadline)
      PROVE  quote'[EscrowAddr] >= quote[EscrowAddr]
  BY <1>2, CheckedTransfer DEF createDistribution
<1>3. ASSUME NEW id, NEW caller \in Holders, NEW amount \in Amounts, claim(id, caller, amount)
      PROVE  quote'[EscrowAddr] >= quote[EscrowAddr]
  BY <1>3, CheckedTransfer DEF claim
<1>4. ASSUME NEW id \in DistributionIds, reclaimUnclaimed(id)
      PROVE  quote'[EscrowAddr] >= quote[EscrowAddr]
  <2>1. remainder(id) \in Nat
    BY DEF remainder, NotOverpaid, IncomeTypeOK, Distribution
  <2> QED  BY <1>0, <1>4, <2>1, CheckedTransfer DEF reclaimUnclaimed, VaultTypeOK
<1>5. CASE UNCHANGED quote
  BY <1>0, <1>1, <1>5
<1>6. quote'[EscrowAddr] >= quote[EscrowAddr]
  BY <1>2, <1>3, <1>4, <1>5 DEF IncomeNext, extendClaimDeadline
<1> QED  BY <1>0, <1>1, <1>6

\* A step of one request: what it owed before and after against what moved.
LEMMA BackedStage ==
  ASSUME Base, Base', EscrowBacked, NEW id \in RequestIds,
         \A i \in RequestIds \ {id} : requests'[i] = requests[i],
         balance'[EscrowAddr] - balance[EscrowAddr]
           >= rwaOwed(requests'[id]) - rwaOwed(requests[id]),
         quote'[EscrowAddr] - quote[EscrowAddr]
           >= quoteOwed(requests'[id]) - quoteOwed(requests[id])
  PROVE  EscrowBacked'
<1>1. /\ balance[EscrowAddr] \in Nat /\ quote[EscrowAddr] \in Nat
      /\ balance'[EscrowAddr] \in Nat /\ quote'[EscrowAddr] \in Nat
  BY SystemAccounts DEF Base, TypeOK, TokenTypeOK, QuoteTypeOK
<1>2. rwaOwed(requests'[id]) \in Nat /\ quoteOwed(requests'[id]) \in Nat
  BY DEF Base, TypeOK, EscrowTypeOK, RedemptionRequest, rwaOwed, quoteOwed
<1>3. EscrowTypeOK /\ EscrowTypeOK'
  BY DEF Base, TypeOK
<1> QED  BY <1>1, <1>2, <1>3, DebtsChange, BackedByDebts

LEMMA BackedEscrow ==
  ASSUME Base, Base', EscrowBacked, EscrowNext
  PROVE  EscrowBacked'
<1> USE SystemAccounts, EscrowAssumption DEF Base, TypeOK
<1>0. /\ balance[EscrowAddr] \in Nat /\ quote[EscrowAddr] \in Nat
      /\ balance \in [Accounts -> Nat] /\ quote \in [Accounts -> Nat]
  BY DEF TokenTypeOK, QuoteTypeOK
<1>r. ASSUME NEW id \in RequestIds
      PROVE  /\ requests[id] \in RedemptionRequest
             /\ requests[id].rwaAmount \in Nat /\ requests[id].quoteAmount \in Nat
             /\ requests[id].status # "None" =>
                  requests[id].beneficiary \in Accounts \ {EscrowAddr}
  BY DEF EscrowTypeOK, RedemptionRequest, HasBeneficiary
\* A new request brings its tokens with it.
<1>1. ASSUME NEW caller \in Holders, NEW amount \in Amounts, NEW limit, NEW deadline,
             requestRedemption(caller, amount, limit, deadline)
      PROVE  EscrowBacked'
  <2>1. nextId \in RequestIds /\ requests[nextId] = NoRequest
    BY <1>1 DEF requestRedemption, EscrowTypeOK, RequestIds, FreshRequests
  <2>2. \A i \in RequestIds \ {nextId} : requests'[i] = requests[i]
    BY <1>1, <2>1 DEF requestRedemption, EscrowTypeOK
  <2>3. requests'[nextId].status = "Pending" /\ requests'[nextId].rwaAmount = amount
    BY <1>1, <2>1 DEF requestRedemption, EscrowTypeOK
  <2>4. /\ rwaOwed(requests[nextId]) = 0 /\ quoteOwed(requests[nextId]) = 0
        /\ rwaOwed(requests'[nextId]) = amount /\ quoteOwed(requests'[nextId]) = 0
    BY <2>1, <2>3 DEF rwaOwed, quoteOwed, NoRequest
  <2>5. balance'[EscrowAddr] - balance[EscrowAddr] = amount /\ quote' = quote
    BY <1>1 DEF requestRedemption
  <2> QED  BY <1>0, <2>1, <2>2, <2>4, <2>5, BackedStage
\* Funding brings the money.
<1>2. ASSUME NEW id \in RequestIds, fundRedemption(id)
      PROVE  EscrowBacked'
  <2>1. \A i \in RequestIds \ {id} : requests'[i] = requests[i]
    BY <1>2 DEF fundRedemption, EscrowTypeOK
  <2>2. requests'[id] = [requests[id] EXCEPT !.status = "Funded"]
    BY <1>2 DEF fundRedemption, EscrowTypeOK
  <2>3. /\ rwaOwed(requests'[id]) = rwaOwed(requests[id])
        /\ quoteOwed(requests[id]) = 0
        /\ quoteOwed(requests'[id]) = requests[id].quoteAmount
    BY <1>2, <1>r, <2>2 DEF fundRedemption, rwaOwed, quoteOwed, RedemptionRequest
  <2>4. quote' = Moved(quote, Treasurer, EscrowAddr, requests[id].quoteAmount)
        /\ requests[id].quoteAmount <= quote[Treasurer]
    BY <1>2, <1>r, CheckedTransfer DEF fundRedemption
  <2>5. quote'[EscrowAddr] = quote[EscrowAddr] + requests[id].quoteAmount
    <3>1. Treasurer \in Accounts /\ Treasurer # EscrowAddr
      OBVIOUS
    <3> QED  BY <1>0, <1>r, <2>4, <3>1, SystemAccounts, MovedType
  <2>6. balance' = balance
    BY <1>2 DEF fundRedemption, tokenVars
  <2>7. rwaOwed(requests[id]) \in Nat
    BY <1>r DEF rwaOwed
  <2> QED  BY <1>0, <1>r, <2>1, <2>3, <2>5, <2>6, <2>7, BackedStage
\* Rejecting and cancelling release exactly the request's tokens.
<1>3. ASSUME NEW id \in RequestIds, NEW stage \in {"Rejected", "Cancelled"},
             requests[id].status = "Pending",
             requests' = [requests EXCEPT ![id].status = stage],
             balance' = Moved(balance, EscrowAddr, requests[id].beneficiary, requests[id].rwaAmount),
             requests[id].rwaAmount <= balance[EscrowAddr], quote' = quote
      PROVE  EscrowBacked'
  <2>1. \A i \in RequestIds \ {id} : requests'[i] = requests[i]
    BY <1>3 DEF EscrowTypeOK
  <2>2. requests'[id].status = stage
    BY <1>3, <1>r DEF EscrowTypeOK, RedemptionRequest
  <2>3. /\ rwaOwed(requests[id]) = requests[id].rwaAmount /\ rwaOwed(requests'[id]) = 0
        /\ quoteOwed(requests[id]) = 0 /\ quoteOwed(requests'[id]) = 0
    BY <1>3, <2>2 DEF rwaOwed, quoteOwed
  <2>4. balance'[EscrowAddr] = balance[EscrowAddr] - requests[id].rwaAmount
    <3>1. /\ requests[id].beneficiary \in Accounts /\ requests[id].beneficiary # EscrowAddr
          /\ requests[id].rwaAmount \in Nat
      BY <1>3, <1>r
    <3> QED  BY <1>0, <1>3, <3>1, SystemAccounts, MovedType
  <2> QED  BY <1>0, <1>3, <1>r, <2>1, <2>3, <2>4, BackedStage
<1>4. ASSUME NEW id \in RequestIds, rejectRedemption(id)
      PROVE  EscrowBacked'
  <2>1. requests[id].status = "Pending"
    BY <1>4 DEF rejectRedemption, rejectable
  <2>2. requests[id].rwaAmount <= balance[EscrowAddr]
    BY <1>4, <1>r, <2>1, UpdateType DEF rejectRedemption
  <2> QED  BY <1>3, <1>4, <2>1, <2>2 DEF rejectRedemption, update
<1>5. ASSUME NEW id \in RequestIds, NEW caller, cancelRedemption(id, caller)
      PROVE  EscrowBacked'
  BY <1>3, <1>5 DEF cancelRedemption, cancellable, returnEscrowedRWA, returnable
\* Completion releases the request's tokens and its money.
<1>6. ASSUME NEW id \in RequestIds, claimRedemption(id)
      PROVE  EscrowBacked'
  <2>1. \A i \in RequestIds \ {id} : requests'[i] = requests[i]
    BY <1>6 DEF claimRedemption, EscrowTypeOK
  <2>2. requests'[id].status = "Completed" /\ requests[id].status = "Funded"
    BY <1>6, <1>r DEF claimRedemption, EscrowTypeOK, RedemptionRequest
  <2>3. /\ rwaOwed(requests[id]) = requests[id].rwaAmount /\ rwaOwed(requests'[id]) = 0
        /\ quoteOwed(requests[id]) = requests[id].quoteAmount /\ quoteOwed(requests'[id]) = 0
    BY <2>2 DEF rwaOwed, quoteOwed
  <2>4. balance'[EscrowAddr] = balance[EscrowAddr] - requests[id].rwaAmount
    BY <1>0, <1>6, <1>r, MovedType DEF claimRedemption, returnEscrowedRWA, returnable
  <2>5. quote'[EscrowAddr] >= quote[EscrowAddr] - requests[id].quoteAmount
    BY <1>6, <1>r, <2>2, CheckedTransfer DEF claimRedemption
  <2>6. quote'[EscrowAddr] \in Nat
    BY DEF QuoteTypeOK
  <2> QED  BY <1>0, <1>r, <2>1, <2>3, <2>4, <2>5, <2>6, BackedStage
<1> QED  BY <1>1, <1>2, <1>4, <1>5, <1>6 DEF EscrowNext

LEMMA BackedInit ==
  ASSUME Init
  PROVE  EscrowBacked
<1>1. /\ rwaDebts \in [RequestIds -> Nat] /\ quoteDebts \in [RequestIds -> Nat]
      /\ \A id \in RequestIds : rwaDebts[id] = 0 /\ quoteDebts[id] = 0
  BY DEF Init, EscrowInit, NoRequest, rwaDebts, quoteDebts, rwaOwed, quoteOwed
<1>2. Total(rwaDebts) = 0 /\ Total(quoteDebts) = 0
  BY <1>1, TotalZero
<1>3. balance[EscrowAddr] \in Nat /\ quote[EscrowAddr] \in Nat
  BY BaseInit, SystemAccounts DEF Base, TypeOK, TokenTypeOK, QuoteTypeOK
<1> QED  BY <1>2, <1>3, BackedByDebts

LEMMA BackedStep ==
  ASSUME Base, EscrowBacked, [Next]_vars
  PROVE  EscrowBacked'
<1>0. Base'
  BY BaseStep
<1>n. balance[EscrowAddr] \in Nat /\ quote[EscrowAddr] \in Nat
  BY SystemAccounts DEF Base, TypeOK, TokenTypeOK, QuoteTypeOK
<1>1. CASE EscrowStep
  BY <1>0, <1>1, BackedEscrow DEF EscrowStep
<1>2. CASE TokenStep
  BY <1>0, <1>n, <1>2, BackedToken, BackedElsewhere DEF TokenStep, escrowVars
<1>3. CASE QuoteStep
  BY <1>0, <1>n, <1>3, QuoteType, SystemAccounts, BackedElsewhere
  DEF QuoteStep, tokenVars, escrowVars, Base, TypeOK
<1>4. CASE VaultStep
  BY <1>0, <1>4, BackedVault, BackedElsewhere DEF VaultStep, escrowVars
<1>5. CASE IncomeStep
  BY <1>0, <1>5, BackedIncome, BackedElsewhere DEF IncomeStep, escrowVars
\* The controller only touches the Vault's balance.
<1>6. CASE SupplyStep
  <2>1. balance'[EscrowAddr] = balance[EscrowAddr]
    BY <1>6, SystemAccounts
    DEF SupplyStep, SupplyNext, mint, burn, controllerMint, controllerBurn, setAuditor, tokenVars,
        Base, TypeOK, TokenTypeOK
  <2> QED  BY <1>0, <1>n, <1>6, <2>1, BackedElsewhere DEF SupplyStep, escrowVars
<1>7. CASE RegistryStep \/ PriceStep \/ UNCHANGED vars
  <2>1. UNCHANGED <<balance, quote, requests>>
    BY <1>7 DEF RegistryStep, PriceStep, vars, tokenVars, escrowVars
  <2> QED  BY <1>0, <1>n, <2>1, BackedElsewhere
<1> QED  BY <1>1, <1>2, <1>3, <1>4, <1>5, <1>6, <1>7 DEF Next

\* Whatever the callers, the admin and the quote token do, the escrow holds the
\* tokens of all unsettled requests and the money of all funded ones.
THEOREM EscrowSolvent == Spec => []EscrowBacked
<1>1. Init => EscrowBacked
  BY BackedInit
<1>2. Base /\ EscrowBacked /\ [Next]_vars => EscrowBacked'
  BY BackedStep
<1> QED  BY <1>1, <1>2, BaseInvariant, PTL DEF Spec

-----------------------------------------------------------------------------
(* The ways out of the escrow stay open.                                   *)

\* The registry and the token protect the system addresses.
SystemOpen ==
  \A a \in SystemAddresses :
    /\ records[a].status = "Allowed" /\ records[a].validUntil = 0
    /\ frozen[a] = 0

LEMMA SystemOpenRegistry ==
  ASSUME Base, SystemOpen, RegistryNext \/ Tick, UNCHANGED frozen
  PROVE  SystemOpen'
<1> USE SystemAccounts DEF Base, TypeOK, RegistryTypeOK, SystemAddresses
<1>1. ASSUME NEW u \in StatusUpdates, setStatus(u)
      PROVE  SystemOpen'
  <2>1. u.account \in Accounts
    BY RegistryAssumption DEF StatusUpdate
  <2> QED  BY <1>1, <2>1 DEF setStatus, settable, recordOf, SystemOpen
<1>2. ASSUME NEW n \in Nat, NEW batch \in [1..n -> StatusUpdates], setStatuses(batch)
      PROVE  SystemOpen'
  <2>1. ASSUME NEW a \in SystemAddresses, positionsOf(batch, a) # {}
        PROVE  lastPosition(batch, a) \in positionsOf(batch, a)
    <3>1. positionsOf(batch, a) \in SUBSET (1..n)
      BY DEF positionsOf
    <3>2. \E i \in positionsOf(batch, a) : \A j \in positionsOf(batch, a) : j <= i
      BY <2>1, <3>1, GreatestPosition
    <3> QED  BY <3>2 DEF lastPosition
  <2>2. ASSUME NEW a \in SystemAddresses
        PROVE  records'[a].status = "Allowed" /\ records'[a].validUntil = 0
    <3>1. CASE positionsOf(batch, a) = {}
      BY <1>2, <3>1 DEF setStatuses, SystemOpen
    <3>2. CASE positionsOf(batch, a) # {}
      <4>1. lastPosition(batch, a) \in DOMAIN batch /\ batch[lastPosition(batch, a)].account = a
        BY <2>1, <3>2 DEF positionsOf
      <4>2. settable(batch[lastPosition(batch, a)])
        BY <1>2, <4>1 DEF setStatuses
      <4> QED  BY <1>2, <3>2, <4>1, <4>2 DEF setStatuses, settable, recordOf
    <3> QED  BY <3>1, <3>2
  <2> QED  BY <2>2 DEF SystemOpen
<1>3. CASE Tick
  BY <1>3 DEF Tick, SystemOpen
<1> QED  BY <1>1, <1>2, <1>3, RegistryAssumption DEF RegistryNext

LEMMA SystemOpenToken ==
  ASSUME Base, SystemOpen, TokenNext, UNCHANGED records
  PROVE  SystemOpen'
<1> USE SystemAccounts DEF Base, TypeOK, TokenTypeOK, SystemAddresses, SystemOpen
<1>1. CASE \E f \in Freezes : setFrozenTokens(f[1], f[2])
  <2>1. PICK f \in Freezes : setFrozenTokens(f[1], f[2])
    BY <1>1
  <2>2. f[1] \in Accounts /\ f[2] \in Nat
    BY TokenAssumption
  <2> QED  BY <2>1, <2>2 DEF setFrozenTokens
<1>2. CASE \E from, to \in Accounts, amount \in Amounts : forcedTransfer(from, to, amount)
  BY <1>2 DEF forcedTransfer
<1>3. CASE UNCHANGED frozen
  BY <1>3
<1> QED  BY <1>1, <1>2, <1>3 DEF TokenNext, transfer, pause, unpause

LEMMA SystemOpenStep ==
  ASSUME Base, SystemOpen, [Next]_vars
  PROVE  SystemOpen'
<1>1. CASE RegistryStep
  BY <1>1, SystemOpenRegistry DEF RegistryStep, tokenVars
<1>2. CASE TokenStep
  BY <1>2, SystemOpenToken DEF TokenStep, registryVars
<1>3. CASE UNCHANGED <<records, frozen>>
  BY <1>3 DEF SystemOpen
<1>4. CASE SupplyStep \/ VaultStep
  BY <1>3, <1>4
  DEF SupplyStep, SupplyNext, mint, burn, setAuditor, VaultStep, VaultNext, buy, withdrawProceeds,
      setStrategy, setTreasury, setMinPurchaseQuote, registryVars, tokenVars
<1>5. CASE EscrowStep \/ IncomeStep
  BY <1>3, <1>5
  DEF EscrowStep, EscrowNext, requestRedemption, fundRedemption, rejectRedemption,
      cancelRedemption, claimRedemption, IncomeStep, IncomeNext, createDistribution, claim,
      extendClaimDeadline, reclaimUnclaimed, registryVars, tokenVars
<1>6. CASE QuoteStep \/ PriceStep \/ UNCHANGED vars
  BY <1>3, <1>6 DEF QuoteStep, PriceStep, vars, registryVars, tokenVars
<1> QED  BY <1>1, <1>2, <1>4, <1>5, <1>6 DEF Next

\* The vault and the escrow stay eligible without expiry and unfrozen: _setStatus
\* and setFrozenTokens refuse to touch the system addresses.
THEOREM SystemStaysOpen == Spec => []SystemOpen
<1>1. Init => SystemOpen
  BY SystemAccounts DEF Init, RegistryInit, TokenInit, SystemOpen, SystemAddresses
<1>2. Base /\ SystemOpen /\ [Next]_vars => SystemOpen'
  BY SystemOpenStep
<1> QED  BY <1>1, <1>2, BaseInvariant, PTL DEF Spec

\* What one request owes is covered by what the escrow holds.
LEMMA DebtCovered ==
  ASSUME Base, EscrowBacked, NEW id \in RequestIds
  PROVE  /\ requests[id].status \in {"Pending", "Funded"} =>
              requests[id].rwaAmount <= balance[EscrowAddr]
         /\ requests[id].status = "Funded" => requests[id].quoteAmount <= quote[EscrowAddr]
<1>1. rwaDebts \in [RequestIds -> Nat] /\ quoteDebts \in [RequestIds -> Nat]
  BY DEF Base, TypeOK, EscrowTypeOK, RedemptionRequest, rwaDebts, quoteDebts, rwaOwed, quoteOwed
<1>2. /\ rwaDebts[id] <= Total(rwaDebts) /\ quoteDebts[id] <= Total(quoteDebts)
      /\ Total(rwaDebts) \in Nat /\ Total(quoteDebts) \in Nat
  BY <1>1, RequestsFinite, TotalBound, TotalType
<1>3. balance[EscrowAddr] \in Nat /\ quote[EscrowAddr] \in Nat
  BY SystemAccounts DEF Base, TypeOK, TokenTypeOK, QuoteTypeOK
<1>4. rwaDebts[id] <= balance[EscrowAddr] /\ quoteDebts[id] <= quote[EscrowAddr]
  BY <1>1, <1>2, <1>3, BackedByDebts
<1> QED  BY <1>4 DEF rwaDebts, quoteDebts, rwaOwed, quoteOwed

\* A funded request can be completed, a pending one rejected, and one past its
\* timeout cancelled, in every reachable state: no freeze, seizure, blocking of
\* the system addresses or other request takes away what the exit needs.
THEOREM ExitsStayOpen == Spec => []ExitsOpen
<1>1. ASSUME Base, EscrowBacked, SystemOpen
      PROVE  ExitsOpen
  <2> USE SystemAccounts
  <2>1. isAllowed(VaultAddr) /\ isAllowed(EscrowAddr)
    BY <1>1 DEF SystemOpen, SystemAddresses, isAllowed
  <2>2. unfrozen(EscrowAddr) = balance[EscrowAddr]
    BY <1>1 DEF SystemOpen, SystemAddresses, unfrozen, Base, TypeOK, TokenTypeOK
  <2>3. ASSUME NEW id \in RequestIds
        PROVE  requests[id].status # "None" => requests[id].beneficiary \in Accounts \ {EscrowAddr}
    BY <1>1 DEF Base, HasBeneficiary
  <2>4. ASSUME NEW id \in RequestIds, requests[id].status = "Funded"
        PROVE  /\ returnable(VaultAddr, requests[id].rwaAmount)
               /\ requests[id].quoteAmount <= quote[EscrowAddr]
               /\ requests[id].beneficiary \in Accounts \ {EscrowAddr}
    BY <1>1, <2>1, <2>3, <2>4, DebtCovered DEF returnable
  <2>5. ASSUME NEW id \in RequestIds, requests[id].status = "Pending",
               isAllowed(requests[id].beneficiary)
        PROVE  /\ ~paused => rejectable(id)
               /\ now >= requests[id].createdAt + RedemptionTimeout =>
                    cancellable(id, requests[id].beneficiary)
    BY <1>1, <2>1, <2>2, <2>5, DebtCovered DEF rejectable, updatable, cancellable, returnable
  <2> QED  BY <2>4, <2>5 DEF ExitsOpen
<1>2. Base /\ EscrowBacked /\ SystemOpen => ExitsOpen
  BY <1>1
<1> QED  BY <1>2, BaseInvariant, EscrowSolvent, SystemStaysOpen, PTL

-----------------------------------------------------------------------------
(* The refinement: each transaction of the escrow is the step of the       *)
(* abstract desk it is named after, and every other one is Elsewhere.      *)

LEMMA PromiseInit ==
  ASSUME Init
  PROVE  Promise!Init
BY BaseInit
DEF Init, EscrowInit, NoRequest, Base, TypeOK, RegistryTypeOK, TokenTypeOK, QuoteTypeOK,
    Promise!Init, Promise!Unopened

LEMMA PromiseElsewhere ==
  ASSUME Base', UNCHANGED requests, now' \in {now, now + 1},
         balance'[EscrowAddr] >= balance[EscrowAddr], quote'[EscrowAddr] >= quote[EscrowAddr]
  PROVE  Promise!Next
BY DEF Base, TypeOK, TokenTypeOK, QuoteTypeOK, Promise!Next, Promise!Elsewhere

\* The stage of one request changes; its terms do not.
LEMMA PromiseEscrow ==
  ASSUME Base, EscrowNext, UNCHANGED now
  PROVE  Promise!Next
<1> USE SystemAccounts, EscrowAssumption DEF Base, TypeOK
<1>r. ASSUME NEW id \in RequestIds
      PROVE  /\ requests[id].rwaAmount \in Nat /\ requests[id].quoteAmount \in Nat
             /\ requests[id].status # "None" =>
                  requests[id].beneficiary \in Accounts \ {EscrowAddr}
  BY DEF EscrowTypeOK, RedemptionRequest, HasBeneficiary
<1>1. ASSUME NEW caller \in Holders, NEW amount \in Amounts, NEW limit, NEW deadline,
             requestRedemption(caller, amount, limit, deadline)
      PROVE  \E id \in RequestIds : Promise!Open(id)
  <2>1. nextId \in RequestIds /\ requests[nextId] = NoRequest
    BY <1>1 DEF requestRedemption, EscrowTypeOK, RequestIds, FreshRequests
  <2>2. /\ \A i \in RequestIds \ {nextId} : requests'[i] = requests[i]
        /\ requests'[nextId] = [beneficiary |-> caller, rwaAmount |-> amount,
                                quoteAmount |-> quoteRedemption(strategy, amount),
                                createdAt |-> now, status |-> "Pending"]
    BY <1>1, <2>1 DEF requestRedemption, EscrowTypeOK
  <2>3. amount > 0 /\ quoteRedemption(strategy, amount) > 0
    <3>1. quoteRedemption(strategy, amount) \in Nat
      BY QuotesType DEF VaultTypeOK
    <3> QED  BY <1>1, <3>1 DEF requestRedemption
  <2>4. caller \in Accounts /\ caller # EscrowAddr
    OBVIOUS
  <2>5. balance' = Moved(balance, caller, EscrowAddr, amount) /\ UNCHANGED quote
    BY <1>1 DEF requestRedemption, update
  <2>6. Promise!Passes(balance, balance', caller, EscrowAddr, requests'[nextId].rwaAmount)
    BY <2>2, <2>4, <2>5 DEF Promise!Passes, Moved
  <2>7. Promise!Open(nextId)
    BY <2>1, <2>2, <2>3, <2>4, <2>5, <2>6 DEF Promise!Open, Promise!Unopened, NoRequest
  <2> QED  BY <2>1, <2>7
<1>2. ASSUME NEW id \in RequestIds, fundRedemption(id)
      PROVE  Promise!Fund(id)
  <2>1. Treasurer \in Accounts /\ Treasurer # EscrowAddr
    OBVIOUS
  <2>2. quote' = Moved(quote, Treasurer, EscrowAddr, requests[id].quoteAmount)
    BY <1>2, <1>r, <2>1, CheckedTransfer DEF fundRedemption
  <2>3. Promise!Passes(quote, quote', Treasurer, EscrowAddr, requests[id].quoteAmount)
    BY <2>1, <2>2 DEF Promise!Passes, Moved
  <2> QED  BY <1>2, <2>1, <2>3 DEF fundRedemption, tokenVars, Promise!Fund, Promise!SetStage
<1>3. ASSUME NEW id \in RequestIds, rejectRedemption(id)
      PROVE  Promise!GiveBack(id)
  <2>1. requests[id].status = "Pending" /\ requests[id].beneficiary \in Accounts \ {EscrowAddr}
    BY <1>3, <1>r DEF rejectRedemption, rejectable
  <2>2. Promise!Passes(balance, balance', EscrowAddr, requests[id].beneficiary,
                       requests[id].rwaAmount)
    BY <1>3, <2>1 DEF rejectRedemption, update, Promise!Passes, Moved
  <2> QED  BY <1>3, <2>1, <2>2 DEF rejectRedemption, Promise!GiveBack, Promise!SetStage
<1>4. ASSUME NEW id \in RequestIds, NEW caller, cancelRedemption(id, caller)
      PROVE  Promise!GiveBack(id)
  <2>1. requests[id].status = "Pending" /\ requests[id].beneficiary \in Accounts \ {EscrowAddr}
    BY <1>4, <1>r DEF cancelRedemption, cancellable
  <2>2. Promise!Passes(balance, balance', EscrowAddr, requests[id].beneficiary,
                       requests[id].rwaAmount)
    BY <1>4, <2>1 DEF cancelRedemption, returnEscrowedRWA, Promise!Passes, Moved
  <2> QED  BY <1>4, <2>1, <2>2
           DEF cancelRedemption, cancellable, Promise!GiveBack, Promise!SetStage
<1>5. ASSUME NEW id \in RequestIds, claimRedemption(id)
      PROVE  Promise!Complete(id)
  <2>1. requests[id].status = "Funded" /\ requests[id].beneficiary \in Accounts \ {EscrowAddr}
    BY <1>5, <1>r DEF claimRedemption
  <2>2. Promise!Passes(balance, balance', EscrowAddr, VaultAddr, requests[id].rwaAmount)
    BY <1>5 DEF claimRedemption, returnEscrowedRWA, Promise!Passes, Moved
  <2>3. quote' = Moved(quote, EscrowAddr, requests[id].beneficiary, requests[id].quoteAmount)
    BY <1>5, <1>r, <2>1, CheckedTransfer DEF claimRedemption
  <2>4. Promise!Passes(quote, quote', EscrowAddr, requests[id].beneficiary,
                       requests[id].quoteAmount)
    BY <2>1, <2>3 DEF Promise!Passes, Moved
  <2> QED  BY <1>5, <2>1, <2>2, <2>4 DEF claimRedemption, Promise!Complete, Promise!SetStage
<1> QED  BY <1>1, <1>2, <1>3, <1>4, <1>5 DEF EscrowNext, Promise!Next

LEMMA PromiseStep ==
  ASSUME Base, Base', [Next]_vars
  PROVE  [Promise!Next]_(Promise!vars)
<1>n. /\ balance[EscrowAddr] \in Nat /\ quote[EscrowAddr] \in Nat /\ now \in Nat
      /\ EscrowAddr \in Contracts
  BY SystemAccounts DEF Base, TypeOK, RegistryTypeOK, TokenTypeOK, QuoteTypeOK
<1>1. CASE EscrowStep
  BY <1>1, PromiseEscrow DEF EscrowStep, registryVars
<1>2. CASE TokenStep
  BY <1>n, <1>2, BackedToken, PromiseElsewhere DEF TokenStep, registryVars, escrowVars
<1>3. CASE QuoteStep
  BY <1>n, <1>3, QuoteType, PromiseElsewhere
  DEF QuoteStep, registryVars, tokenVars, escrowVars, Base, TypeOK
<1>4. CASE VaultStep
  BY <1>4, BackedVault, PromiseElsewhere DEF VaultStep, registryVars, escrowVars
<1>5. CASE IncomeStep
  BY <1>5, BackedIncome, PromiseElsewhere DEF IncomeStep, registryVars, escrowVars
<1>6. CASE SupplyStep
  <2>1. balance'[EscrowAddr] = balance[EscrowAddr]
    BY <1>6, SystemAccounts
    DEF SupplyStep, SupplyNext, mint, burn, controllerMint, controllerBurn, setAuditor, tokenVars,
        Base, TypeOK, TokenTypeOK
  <2> QED  BY <1>n, <1>6, <2>1, PromiseElsewhere DEF SupplyStep, registryVars, escrowVars
<1>7. CASE RegistryStep
  <2>1. now' \in {now, now + 1} /\ UNCHANGED <<balance, quote, requests>>
    BY <1>7 DEF RegistryStep, RegistryNext, setStatus, setStatuses, Tick, tokenVars, escrowVars
  <2> QED  BY <1>n, <2>1, PromiseElsewhere
<1>8. CASE PriceStep \/ UNCHANGED vars
  <2>1. UNCHANGED <<now, balance, quote, requests>>
    BY <1>8 DEF PriceStep, vars, registryVars, tokenVars, escrowVars
  <2> QED  BY <1>n, <2>1, PromiseElsewhere
<1> QED  BY <1>1, <1>2, <1>3, <1>4, <1>5, <1>6, <1>7, <1>8 DEF Next

\* The project with all its contracts implements the abstract redemption desk:
\* every transaction is the promised step of one deal, moving exactly its tokens
\* and its money, or one that takes nothing out of the escrow.
THEOREM ImplementsPromise == Spec => KeepsPromise
<1>1. Init => Promise!Init
  BY PromiseInit
<1>2. Base /\ Base' /\ [Next]_vars => [Promise!Next]_(Promise!vars)
  BY PromiseStep
<1> QED  BY <1>1, <1>2, BaseInvariant, PTL DEF Spec, KeepsPromise, Promise!Spec

-----------------------------------------------------------------------------
(* A pause.                                                                *)

\* What PauseHolds says of one step.
Stopped ==
  paused =>
    /\ totalSupply' = totalSupply
    /\ \A c \in Contracts : quote'[c] >= quote[c]
    /\ balance'[VaultAddr] >= balance[VaultAddr]
    /\ balance'[EscrowAddr] < balance[EscrowAddr] =>
         \E id \in RequestIds :
           /\ requests[id].status = "Pending" /\ requests'[id].status = "Cancelled"
           /\ balance' = Moved(balance, EscrowAddr, requests[id].beneficiary,
                               requests[id].rwaAmount)

\* Steps that move nothing, or only holders' tokens and money.
LEMMA StoppedElsewhere ==
  ASSUME Base, Base', UNCHANGED totalSupply, \A c \in Contracts : quote'[c] >= quote[c],
         \A a \in SystemAddresses : balance'[a] >= balance[a]
  PROVE  Stopped
<1>1. balance'[VaultAddr] >= balance[VaultAddr] /\ balance'[EscrowAddr] >= balance[EscrowAddr]
  BY DEF SystemAddresses
<1>2. balance[EscrowAddr] \in Nat /\ balance'[EscrowAddr] \in Nat
  BY SystemAccounts DEF Base, TypeOK, TokenTypeOK
<1>3. ~(balance'[EscrowAddr] < balance[EscrowAddr])
  BY <1>1, <1>2
<1> QED  BY <1>1, <1>3 DEF Stopped

LEMMA StoppedUnchanged ==
  ASSUME Base, Base', UNCHANGED <<totalSupply, balance, quote>>
  PROVE  Stopped
<1>1. /\ \A c \in Contracts : quote[c] \in Nat
      /\ \A a \in SystemAddresses : balance[a] \in Nat
  BY SystemAccounts, TokenAssumption DEF Base, TypeOK, TokenTypeOK, QuoteTypeOK, SystemAddresses
<1> QED  BY <1>1, StoppedElsewhere

\* While paused, a seizure is the only movement of tokens, and it takes from a
\* holder.
LEMMA StoppedToken ==
  ASSUME Base, Base', TokenNext, UNCHANGED quote
  PROVE  Stopped
<1> USE SystemAccounts, TokenAssumption DEF Base, TypeOK
<1>0. \A c \in Contracts : quote'[c] >= quote[c]
  BY DEF QuoteTypeOK
<1>1. ASSUME NEW from \in Holders, NEW to \in Accounts, NEW value \in Amounts,
             transfer(from, to, value)
      PROVE  Stopped
  BY <1>1 DEF transfer, update, updatable, Stopped
<1>2. ASSUME NEW from \in Accounts, NEW to \in Accounts, NEW amount \in Amounts,
             forcedTransfer(from, to, amount)
      PROVE  Stopped
  <2>1. amount <= balance[from] /\ balance' = Moved(balance, from, to, amount)
        /\ UNCHANGED totalSupply
    BY <1>2 DEF forcedTransfer
  <2>2. ASSUME NEW a \in SystemAddresses
        PROVE  balance'[a] >= balance[a]
    <3>1. a \in Accounts \ {from}
      BY <1>2 DEF forcedTransfer, SystemAddresses
    <3> QED  BY <2>1, <3>1, MovedFromElsewhere DEF TokenTypeOK
  <2> QED  BY <1>0, <2>1, <2>2, StoppedElsewhere
<1>3. CASE UNCHANGED <<totalSupply, balance>>
  BY <1>3, StoppedUnchanged
<1> QED  BY <1>1, <1>2, <1>3 DEF TokenNext, pause, unpause, setFrozenTokens

\* Of the escrow's transactions only the cancellation is open.
LEMMA StoppedEscrow ==
  ASSUME Base, Base', EscrowNext
  PROVE  Stopped
<1> USE SystemAccounts, TokenAssumption DEF Base, TypeOK
<1>1. ASSUME NEW id \in RequestIds, NEW caller, cancelRedemption(id, caller)
      PROVE  Stopped
  <2>1. /\ requests[id].status = "Pending" /\ requests'[id].status = "Cancelled"
        /\ requests[id].beneficiary \in Accounts \ {VaultAddr, EscrowAddr}
        /\ requests[id].rwaAmount \in Nat
    BY <1>1 DEF cancelRedemption, cancellable, EscrowTypeOK, RedemptionRequest, HasBeneficiary
  <2>2. /\ requests[id].rwaAmount <= balance[EscrowAddr]
        /\ balance' = Moved(balance, EscrowAddr, requests[id].beneficiary, requests[id].rwaAmount)
        /\ UNCHANGED <<totalSupply, quote>>
    BY <1>1 DEF cancelRedemption, cancellable, returnEscrowedRWA, returnable
  <2>3. VaultAddr \in Accounts \ {EscrowAddr}
    OBVIOUS
  <2>4. balance'[VaultAddr] >= balance[VaultAddr]
    BY <2>1, <2>2, <2>3, MovedFromElsewhere DEF TokenTypeOK
  <2>5. \A c \in Contracts : quote'[c] >= quote[c]
    BY <2>2 DEF QuoteTypeOK
  <2> QED  BY <2>1, <2>2, <2>4, <2>5 DEF Stopped
<1> QED  BY <1>1 DEF EscrowNext, requestRedemption, fundRedemption, rejectRedemption, rejectable,
                     claimRedemption, Stopped

LEMMA StoppedStep ==
  ASSUME Base, Base', [Next]_vars
  PROVE  Stopped
<1>1. CASE TokenStep
  BY <1>1, StoppedToken DEF TokenStep
<1>2. CASE EscrowStep
  BY <1>2, StoppedEscrow DEF EscrowStep
<1>3. CASE QuoteStep
  <2>1. \A a \in SystemAddresses : balance'[a] >= balance[a]
    BY <1>3, SystemAccounts DEF QuoteStep, tokenVars, Base, TypeOK, TokenTypeOK, SystemAddresses
  <2> QED  BY <1>3, <2>1, QuoteType, StoppedElsewhere DEF QuoteStep, tokenVars, Base, TypeOK
<1>4. CASE SupplyStep
  <2>1. CASE \E newAuditor \in Auditors : setAuditor(newAuditor)
    BY <1>4, <2>1, StoppedUnchanged DEF SupplyStep, setAuditor, tokenVars
  <2> QED  BY <1>4, <2>1 DEF SupplyStep, SupplyNext, mint, burn, acceptable, Stopped
<1>5. CASE VaultStep
  BY <1>5 DEF VaultStep, VaultNext, buy, withdrawProceeds, setStrategy, setTreasury,
              setMinPurchaseQuote, Stopped
<1>6. CASE IncomeStep
  <2>1. ASSUME NEW id, NEW deadline, extendClaimDeadline(id, deadline)
        PROVE  Stopped
    BY <2>1, StoppedUnchanged DEF extendClaimDeadline, tokenVars
  <2> QED  BY <1>6, <2>1 DEF IncomeStep, IncomeNext, createDistribution, claim, reclaimUnclaimed,
                             Stopped
<1>7. CASE RegistryStep \/ PriceStep \/ UNCHANGED vars
  BY <1>7, StoppedUnchanged DEF RegistryStep, PriceStep, vars, tokenVars
<1> QED  BY <1>1, <1>2, <1>3, <1>4, <1>5, <1>6, <1>7 DEF Next

\* While the project is paused no supply is created or destroyed, no contract
\* pays out, the Vault keeps its inventory, and the escrow gives tokens back only
\* to the beneficiary of a request that is being cancelled.
THEOREM PauseStops == Spec => PauseHolds
<1>1. Base /\ Base' /\ [Next]_vars => [Stopped]_vars
  BY StoppedStep
<1> QED  BY <1>1, BaseInvariant, PTL DEF Spec, PauseHolds, Stopped

-----------------------------------------------------------------------------
(* What no step of the project does to a holder's tokens.                  *)

Held == \A a \in Accounts : balance'[a] < balance[a] => shortfall(a)' = shortfall(a)
Received == \A a \in Accounts : balance'[a] > balance[a] => isAllowed(a)

\* The ways in which the contracts move tokens: the checked path of _update,
\* the escrow's exit, and a seizure that lowers the hold.
LawfulMove ==
  \E from, to \in Accounts, value \in Nat :
    /\ value <= balance[from]
    /\ balance' = Moved(balance, from, to, value)
    /\ isAllowed(to)
    /\ \/ value <= unfrozen(from) /\ UNCHANGED frozen
       \/ from \in SystemAddresses /\ UNCHANGED frozen
       \/ frozen' = [frozen EXCEPT ![from] = frozenAfterSeizure(from, value)]

LEMMA LawfulKeeps ==
  ASSUME Base, SystemOpen, LawfulMove
  PROVE  Held /\ Received
<1>0. balance \in [Accounts -> Nat]
  BY DEF Base, TypeOK, TokenTypeOK
<1>1. PICK from \in Accounts, to \in Accounts, value \in Nat :
        /\ value <= balance[from]
        /\ balance' = Moved(balance, from, to, value)
        /\ isAllowed(to)
        /\ \/ value <= unfrozen(from) /\ UNCHANGED frozen
           \/ from \in SystemAddresses /\ UNCHANGED frozen
           \/ frozen' = [frozen EXCEPT ![from] = frozenAfterSeizure(from, value)]
  BY DEF LawfulMove
<1>2. /\ balance' \in [Accounts -> Nat]
      /\ from # to => balance'[from] = balance[from] - value /\ balance'[to] = balance[to] + value
      /\ from = to => balance' = balance
      /\ \A a \in Accounts \ {from, to} : balance'[a] = balance[a]
  BY <1>0, <1>1, MovedType
<1> USE SystemAccounts DEF Base, TypeOK, TokenTypeOK
<1>3. ASSUME NEW a \in Accounts, balance'[a] > balance[a]
      PROVE  isAllowed(a)
  BY <1>1, <1>2, <1>3
<1>4. ASSUME NEW a \in Accounts, balance'[a] < balance[a]
      PROVE  shortfall(a)' = shortfall(a)
  <2>1. a = from /\ balance'[a] = balance[a] - value
    BY <1>1, <1>2, <1>4
  <2>2. CASE value <= unfrozen(from) /\ UNCHANGED frozen
    BY <1>1, <1>2, <1>4, <2>1, <2>2 DEF shortfall, unfrozen
  <2>3. CASE from \in SystemAddresses /\ UNCHANGED frozen
    <3>1. frozen[a] = 0 /\ frozen'[a] = 0
      BY <2>1, <2>3 DEF SystemOpen
    <3> QED  BY <1>2, <3>1 DEF shortfall
  <2>4. CASE frozen' = [frozen EXCEPT ![from] = frozenAfterSeizure(from, value)]
    <3>1. frozen'[a] = frozenAfterSeizure(a, value)
      BY <2>1, <2>4
    <3> QED  BY <1>1, <1>2, <2>1, <3>1 DEF shortfall, unfrozen, frozenAfterSeizure
  <2> QED  BY <1>1, <2>2, <2>3, <2>4
<1> QED  BY <1>3, <1>4 DEF Held, Received

LEMMA UpdateLawful ==
  ASSUME TokenTypeOK, NEW from \in Accounts, NEW to \in Accounts, NEW value \in Nat,
         update(from, to, value), UNCHANGED frozen
  PROVE  LawfulMove
<1>1. value <= balance[from]
  BY UpdateType
<1> QED  BY <1>1 DEF update, updatable, LawfulMove

LEMMA ReturnLawful ==
  ASSUME NEW to \in Accounts, NEW value \in Nat, returnEscrowedRWA(to, value), UNCHANGED frozen
  PROVE  LawfulMove
BY SystemAccounts DEF returnEscrowedRWA, returnable, LawfulMove, SystemAddresses

LEMMA TokenLawful ==
  ASSUME Base, TokenNext
  PROVE  LawfulMove \/ UNCHANGED balance
<1> USE SystemAccounts DEF Base, TypeOK
<1>1. ASSUME NEW from \in Holders, NEW to \in Accounts, NEW value \in Amounts,
             transfer(from, to, value)
      PROVE  LawfulMove
  BY <1>1, UpdateLawful DEF transfer
<1>2. ASSUME NEW from \in Accounts, NEW to \in Accounts, NEW amount \in Amounts,
             forcedTransfer(from, to, amount)
      PROVE  LawfulMove
  BY <1>2 DEF forcedTransfer, LawfulMove
<1> QED  BY <1>1, <1>2 DEF TokenNext, pause, unpause, setFrozenTokens

LEMMA VaultLawful ==
  ASSUME Base, VaultNext
  PROVE  LawfulMove \/ UNCHANGED balance
<1> USE SystemAccounts DEF Base, TypeOK
<1>1. ASSUME NEW buyer, NEW recipient \in Accounts, NEW amount \in Amounts,
             NEW limit, NEW deadline, buy(buyer, amount, limit, recipient, deadline)
      PROVE  LawfulMove
  BY <1>1, UpdateLawful DEF buy
<1> QED  BY <1>1 DEF VaultNext, withdrawProceeds, setStrategy, setTreasury, setMinPurchaseQuote,
                     tokenVars

LEMMA EscrowLawful ==
  ASSUME Base, EscrowNext
  PROVE  LawfulMove \/ UNCHANGED balance
<1> USE SystemAccounts DEF Base, TypeOK
<1>0. ASSUME NEW id \in RequestIds
      PROVE  /\ requests[id].rwaAmount \in Nat
             /\ requests[id].status # "None" => requests[id].beneficiary \in Accounts
  BY DEF EscrowTypeOK, RedemptionRequest, HasBeneficiary
<1>1. ASSUME NEW caller \in Holders, NEW amount \in Amounts, NEW limit, NEW deadline,
             requestRedemption(caller, amount, limit, deadline)
      PROVE  LawfulMove
  BY <1>1, UpdateLawful DEF requestRedemption
<1>2. ASSUME NEW id \in RequestIds, rejectRedemption(id)
      PROVE  LawfulMove
  BY <1>0, <1>2, UpdateLawful DEF rejectRedemption, rejectable
<1>3. ASSUME NEW id \in RequestIds, NEW caller, cancelRedemption(id, caller)
      PROVE  LawfulMove
  BY <1>0, <1>3, ReturnLawful DEF cancelRedemption, cancellable
<1>4. ASSUME NEW id \in RequestIds, claimRedemption(id)
      PROVE  LawfulMove
  BY <1>0, <1>4, ReturnLawful DEF claimRedemption
<1> QED  BY <1>1, <1>2, <1>3, <1>4 DEF EscrowNext, fundRedemption, tokenVars

\* Mints and burns concern the Vault, which is eligible and never frozen.
LEMMA SupplyKeeps ==
  ASSUME Base, SystemOpen, SupplyNext
  PROVE  Held /\ Received
<1> USE SystemAccounts DEF Base, TypeOK, TokenTypeOK
<1>0. isAllowed(VaultAddr) /\ frozen[VaultAddr] = 0
  BY DEF SystemOpen, SystemAddresses, isAllowed
<1>1. ASSUME NEW a \in Attestations, mint(a)
      PROVE  Held /\ Received
  <2>1. a.amount \in Nat
    BY SupplyAssumption DEF Attestation
  <2>2. /\ balance'[VaultAddr] = balance[VaultAddr] + a.amount
        /\ \A c \in Accounts \ {VaultAddr} : balance'[c] = balance[c]
    BY <1>1, <2>1 DEF mint, controllerMint
  <2> QED  BY <1>0, <2>1, <2>2 DEF Held, Received
<1>2. ASSUME NEW a \in Attestations, burn(a)
      PROVE  Held /\ Received
  <2>1. a.amount \in Nat
    BY SupplyAssumption DEF Attestation
  <2>2. /\ balance'[VaultAddr] = balance[VaultAddr] - a.amount /\ balance'[VaultAddr] \in Nat
        /\ \A c \in Accounts \ {VaultAddr} : balance'[c] = balance[c]
        /\ frozen' = frozen
    BY <1>2, <2>1 DEF burn, controllerBurn
  <2>3. shortfall(VaultAddr) = 0 /\ shortfall(VaultAddr)' = 0
    BY <1>0, <2>2 DEF shortfall
  <2> QED  BY <2>1, <2>2, <2>3 DEF Held, Received
<1>3. CASE \E newAuditor \in Auditors : setAuditor(newAuditor)
  BY <1>3 DEF setAuditor, tokenVars, Held, Received
<1> QED  BY <1>1, <1>2, <1>3 DEF SupplyNext

LEMMA HeldStep ==
  ASSUME Base, SystemOpen, [Next]_vars
  PROVE  Held /\ Received
<1>0. CASE UNCHANGED balance
  BY <1>0 DEF Base, TypeOK, TokenTypeOK, Held, Received
<1>1. CASE TokenStep
  BY <1>0, <1>1, TokenLawful, LawfulKeeps DEF TokenStep
<1>2. CASE VaultStep
  BY <1>0, <1>2, VaultLawful, LawfulKeeps DEF VaultStep
<1>3. CASE EscrowStep
  BY <1>0, <1>3, EscrowLawful, LawfulKeeps DEF EscrowStep
<1>4. CASE SupplyStep
  BY <1>4, SupplyKeeps DEF SupplyStep
<1>5. CASE IncomeStep
  BY <1>0, <1>5 DEF IncomeStep, IncomeNext, createDistribution, claim, extendClaimDeadline,
                    reclaimUnclaimed, tokenVars
<1>6. CASE RegistryStep \/ QuoteStep \/ PriceStep \/ UNCHANGED vars
  BY <1>0, <1>6 DEF RegistryStep, QuoteStep, PriceStep, vars, tokenVars
<1> QED  BY <1>1, <1>2, <1>3, <1>4, <1>5, <1>6 DEF Next

\* No step spends an account's frozen tokens: only a seizure takes them, and it
\* lowers the hold by what it took.
THEOREM FrozenStaysHeld == Spec => FreezeHolds
<1>1. Base /\ SystemOpen /\ [Next]_vars => [Held]_vars
  BY HeldStep
<1> QED  BY <1>1, BaseInvariant, SystemStaysOpen, PTL DEF Spec, FreezeHolds, Held

\* Tokens arrive only at accounts that are eligible in the state in which the
\* transaction runs, by whichever path.
THEOREM ReceiversAllowed == Spec => OnlyAllowedReceive
<1>1. Base /\ SystemOpen /\ [Next]_vars => [Received]_vars
  BY HeldStep
<1> QED  BY <1>1, BaseInvariant, SystemStaysOpen, PTL DEF Spec, OnlyAllowedReceive, Received

-----------------------------------------------------------------------------
(* Each attestation at most once.                                          *)

\* Everything that was executed left its marks.
Marked ==
  \A a \in executed :
    /\ a.nonce \in nonceUsed
    /\ a.op = "mint" => a.key \in recordKeyUsed
    /\ a.op = "burn" => a.key \in operationIdUsed

Once == Marked /\ AttestedOnce

LEMMA OnceSupply ==
  ASSUME Base, Once, SupplyNext
  PROVE  Once'
<1> USE DEF Once, Marked, AttestedOnce
<1>1. ASSUME NEW a \in Attestations, mint(a)
      PROVE  Once'
  <2>1. /\ a.op = "mint" /\ a.nonce \notin nonceUsed /\ a.key \notin recordKeyUsed
        /\ nonceUsed' = nonceUsed \cup {a.nonce} /\ recordKeyUsed' = recordKeyUsed \cup {a.key}
        /\ operationIdUsed' = operationIdUsed /\ executed' = executed \cup {a}
    BY <1>1 DEF mint, acceptable
  <2>2. Marked'
    BY <2>1
  <2>3. ASSUME NEW b \in executed
        PROVE  a.nonce # b.nonce /\ ~(a.op = b.op /\ a.key = b.key)
    BY <2>1
  <2>4. AttestedOnce'
    BY <2>1, <2>3
  <2> QED  BY <2>2, <2>4
<1>2. ASSUME NEW a \in Attestations, burn(a)
      PROVE  Once'
  <2>1. /\ a.op = "burn" /\ a.nonce \notin nonceUsed /\ a.key \notin operationIdUsed
        /\ nonceUsed' = nonceUsed \cup {a.nonce} /\ operationIdUsed' = operationIdUsed \cup {a.key}
        /\ recordKeyUsed' = recordKeyUsed /\ executed' = executed \cup {a}
    BY <1>2 DEF burn, acceptable
  <2>2. Marked'
    BY <2>1
  <2>3. ASSUME NEW b \in executed
        PROVE  a.nonce # b.nonce /\ ~(a.op = b.op /\ a.key = b.key)
    BY <2>1
  <2>4. AttestedOnce'
    BY <2>1, <2>3
  <2> QED  BY <2>2, <2>4
<1>3. CASE \E newAuditor \in Auditors : setAuditor(newAuditor)
  BY <1>3 DEF setAuditor
<1> QED  BY <1>1, <1>2, <1>3 DEF SupplyNext

\* The other contracts never touch the controller's state.
LEMMA SupplyVarsKept ==
  ASSUME [Next]_vars, ~SupplyStep
  PROVE  UNCHANGED supplyVars
BY DEF Next, vars, supplyVars, RegistryStep, TokenStep, QuoteStep, PriceStep, VaultStep,
       EscrowStep, IncomeStep

LEMMA OnceStep ==
  ASSUME Base, Once, [Next]_vars
  PROVE  Once'
<1>1. CASE SupplyStep
  BY <1>1, OnceSupply DEF SupplyStep
<1>2. CASE ~SupplyStep
  BY <1>2, SupplyVarsKept DEF supplyVars, Once, Marked, AttestedOnce
<1> QED  BY <1>1, <1>2

\* No nonce, record or burn operation is ever executed twice, by whichever
\* auditors signed and in whatever order the attestations were submitted.
THEOREM ExecutedOnce == Spec => []AttestedOnce
<1>1. Init => Once
  BY DEF Init, SupplyInit, Once, Marked, AttestedOnce
<1>2. Base /\ Once /\ [Next]_vars => Once'
  BY OnceStep
<1>3. Once => AttestedOnce
  BY DEF Once
<1> QED  BY <1>1, <1>2, <1>3, BaseInvariant, PTL DEF Spec

-----------------------------------------------------------------------------
(* The supply is what was attested.                                        *)

minted == [a \in Attestations |-> mintedBy(a)]
burnt == [a \in Attestations |-> burntBy(a)]

LEMMA AmountsType ==
  /\ minted \in [Attestations -> Nat]
  /\ burnt \in [Attestations -> Nat]
<1>1. \A a \in Attestations : a.amount \in Nat
  BY SupplyAssumption DEF Attestation
<1> QED  BY <1>1 DEF minted, burnt, mintedBy, burntBy

LEMMA AmountsTypeNext ==
  /\ minted' \in [Attestations -> Nat]
  /\ burnt' \in [Attestations -> Nat]
<1>1. \A a \in Attestations : a.amount \in Nat
  BY SupplyAssumption DEF Attestation
<1> QED  BY <1>1 DEF minted, burnt, mintedBy, burntBy

LEMMA AttestedSupply ==
  ASSUME Base, Once, SupplyAttested, SupplyNext
  PROVE  SupplyAttested'
<1> DEFINE M == minted
           B == burnt
<1>t. M \in [Attestations -> Nat] /\ B \in [Attestations -> Nat]
      /\ M' \in [Attestations -> Nat] /\ B' \in [Attestations -> Nat]
  BY AmountsType, AmountsTypeNext
<1>s. totalSupply \in Nat /\ Total(M) \in Nat /\ Total(B) \in Nat
  BY <1>t, TotalType, ProjectAssumption DEF Base, TypeOK, TokenTypeOK
<1>0. totalSupply + Total(B) = Total(M)
  BY DEF SupplyAttested, minted, burnt
<1>d. (totalSupply' + Total(B') = Total(M')) => SupplyAttested'
  BY DEF SupplyAttested, minted, burnt
<1>1. ASSUME NEW a \in Attestations, mint(a)
      PROVE  SupplyAttested'
  <2>1. a.op = "mint" /\ a \notin executed /\ executed' = executed \cup {a} /\ a.amount \in Nat
    BY <1>1, SupplyAssumption DEF mint, acceptable, Once, Marked, Attestation
  <2>2. totalSupply' = totalSupply + a.amount
    BY <1>1 DEF mint, controllerMint
  <2>3. M[a] = 0 /\ M'[a] = a.amount /\ \A b \in Attestations \ {a} : M'[b] = M[b]
    BY <2>1 DEF minted, mintedBy
  <2>4. B' = B
    BY <2>1 DEF burnt, burntBy
  <2> HIDE DEF M, B
  <2>5. Total(M') = Total(M) - M[a] + M'[a]
    BY <1>t, <2>3, TotalChanged, ProjectAssumption
  <2>6. Total(M') = Total(M) + a.amount
    BY <1>s, <2>1, <2>3, <2>5
  <2> QED  BY <1>0, <1>d, <1>s, <2>1, <2>2, <2>4, <2>6
<1>2. ASSUME NEW a \in Attestations, burn(a)
      PROVE  SupplyAttested'
  <2>1. a.op = "burn" /\ a \notin executed /\ executed' = executed \cup {a} /\ a.amount \in Nat
    BY <1>2, SupplyAssumption DEF burn, acceptable, Once, Marked, Attestation
  <2>2. totalSupply' = totalSupply - a.amount
    BY <1>2 DEF burn, controllerBurn
  <2>3. B[a] = 0 /\ B'[a] = a.amount /\ \A b \in Attestations \ {a} : B'[b] = B[b]
    BY <2>1 DEF burnt, burntBy
  <2>4. M' = M
    BY <2>1 DEF minted, mintedBy
  <2> HIDE DEF M, B
  <2>5. Total(B') = Total(B) - B[a] + B'[a]
    BY <1>t, <2>3, TotalChanged, ProjectAssumption
  <2>6. Total(B') = Total(B) + a.amount
    BY <1>s, <2>1, <2>3, <2>5
  <2> QED  BY <1>0, <1>d, <1>s, <2>1, <2>2, <2>4, <2>6
<1>3. CASE \E newAuditor \in Auditors : setAuditor(newAuditor)
  BY <1>3 DEF setAuditor, tokenVars, SupplyAttested, mintedBy, burntBy
<1> QED  BY <1>1, <1>2, <1>3 DEF SupplyNext

\* Only the controller changes the supply.
LEMMA SupplyKept ==
  ASSUME Base, [Next]_vars, ~SupplyStep
  PROVE  UNCHANGED <<totalSupply, executed>>
<1>1. UNCHANGED executed
  BY SupplyVarsKept DEF supplyVars
<1>2. CASE TokenStep
  BY <1>1, <1>2 DEF TokenStep, TokenNext, transfer, pause, unpause, setFrozenTokens, forcedTransfer
<1>3. CASE VaultStep
  BY <1>1, <1>3 DEF VaultStep, VaultNext, buy, withdrawProceeds, setStrategy, setTreasury,
              setMinPurchaseQuote, tokenVars
<1>4. CASE EscrowStep
  BY <1>1, <1>4 DEF EscrowStep, EscrowNext, requestRedemption, fundRedemption, rejectRedemption,
              cancelRedemption, claimRedemption, tokenVars
<1>5. CASE IncomeStep
  BY <1>1, <1>5 DEF IncomeStep, IncomeNext, createDistribution, claim, extendClaimDeadline,
              reclaimUnclaimed, tokenVars
<1>6. CASE RegistryStep \/ QuoteStep \/ PriceStep \/ UNCHANGED vars
  BY <1>1, <1>6 DEF RegistryStep, QuoteStep, PriceStep, vars, tokenVars
<1> QED  BY <1>1, <1>2, <1>3, <1>4, <1>5, <1>6 DEF Next

LEMMA AttestedStep ==
  ASSUME Base, Once, SupplyAttested, [Next]_vars
  PROVE  SupplyAttested'
<1>1. CASE SupplyStep
  BY <1>1, AttestedSupply DEF SupplyStep
<1>2. CASE ~SupplyStep
  BY <1>2, SupplyKept DEF SupplyAttested, mintedBy, burntBy
<1> QED  BY <1>1, <1>2

\* The supply is always the executed mint attestations less the executed burn
\* attestations, each counted once.
THEOREM SupplyStaysAttested == Spec => []SupplyAttested
<1>1. Init => Once /\ SupplyAttested
  <2> SUFFICES ASSUME Init PROVE Once /\ SupplyAttested
    OBVIOUS
  <2>1. Once
    BY DEF Init, SupplyInit, Once, Marked, AttestedOnce
  <2>2. minted = [a \in Attestations |-> 0] /\ burnt = [a \in Attestations |-> 0]
    BY DEF Init, SupplyInit, minted, burnt, mintedBy, burntBy
  <2>3. Total([a \in Attestations |-> 0]) = 0
    BY TotalZero, ProjectAssumption
  <2>4. SupplyAttested
    BY <2>2, <2>3 DEF Init, TokenInit, SupplyAttested, minted, burnt
  <2> QED  BY <2>1, <2>4
<1>2. Base /\ Once /\ SupplyAttested /\ [Next]_vars => Once' /\ SupplyAttested'
  BY OnceStep, AttestedStep
<1> QED  BY <1>1, <1>2, BaseInvariant, PTL DEF Spec
-----------------------------------------------------------------------------
(* The distributor can pay what is left of its open distributions.  What   *)
(* makes this inductive is that a reclaimed distribution is closed for     *)
(* ever: its deadline has passed and cannot be extended, so that no claim  *)
(* can be paid out of the money of another distribution.                   *)

ReclaimedClosed ==
  \A id \in DistributionIds :
    distributions[id].reclaimed => now > distributions[id].claimDeadline

LEMMA ClosedIncome ==
  ASSUME Base, ReclaimedClosed, IncomeNext, UNCHANGED now
  PROVE  ReclaimedClosed'
<1> USE DEF Base, TypeOK, IncomeTypeOK
<1>1. ASSUME NEW root \in Roots, NEW total \in Amounts, NEW deadline \in 1..MaxDeadline,
             createDistribution(root, total, deadline)
      PROVE  ReclaimedClosed'
  BY <1>1, IncomeAssumption DEF createDistribution, ReclaimedClosed, DistributionIds
<1>2. ASSUME NEW id \in DistributionIds, NEW d, ~d.reclaimed,
             distributions' = [distributions EXCEPT ![id] = d]
      PROVE  ReclaimedClosed'
  BY <1>2 DEF ReclaimedClosed
<1>3. ASSUME NEW id \in DistributionIds, NEW caller \in Holders, NEW amount \in Amounts,
             claim(id, caller, amount)
      PROVE  ReclaimedClosed'
  <2>1. distributions[id].claimDeadline \in Nat /\ now \in Nat /\ now <= distributions[id].claimDeadline
    BY <1>3 DEF claim, Distribution, RegistryTypeOK
  <2>2. ~distributions[id].reclaimed
    BY <2>1 DEF ReclaimedClosed
  <2>3. ~[distributions[id] EXCEPT !.claimed = @ + amount].reclaimed
    BY <2>2 DEF Distribution
  <2> QED  BY <1>2, <1>3, <2>3 DEF claim
<1>4. ASSUME NEW id \in DistributionIds, NEW deadline, extendClaimDeadline(id, deadline)
      PROVE  ReclaimedClosed'
  <2>1. ~[distributions[id] EXCEPT !.claimDeadline = deadline].reclaimed
    BY <1>4 DEF extendClaimDeadline, Distribution
  <2> QED  BY <1>2, <1>4, <2>1 DEF extendClaimDeadline
<1>5. ASSUME NEW id \in DistributionIds, reclaimUnclaimed(id)
      PROVE  ReclaimedClosed'
  <2>1. /\ distributions'[id].claimDeadline = distributions[id].claimDeadline
        /\ \A i \in DistributionIds \ {id} : distributions'[i] = distributions[i]
    BY <1>5 DEF reclaimUnclaimed, Distribution
  <2>2. now > distributions[id].claimDeadline
    BY <1>5 DEF reclaimUnclaimed
  <2> QED  BY <2>1, <2>2 DEF ReclaimedClosed
<1> QED  BY <1>1, <1>3, <1>4, <1>5 DEF IncomeNext

LEMMA ClosedStep ==
  ASSUME Base, ReclaimedClosed, [Next]_vars
  PROVE  ReclaimedClosed'
<1>1. CASE RegistryStep
  <2>1. now' >= now /\ now \in Nat /\ now' \in Nat
    BY <1>1 DEF RegistryStep, RegistryNext, setStatus, setStatuses, Tick, Base, TypeOK, RegistryTypeOK
  <2>2. \A id \in DistributionIds : distributions[id].claimDeadline \in Nat
    BY DEF Base, TypeOK, IncomeTypeOK, Distribution
  <2> QED  BY <1>1, <2>1, <2>2 DEF RegistryStep, incomeVars, ReclaimedClosed
<1>2. CASE IncomeStep
  BY <1>2, ClosedIncome DEF IncomeStep, registryVars
<1>3. CASE UNCHANGED <<now, distributions>>
  BY <1>3 DEF ReclaimedClosed
<1> QED
  BY <1>1, <1>2, <1>3
  DEF Next, vars, TokenStep, QuoteStep, SupplyStep, PriceStep, VaultStep, EscrowStep,
      registryVars, incomeVars

\* Once a distribution is reclaimed its claim window is over for good, because
\* extendClaimDeadline refuses it: no claim can follow the reclaim.
THEOREM ReclaimedStaysClosed == Spec => []ReclaimedClosed
<1>1. Init => ReclaimedClosed
  BY DEF Init, IncomeInit, NoDistribution, ReclaimedClosed
<1>2. Base /\ ReclaimedClosed /\ [Next]_vars => ReclaimedClosed'
  BY ClosedStep
<1> QED  BY <1>1, <1>2, BaseInvariant, PTL DEF Spec

-----------------------------------------------------------------------------
(* The distributor's money.                                                *)

incomeDebts == [id \in DistributionIds |-> incomeOwed(distributions[id])]

LEMMA DistributionsFinite == IsFiniteSet(DistributionIds)
BY FS_Interval, IncomeAssumption DEF DistributionIds

\* What a distribution owes is a natural number.
LEMMA OwedType ==
  ASSUME NEW d \in Distribution, d.claimed <= d.total
  PROVE  incomeOwed(d) \in Nat
<1>1. d.claimed \in Nat /\ d.total \in Nat
  BY DEF Distribution
<1>2. CASE d.reclaimed
  BY <1>2 DEF incomeOwed
<1>3. CASE ~d.reclaimed
  BY <1>1, <1>3 DEF incomeOwed
<1> QED  BY <1>2, <1>3

LEMMA IncomeDebtsType ==
  ASSUME IncomeTypeOK, NotOverpaid
  PROVE  incomeDebts \in [DistributionIds -> Nat]
BY OwedType DEF IncomeTypeOK, NotOverpaid, incomeDebts

LEMMA IncomeDebtsTypeNext ==
  ASSUME IncomeTypeOK', NotOverpaid'
  PROVE  incomeDebts' \in [DistributionIds -> Nat]
<1>1. \A id \in DistributionIds : incomeOwed(distributions'[id]) \in Nat
  BY OwedType DEF IncomeTypeOK, NotOverpaid
<1> QED  BY <1>1 DEF incomeDebts, incomeOwed

Paid == Total(incomeDebts) <= quote[DistributorAddr]

LEMMA PaidElsewhere ==
  ASSUME Base, Base', Paid, UNCHANGED distributions,
         quote'[DistributorAddr] >= quote[DistributorAddr]
  PROVE  Paid'
<1>1. Total(incomeDebts)' = Total(incomeDebts)
  BY DEF incomeDebts
<1>2. Total(incomeDebts) \in Nat
  BY IncomeDebtsType, DistributionsFinite, TotalType DEF Base, TypeOK
<1>3. quote[DistributorAddr] \in Nat /\ quote'[DistributorAddr] \in Nat
  BY SystemAccounts DEF Base, TypeOK, QuoteTypeOK
<1> QED  BY <1>1, <1>2, <1>3 DEF Paid

\* A step of one distribution: what it owed before and after against what moved.
LEMMA PaidStage ==
  ASSUME Base, Base', Paid, NEW id \in DistributionIds,
         \A i \in DistributionIds \ {id} : distributions'[i] = distributions[i],
         quote'[DistributorAddr] - quote[DistributorAddr]
           >= incomeOwed(distributions'[id]) - incomeOwed(distributions[id])
  PROVE  Paid'
<1>1. incomeDebts \in [DistributionIds -> Nat] /\ incomeDebts' \in [DistributionIds -> Nat]
  BY IncomeDebtsType, IncomeDebtsTypeNext DEF Base, TypeOK
<1>2. \A i \in DistributionIds : /\ incomeDebts[i] = incomeOwed(distributions[i])
                                 /\ incomeDebts'[i] = incomeOwed(distributions'[i])
  BY DEF incomeDebts, incomeOwed
<1>3. \A i \in DistributionIds \ {id} : incomeDebts'[i] = incomeDebts[i]
  BY <1>2
<1>4. Total(incomeDebts') = Total(incomeDebts) - incomeDebts[id] + incomeDebts'[id]
  BY <1>1, <1>3, DistributionsFinite, TotalChanged
<1>5. Total(incomeDebts) \in Nat /\ Total(incomeDebts') \in Nat
  BY <1>1, DistributionsFinite, TotalType
<1>6. Total(incomeDebts)' = Total(incomeDebts')
  BY DEF Total, Units
<1>7. quote[DistributorAddr] \in Nat /\ quote'[DistributorAddr] \in Nat
  BY SystemAccounts DEF Base, TypeOK, QuoteTypeOK
<1> QED  BY <1>1, <1>2, <1>4, <1>5, <1>6, <1>7 DEF Paid

LEMMA PaidIncome ==
  ASSUME Base, Base', ReclaimedClosed, Paid, IncomeNext
  PROVE  Paid'
<1> USE SystemAccounts, IncomeAssumption DEF Base, TypeOK
<1>0. quote \in [Accounts -> Nat] /\ quote[DistributorAddr] \in Nat /\ quote'[DistributorAddr] \in Nat
  BY DEF QuoteTypeOK
<1>d. ASSUME NEW id \in DistributionIds
      PROVE  /\ distributions[id] \in Distribution
             /\ distributions[id].claimed \in Nat /\ distributions[id].total \in Nat
             /\ distributions[id].claimDeadline \in Nat /\ now \in Nat
             /\ distributions[id].claimed <= distributions[id].total
             /\ remainder(id) \in Nat
  BY DEF IncomeTypeOK, Distribution, NotOverpaid, remainder, RegistryTypeOK
\* A new distribution brings its total with it.
<1>1. ASSUME NEW root \in Roots, NEW total \in Amounts, NEW deadline \in 1..MaxDeadline,
             createDistribution(root, total, deadline)
      PROVE  Paid'
  <2> DEFINE id == nextDistribution
  <2>1. id \in DistributionIds /\ distributions[id] = NoDistribution
    BY <1>1 DEF createDistribution, IncomeTypeOK, DistributionIds, FreshDistributions
  <2>2. /\ \A i \in DistributionIds \ {id} : distributions'[i] = distributions[i]
        /\ distributions'[id].total = total /\ distributions'[id].claimed = 0
        /\ ~distributions'[id].reclaimed
    BY <1>1, <2>1 DEF createDistribution, IncomeTypeOK
  <2>3. incomeOwed(distributions[id]) = 0
    BY <2>1 DEF incomeOwed, NoDistribution
  <2>4. incomeOwed(distributions'[id]) = total
    BY <2>2 DEF incomeOwed
  <2>5. IncomeManager \in Accounts /\ IncomeManager # DistributorAddr /\ total \in Nat
    OBVIOUS
  <2>6. quote' = Moved(quote, IncomeManager, DistributorAddr, total) /\ total <= quote[IncomeManager]
    BY <1>1, <2>5, CheckedTransfer DEF createDistribution
  <2>7. quote'[DistributorAddr] = quote[DistributorAddr] + total
    BY <1>0, <2>5, <2>6, MovedType
  <2> HIDE DEF id
  <2> QED  BY <1>0, <2>1, <2>2, <2>3, <2>4, <2>5, <2>7, PaidStage
\* A claim is only paid by a distribution that still owes it.
<1>2. ASSUME NEW id \in DistributionIds, NEW caller \in Holders, NEW amount \in Amounts,
             claim(id, caller, amount)
      PROVE  Paid'
  <2>1. ~distributions[id].reclaimed
    BY <1>2, <1>d DEF claim, ReclaimedClosed
  <2>2. /\ \A i \in DistributionIds \ {id} : distributions'[i] = distributions[i]
        /\ distributions'[id] = [distributions[id] EXCEPT !.claimed = @ + amount]
    BY <1>2 DEF claim, IncomeTypeOK
  <2>3. /\ distributions'[id].total = distributions[id].total
        /\ distributions'[id].claimed = distributions[id].claimed + amount
        /\ ~distributions'[id].reclaimed
    BY <1>d, <2>1, <2>2 DEF Distribution
  <2>4. incomeOwed(distributions[id]) = distributions[id].total - distributions[id].claimed
    BY <2>1 DEF incomeOwed
  <2>5. incomeOwed(distributions'[id]) = distributions[id].total - (distributions[id].claimed + amount)
    BY <2>3 DEF incomeOwed
  <2>6. quote'[DistributorAddr] >= quote[DistributorAddr] - amount
    BY <1>2, CheckedTransfer DEF claim
  <2> QED  BY <1>0, <1>d, <2>2, <2>4, <2>5, <2>6, PaidStage
<1>3. ASSUME NEW id \in DistributionIds, NEW deadline, extendClaimDeadline(id, deadline)
      PROVE  Paid'
  <2>1. /\ \A i \in DistributionIds \ {id} : distributions'[i] = distributions[i]
        /\ distributions'[id] = [distributions[id] EXCEPT !.claimDeadline = deadline]
        /\ quote' = quote
    BY <1>3 DEF extendClaimDeadline, IncomeTypeOK
  <2>2. incomeOwed(distributions'[id]) = incomeOwed(distributions[id])
    BY <1>d, <2>1 DEF Distribution, incomeOwed
  <2>3. incomeOwed(distributions[id]) \in Nat
    BY <1>d, OwedType
  <2> QED  BY <1>0, <2>1, <2>2, <2>3, PaidStage
\* A reclaim takes the remainder, and leaves nothing owed.
<1>4. ASSUME NEW id \in DistributionIds, reclaimUnclaimed(id)
      PROVE  Paid'
  <2>1. /\ \A i \in DistributionIds \ {id} : distributions'[i] = distributions[i]
        /\ distributions'[id].reclaimed
    BY <1>4, <1>d DEF reclaimUnclaimed, IncomeTypeOK, Distribution
  <2>2. incomeOwed(distributions'[id]) = 0
    BY <2>1 DEF incomeOwed
  <2>3. incomeOwed(distributions[id]) = remainder(id)
    BY <1>4 DEF incomeOwed, remainder, reclaimUnclaimed
  <2>4. quote'[DistributorAddr] >= quote[DistributorAddr] - remainder(id)
    BY <1>0, <1>4, <1>d, CheckedTransfer DEF reclaimUnclaimed, VaultTypeOK
  <2> QED  BY <1>0, <1>d, <2>1, <2>2, <2>3, <2>4, PaidStage
<1> QED  BY <1>1, <1>2, <1>3, <1>4 DEF IncomeNext

\* No other contract's transaction takes money from the distributor.
LEMMA PaidOthers ==
  ASSUME Base, VaultNext \/ EscrowNext
  PROVE  quote'[DistributorAddr] >= quote[DistributorAddr]
<1> USE SystemAccounts, EscrowAssumption DEF Base, TypeOK
<1>0. quote[DistributorAddr] \in Nat
  BY DEF QuoteTypeOK
<1>1. ASSUME NEW buyer \in Holders, NEW recipient, NEW amount \in Amounts,
             NEW limit, NEW deadline, buy(buyer, amount, limit, recipient, deadline)
      PROVE  quote'[DistributorAddr] >= quote[DistributorAddr]
  <2>1. quotePurchase(strategy, amount) \in Nat
    BY QuotesType DEF VaultTypeOK
  <2> QED  BY <1>1, <2>1, CheckedTransfer DEF buy
<1>2. ASSUME NEW amount \in Amounts, withdrawProceeds(amount)
      PROVE  quote'[DistributorAddr] >= quote[DistributorAddr]
  BY <1>2, CheckedTransfer DEF withdrawProceeds, VaultTypeOK
<1>3. ASSUME NEW id \in RequestIds, fundRedemption(id)
      PROVE  quote'[DistributorAddr] >= quote[DistributorAddr]
  <2>1. requests[id].quoteAmount \in Nat
    BY DEF EscrowTypeOK, RedemptionRequest
  <2> QED  BY <1>3, <2>1, CheckedTransfer DEF fundRedemption
<1>4. ASSUME NEW id \in RequestIds, claimRedemption(id)
      PROVE  quote'[DistributorAddr] >= quote[DistributorAddr]
  <2>1. requests[id].quoteAmount \in Nat /\ requests[id].beneficiary \in Accounts
    BY <1>4 DEF EscrowTypeOK, RedemptionRequest, HasBeneficiary, claimRedemption
  <2> QED  BY <1>4, <2>1, CheckedTransfer DEF claimRedemption
<1>5. CASE UNCHANGED quote
  BY <1>0, <1>5
<1>6. CASE VaultNext
  BY <1>1, <1>2, <1>5, <1>6 DEF VaultNext, setStrategy, setTreasury, setMinPurchaseQuote
<1>7. CASE EscrowNext
  BY <1>3, <1>4, <1>5, <1>7 DEF EscrowNext, requestRedemption, rejectRedemption, cancelRedemption
<1> QED  BY <1>6, <1>7

LEMMA PaidStep ==
  ASSUME Base, ReclaimedClosed, Paid, [Next]_vars
  PROVE  Paid'
<1>0. Base'
  BY BaseStep
<1>n. quote[DistributorAddr] \in Nat
  BY SystemAccounts DEF Base, TypeOK, QuoteTypeOK
<1>1. CASE IncomeStep
  BY <1>0, <1>1, PaidIncome DEF IncomeStep
<1>2. CASE VaultStep \/ EscrowStep
  BY <1>0, <1>2, PaidOthers, PaidElsewhere DEF VaultStep, EscrowStep, incomeVars
<1>3. CASE QuoteStep
  BY <1>0, <1>3, QuoteType, SystemAccounts, PaidElsewhere DEF QuoteStep, incomeVars, Base, TypeOK
<1>4. CASE UNCHANGED <<quote, distributions>>
  BY <1>0, <1>n, <1>4, PaidElsewhere
<1> QED
  BY <1>1, <1>2, <1>3, <1>4
  DEF Next, vars, RegistryStep, TokenStep, SupplyStep, PriceStep, incomeVars

\* The distributor holds what is left of all open distributions together, and
\* none has paid more than its deposit, whatever the published roots promise.
THEOREM IncomeSolvent == Spec => []IncomeBacked
<1>1. Init => Paid
  <2> SUFFICES ASSUME Init PROVE Paid
    OBVIOUS
  <2>1. incomeDebts \in [DistributionIds -> Nat] /\ \A id \in DistributionIds : incomeDebts[id] = 0
    BY DEF Init, IncomeInit, NoDistribution, incomeDebts, incomeOwed
  <2>2. quote[DistributorAddr] \in Nat
    BY BaseInit, SystemAccounts DEF Base, TypeOK, QuoteTypeOK
  <2> QED  BY <2>1, <2>2, TotalZero DEF Paid
<1>2. Base /\ ReclaimedClosed /\ Paid /\ [Next]_vars => Paid'
  BY PaidStep
<1>3. Base /\ Paid => IncomeBacked
  BY DEF Base, NotOverpaid, Paid, incomeDebts, IncomeBacked
<1> QED  BY <1>1, <1>2, <1>3, BaseInvariant, ReclaimedStaysClosed, PTL DEF Spec

-----------------------------------------------------------------------------
(* Entitlements.  What a distribution has paid is the sum of one leaf of   *)
(* each holder who claimed, so that under an honest root the leaves of the *)
(* others fit into what is left.                                           *)

\* The sum of the leaves in paid, over the root they belong to.
leavesOf(root, paid) == [leaf \in root |-> IF leaf \in paid THEN leaf[2] ELSE 0]

PaidByLeaves(d, holders) ==
  /\ IsFiniteSet(d.merkleRoot)
  /\ \E paid \in SUBSET d.merkleRoot :
       /\ \A leaf \in paid : leaf[1] \in holders
       /\ d.claimed = Total(leavesOf(d.merkleRoot, paid))

ClaimsPaid == \A id \in DistributionIds : PaidByLeaves(distributions[id], incomeClaimed[id])

LEMMA LeavesType ==
  ASSUME NEW root \in SUBSET (Accounts \X Nat), NEW paid
  PROVE  leavesOf(root, paid) \in [root -> Nat]
BY DEF leavesOf

\* Paying one more leaf adds its amount to the sum.
LEMMA OneMoreLeaf ==
  ASSUME NEW root \in SUBSET (Accounts \X Nat), IsFiniteSet(root), NEW paid \in SUBSET root,
         NEW leaf \in root, leaf \notin paid
  PROVE  /\ Total(leavesOf(root, paid \cup {leaf})) = Total(leavesOf(root, paid)) + leaf[2]
         /\ Total(leavesOf(root, paid)) \in Nat
<1> DEFINE f == leavesOf(root, paid)
           g == leavesOf(root, paid \cup {leaf})
<1>1. f \in [root -> Nat] /\ g \in [root -> Nat]
  BY LeavesType
<1>2. f[leaf] = 0 /\ g[leaf] = leaf[2] /\ leaf[2] \in Nat /\ \A x \in root \ {leaf} : g[x] = f[x]
  BY DEF leavesOf
<1> HIDE DEF f, g
<1>3. Total(g) = Total(f) - f[leaf] + g[leaf]
  BY <1>1, <1>2, TotalChanged
<1>4. Total(f) \in Nat
  BY <1>1, TotalType
<1> QED  BY <1>2, <1>3, <1>4 DEF f, g

LEMMA ClaimsPaidIncome ==
  ASSUME Base, ClaimsPaid, IncomeNext
  PROVE  ClaimsPaid'
<1> USE DEF Base, TypeOK, IncomeTypeOK
<1>d. ASSUME NEW id \in DistributionIds
      PROVE  /\ distributions[id] \in Distribution
             /\ distributions[id].merkleRoot \in SUBSET (Accounts \X Nat)
             /\ PaidByLeaves(distributions[id], incomeClaimed[id])
  BY DEF Distribution, ClaimsPaid
<1>s. ASSUME NEW id \in DistributionIds,
             \A i \in DistributionIds \ {id} :
               distributions'[i] = distributions[i] /\ incomeClaimed'[i] = incomeClaimed[i],
             PaidByLeaves(distributions'[id], incomeClaimed'[id])
      PROVE  ClaimsPaid'
  BY <1>s DEF ClaimsPaid, PaidByLeaves
\* A new distribution has paid nothing.
<1>1. ASSUME NEW root \in Roots, NEW total \in Amounts, NEW deadline \in 1..MaxDeadline,
             createDistribution(root, total, deadline)
      PROVE  ClaimsPaid'
  <2> DEFINE id == nextDistribution
  <2>1. id \in DistributionIds
    BY <1>1, IncomeAssumption DEF createDistribution, DistributionIds
  <2>2. /\ \A i \in DistributionIds \ {id} :
             distributions'[i] = distributions[i] /\ incomeClaimed'[i] = incomeClaimed[i]
        /\ distributions'[id].merkleRoot = root /\ distributions'[id].claimed = 0
    BY <1>1, <2>1 DEF createDistribution
  <2>3. IsFiniteSet(root) /\ root \in SUBSET (Accounts \X Nat)
    BY ProjectAssumption, IncomeAssumption
  <2>4. Total(leavesOf(root, {})) = 0
    <3>1. /\ leavesOf(root, {}) \in [root -> Nat]
          /\ \A leaf \in root : leavesOf(root, {})[leaf] = 0
      BY <2>3, LeavesType DEF leavesOf
    <3> QED  BY <3>1, TotalZero
  <2>5. PaidByLeaves(distributions'[id], incomeClaimed'[id])
    <3>1. {} \in SUBSET root /\ \A leaf \in {} : leaf[1] \in incomeClaimed'[id]
      OBVIOUS
    <3> QED  BY <2>2, <2>3, <2>4, <3>1 DEF PaidByLeaves
  <2> HIDE DEF id
  <2> QED  BY <1>s, <2>1, <2>2, <2>5
\* A claim pays one leaf of a holder who had none paid.
<1>2. ASSUME NEW id \in DistributionIds, NEW caller \in Holders, NEW amount \in Amounts,
             claim(id, caller, amount)
      PROVE  ClaimsPaid'
  <2> DEFINE root == distributions[id].merkleRoot
             leaf == <<caller, amount>>
  <2>1. /\ \A i \in DistributionIds \ {id} :
             distributions'[i] = distributions[i] /\ incomeClaimed'[i] = incomeClaimed[i]
        /\ distributions'[id] = [distributions[id] EXCEPT !.claimed = @ + amount]
        /\ incomeClaimed'[id] = incomeClaimed[id] \cup {caller}
    BY <1>2 DEF claim
  <2>2. /\ distributions'[id].merkleRoot = root
        /\ distributions'[id].claimed = distributions[id].claimed + amount
    BY <1>d, <2>1 DEF Distribution
  <2>3. caller \notin incomeClaimed[id] /\ leaf \in root
    BY <1>2 DEF claim
  <2>4. PICK paid \in SUBSET root :
          /\ \A x \in paid : x[1] \in incomeClaimed[id]
          /\ distributions[id].claimed = Total(leavesOf(root, paid))
    BY <1>d DEF PaidByLeaves
  <2>5. leaf \notin paid /\ leaf[1] = caller /\ leaf[2] = amount
    BY <2>3, <2>4
  <2>6. IsFiniteSet(root) /\ root \in SUBSET (Accounts \X Nat)
    BY <1>d DEF PaidByLeaves
  <2> HIDE DEF root, leaf
  <2>7. Total(leavesOf(root, paid \cup {leaf})) = Total(leavesOf(root, paid)) + leaf[2]
    BY <2>3, <2>5, <2>6, OneMoreLeaf
  <2>8. /\ paid \cup {leaf} \in SUBSET root
        /\ \A x \in paid \cup {leaf} : x[1] \in incomeClaimed'[id]
        /\ distributions'[id].claimed = Total(leavesOf(root, paid \cup {leaf}))
    BY <2>1, <2>2, <2>3, <2>4, <2>5, <2>7
  <2>9. PaidByLeaves(distributions'[id], incomeClaimed'[id])
    BY <2>2, <2>6, <2>8 DEF PaidByLeaves
  <2> QED  BY <1>s, <2>1, <2>9
<1>3. ASSUME NEW id \in DistributionIds, UNCHANGED incomeClaimed,
             \A i \in DistributionIds \ {id} : distributions'[i] = distributions[i],
             distributions'[id].merkleRoot = distributions[id].merkleRoot,
             distributions'[id].claimed = distributions[id].claimed
      PROVE  ClaimsPaid'
  <2>1. PaidByLeaves(distributions'[id], incomeClaimed'[id])
    BY <1>d, <1>3 DEF PaidByLeaves
  <2> QED  BY <1>s, <1>3, <2>1
<1>4. ASSUME NEW id \in DistributionIds, NEW deadline, extendClaimDeadline(id, deadline)
      PROVE  ClaimsPaid'
  BY <1>d, <1>3, <1>4 DEF extendClaimDeadline, Distribution
<1>5. ASSUME NEW id \in DistributionIds, reclaimUnclaimed(id)
      PROVE  ClaimsPaid'
  BY <1>d, <1>3, <1>5 DEF reclaimUnclaimed, Distribution
<1> QED  BY <1>1, <1>2, <1>4, <1>5 DEF IncomeNext

LEMMA ClaimsPaidStep ==
  ASSUME Base, ClaimsPaid, [Next]_vars
  PROVE  ClaimsPaid'
<1>1. CASE IncomeStep
  BY <1>1, ClaimsPaidIncome DEF IncomeStep
<1>2. CASE UNCHANGED <<distributions, incomeClaimed>>
  BY <1>2 DEF ClaimsPaid, PaidByLeaves
<1> QED
  BY <1>1, <1>2
  DEF Next, vars, RegistryStep, TokenStep, QuoteStep, SupplyStep, PriceStep, VaultStep, EscrowStep,
      incomeVars

\* The leaf of a holder who has not claimed fits into what is left.
LEMMA LeafFits ==
  ASSUME NEW d \in Distribution, NEW holders, PaidByLeaves(d, holders), Honest(d),
         NEW leaf \in d.merkleRoot, leaf[1] \notin holders
  PROVE  d.claimed + leaf[2] <= d.total
<1> DEFINE root == d.merkleRoot
           all == [x \in root |-> x[2]]
<1>1. root \in SUBSET (Accounts \X Nat) /\ IsFiniteSet(root) /\ d.total \in Nat
  BY DEF Distribution, PaidByLeaves
<1>2. PICK paid \in SUBSET root :
        (\A x \in paid : x[1] \in holders) /\ d.claimed = Total(leavesOf(root, paid))
  BY DEF PaidByLeaves
<1>3. Total(all) <= d.total
  BY DEF Honest
<1> DEFINE more == leavesOf(root, paid \cup {leaf})
<1>4. more \in [root -> Nat] /\ all \in [root -> Nat] /\ \A x \in root : more[x] <= all[x]
  BY <1>1 DEF leavesOf
<1>5. leaf \notin paid /\ leaf \in root /\ leaf[2] \in Nat
  BY <1>1, <1>2
<1> HIDE DEF root, all, more
<1>6. Total(more) <= Total(all) /\ Total(more) \in Nat /\ Total(all) \in Nat
  BY <1>1, <1>4, TotalMonotone, TotalType
<1>7. Total(more) = d.claimed + leaf[2] /\ d.claimed \in Nat
  BY <1>1, <1>2, <1>5, OneMoreLeaf DEF more
<1> QED  BY <1>1, <1>3, <1>6, <1>7

\* Under a root that promises no more than the deposit, an entitled holder who
\* has not claimed is never refused for lack of money while his window is open.
THEOREM EntitlementsKept == Spec => []EntitlementKept
<1>1. Init => ClaimsPaid
  <2> SUFFICES ASSUME Init, NEW id \in DistributionIds
               PROVE  PaidByLeaves(distributions[id], incomeClaimed[id])
    BY DEF ClaimsPaid
  <2>1. distributions[id].merkleRoot = {} /\ distributions[id].claimed = 0
    BY DEF Init, IncomeInit, NoDistribution
  <2>2. IsFiniteSet({})
    BY FS_EmptySet
  <2>3. leavesOf({}, {}) \in [{} -> Nat]
    BY DEF leavesOf
  <2>4. Total(leavesOf({}, {})) = 0
    BY <2>3, TotalZero
  <2> QED  BY <2>1, <2>2, <2>4 DEF PaidByLeaves
<1>2. Base /\ ClaimsPaid /\ [Next]_vars => ClaimsPaid'
  BY ClaimsPaidStep
<1>3. ASSUME Base, ReclaimedClosed, IncomeBacked, ClaimsPaid
      PROVE  EntitlementKept
  <2> SUFFICES ASSUME NEW id \in DistributionIds, Honest(distributions[id]),
                      NEW leaf \in distributions[id].merkleRoot,
                      leaf[1] \notin incomeClaimed[id], now <= distributions[id].claimDeadline
               PROVE  /\ distributions[id].claimed + leaf[2] <= distributions[id].total
                      /\ leaf[2] <= quote[DistributorAddr]
    BY DEF EntitlementKept
  <2>1. /\ distributions[id] \in Distribution /\ distributions[id].claimed \in Nat
        /\ distributions[id].total \in Nat /\ distributions[id].claimDeadline \in Nat
        /\ leaf[2] \in Nat /\ now \in Nat /\ quote[DistributorAddr] \in Nat
    BY <1>3, SystemAccounts DEF Base, TypeOK, IncomeTypeOK, Distribution, RegistryTypeOK, QuoteTypeOK
  <2>2. distributions[id].claimed + leaf[2] <= distributions[id].total
    BY <1>3, <2>1, LeafFits DEF ClaimsPaid
  <2>3. incomeDebts[id] = distributions[id].total - distributions[id].claimed
    <3>1. ~distributions[id].reclaimed
      BY <1>3, <2>1 DEF ReclaimedClosed
    <3> QED  BY <3>1 DEF incomeDebts, incomeOwed
  <2>4. incomeDebts \in [DistributionIds -> Nat]
    BY <1>3, IncomeDebtsType DEF Base, TypeOK
  <2>5. incomeDebts[id] <= Total(incomeDebts) /\ Total(incomeDebts) \in Nat
    BY <2>4, DistributionsFinite, TotalBound, TotalType
  <2>6. Total(incomeDebts) <= quote[DistributorAddr]
    BY <1>3 DEF IncomeBacked, incomeDebts
  <2> QED  BY <2>1, <2>2, <2>3, <2>5, <2>6
<1>4. Base /\ ReclaimedClosed /\ IncomeBacked /\ ClaimsPaid => EntitlementKept
  BY <1>3
<1> QED  BY <1>1, <1>2, <1>4, BaseInvariant, ReclaimedStaysClosed, IncomeSolvent, PTL DEF Spec
=============================================================================
