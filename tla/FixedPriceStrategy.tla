------------------------- MODULE FixedPriceStrategy -------------------------
(***************************************************************************)
(* Price strategies with prices set by the pricer                          *)
(* (contracts/src/pricing/FixedPriceStrategy.sol).  Several may be         *)
(* deployed; the Vault points at one of them.  Purchases round up and      *)
(* redemptions round down, both in the project's favour.                   *)
(***************************************************************************)
EXTENDS Naturals

CONSTANTS
  Strategies,        \* the deployed strategies
  PriceUnit,         \* 10 ** tokenDecimals
  Prices             \* the prices per whole token that the pricer may set

ASSUME PriceAssumption ==
  /\ PriceUnit \in Nat \ {0}
  /\ Prices \subseteq Nat
  /\ \E p \in Prices : p # 0

VARIABLES
  purchasePrice,     \* _purchasePricePerWholeToken of each strategy
  redemptionPrice    \* _redemptionPricePerWholeToken of each strategy

priceVars == <<purchasePrice, redemptionPrice>>

\* The constructor refuses a zero price.
PriceInit ==
  /\ purchasePrice \in [Strategies -> Prices \ {0}]
  /\ redemptionPrice \in [Strategies -> Prices \ {0}]

quotePurchase(s, tokenAmount) ==
  (tokenAmount * purchasePrice[s] + PriceUnit - 1) \div PriceUnit

quoteRedemption(s, tokenAmount) ==
  (tokenAmount * redemptionPrice[s]) \div PriceUnit

setPurchasePrice(s, newPrice) ==
  /\ newPrice # 0
  /\ purchasePrice' = [purchasePrice EXCEPT ![s] = newPrice]
  /\ UNCHANGED redemptionPrice

setRedemptionPrice(s, newPrice) ==
  /\ newPrice # 0
  /\ redemptionPrice' = [redemptionPrice EXCEPT ![s] = newPrice]
  /\ UNCHANGED purchasePrice

PriceNext ==
  \/ \E s \in Strategies, p \in Prices : setPurchasePrice(s, p)
  \/ \E s \in Strategies, p \in Prices : setRedemptionPrice(s, p)

PriceTypeOK ==
  /\ purchasePrice \in [Strategies -> Nat \ {0}]
  /\ redemptionPrice \in [Strategies -> Nat \ {0}]
=============================================================================
