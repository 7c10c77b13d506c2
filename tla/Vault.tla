------------------------------- MODULE Vault -------------------------------
(***************************************************************************)
(* The primary market (contracts/src/Vault.sol): it holds the minted       *)
(* inventory, sells it at the strategy's price and keeps the proceeds until*)
(* the treasurer withdraws them to the treasury.                           *)
(***************************************************************************)
EXTENDS QuoteToken, FixedPriceStrategy

CONSTANTS
  InitialTreasury,   \* config.treasury
  Treasuries,        \* the addresses the admin may name as treasury
  Minimums,          \* the values of minPurchaseQuote the admin may set
  QuoteLimits        \* the maxQuoteAmount and minQuoteOut that callers give

ASSUME VaultAssumption ==
  /\ InitialTreasury \in Treasuries
  /\ Treasuries \subseteq Accounts
  /\ Minimums \subseteq Nat
  /\ Minimums # {}
  /\ QuoteLimits \subseteq Nat

VARIABLES
  strategy,          \* the strategy in use; the escrow reads it too
  treasury,          \* where proceeds and unclaimed income go
  minPurchaseQuote   \* the smallest purchase, in quote tokens

vaultVars == <<strategy, treasury, minPurchaseQuote>>

VaultInit ==
  /\ strategy \in Strategies
  /\ treasury = InitialTreasury
  /\ minPurchaseQuote \in Minimums

buy(buyer, tokenAmount, maxQuoteAmount, recipient, deadline) ==
  LET cost == quotePurchase(strategy, tokenAmount)
  IN  /\ ~paused
      /\ isAllowed(buyer)
      /\ isAllowed(recipient)
      /\ deadline >= now
      /\ tokenAmount # 0
      /\ tokenAmount <= balance[VaultAddr]
      /\ cost >= minPurchaseQuote
      /\ cost <= maxQuoteAmount
      /\ checkedQuoteTransfer(buyer, VaultAddr, cost)
      /\ update(VaultAddr, recipient, tokenAmount)
      /\ UNCHANGED <<totalSupply, frozen, paused>>
      /\ UNCHANGED vaultVars

withdrawProceeds(amount) ==
  /\ ~paused
  /\ checkedQuoteTransfer(VaultAddr, treasury, amount)
  /\ UNCHANGED tokenVars
  /\ UNCHANGED vaultVars

setStrategy(newStrategy) ==
  /\ ~paused
  /\ strategy' = newStrategy
  /\ UNCHANGED <<treasury, minPurchaseQuote, quote>>
  /\ UNCHANGED tokenVars

setTreasury(newTreasury) ==
  /\ ~paused
  /\ treasury' = newTreasury
  /\ UNCHANGED <<strategy, minPurchaseQuote, quote>>
  /\ UNCHANGED tokenVars

setMinPurchaseQuote(newMinimum) ==
  /\ ~paused
  /\ minPurchaseQuote' = newMinimum
  /\ UNCHANGED <<strategy, treasury, quote>>
  /\ UNCHANGED tokenVars

VaultNext ==
  \/ \E buyer \in Holders, recipient \in Accounts, amount \in Amounts,
        limit \in QuoteLimits, deadline \in {now - 1, now} :
          buy(buyer, amount, limit, recipient, deadline)
  \/ \E amount \in Amounts : withdrawProceeds(amount)
  \/ \E s \in Strategies : setStrategy(s)
  \/ \E t \in Treasuries : setTreasury(t)
  \/ \E m \in Minimums : setMinPurchaseQuote(m)

VaultTypeOK ==
  /\ strategy \in Strategies
  /\ treasury \in Accounts
  /\ minPurchaseQuote \in Nat
=============================================================================
