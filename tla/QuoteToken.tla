----------------------------- MODULE QuoteToken -----------------------------
(***************************************************************************)
(* The settlement stablecoin, an ERC-20 outside the repository, as the     *)
(* contracts use it.  Its behaviour may change after deployment (comments  *)
(* in Vault.withdrawProceeds and RedemptionEscrow.claimRedemption): a      *)
(* transfer may start to withhold a fee, so that less arrives than was     *)
(* sent.  The contracts therefore compare the recipient's balance before   *)
(* and after every transfer they make.                                     *)
(***************************************************************************)
EXTENDS Integers, RWAToken

CONSTANTS
  InitialQuote,   \* the quote tokens each account starts with
  QuoteFees,      \* the fees the token may withhold; {0} for an honest one
  Payments        \* the <<from, to, value>> transfers holders make themselves

ASSUME QuoteAssumption ==
  /\ InitialQuote \in [Accounts -> Nat]
  /\ QuoteFees \subseteq Nat
  /\ Payments \subseteq Holders \X Accounts \X Nat

VARIABLE quote    \* the quote token's balances

QuoteInit == quote = InitialQuote

quoteTransfer(from, to, value) ==
  \E fee \in QuoteFees :
    /\ fee <= value
    /\ value <= quote[from]
    /\ quote' = [[quote EXCEPT ![from] = @ - value] EXCEPT ![to] = @ + (value - fee)]

\* Mutant of checkedQuoteTransfer: the received amount is not compared.
uncheckedQuoteTransfer(from, to, value) == quoteTransfer(from, to, value)

\* A transfer made by one of the contracts: anything but the exact delta at
\* the recipient reverts.  A transfer to oneself has delta 0.
checkedQuoteTransfer(from, to, value) ==
  /\ quoteTransfer(from, to, value)
  /\ quote'[to] - quote[to] = value

\* Transfers the token's holders make among themselves, or to a contract.
QuoteNext == \E p \in Payments : quoteTransfer(p[1], p[2], p[3])

QuoteTypeOK == quote \in [Accounts -> Nat]
=============================================================================
