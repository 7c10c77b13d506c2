-------------------------- MODULE MCIncomeService --------------------------
(***************************************************************************)
(* Instances of IncomeService: token histories of two holders from nothing,*)
(* sales to up to five holders, the redemption and purchase models over a  *)
(* short reorganised history, and income preparation, distribution and     *)
(* claims.                                                                 *)
(***************************************************************************)
EXTENDS IncomeService

CONSTANTS MaxLedger, MaxRows, MaxIncome   \* transactions of each kind of behaviour

FirstSales ==
  <<[op |-> "mint", amount |-> 3], [op |-> "buy", who |-> "h1", amount |-> 2],
    [op |-> "buy", who |-> "h2", amount |-> 1], [op |-> "request", who |-> "h1", amount |-> 1]>>

Bounds ==
  [history |-> <<>>, holders |-> {"h1", "h2"}, amounts |-> {1}, calls |-> {}, models |-> {},
   callers |-> {}, records |-> {}, deadlines |-> {1}, mined |-> 0, reorgs |-> FALSE, time |-> 0, faults |-> 0]

MCScopes ==
  {[Bounds EXCEPT !.amounts = {1, 2}, !.mined = MaxLedger,
      !.calls = {"mint", "burn", "buy", "send", "request", "fund", "complete", "reject", "cancel"}],
   [Bounds EXCEPT !.holders = Holders, !.history = <<[op |-> "mint", amount |-> 6]>>,
      !.calls = {"buy"}, !.mined = Cardinality(Holders) + 1],
   [Bounds EXCEPT !.models = {"redemptions"}, !.history = FirstSales, !.reorgs = TRUE,
      !.calls = {"request", "fund", "complete", "reject", "cancel"}, !.mined = MaxRows,
      !.faults = 1],
   [Bounds EXCEPT !.models = {"purchases"}, !.history = FirstSales, !.reorgs = TRUE,
      !.calls = {"mint", "buy"}, !.mined = MaxRows, !.faults = 1],
   [Bounds EXCEPT !.models = {"income"}, !.history = FirstSales, !.reorgs = TRUE,
      !.callers = Callers, !.records = {3, 4}, !.calls = {"create"}, !.mined = 5],
   [Bounds EXCEPT !.models = {"income"}, !.history = FirstSales,
      !.callers = {CHOOSE c \in Callers : TRUE}, !.records = {3},
      !.calls = {"create", "claim", "extend", "reclaim"}, !.mined = MaxIncome,
      !.time = 2, !.faults = 1]}
=============================================================================
