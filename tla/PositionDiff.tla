---------------------------- MODULE PositionDiff ----------------------------
(***************************************************************************)
(* How many shares a rebalance sells and buys: PositionDiffCalculator      *)
(* (app/strategy/runtime/position_diff.py), which plans both sides before  *)
(* anything is sold, and OrderGenerator._recalculate_buy_orders, which     *)
(* sizes the buys again with the cash the sells really brought in.         *)
(*                                                                         *)
(* A portfolio is a function from stock codes to quantities, a price of 0  *)
(* stands for a missing one.  The code divides floats; amounts are won and *)
(* far below 2^53, so exact division gives the same floors.                *)
(***************************************************************************)
EXTENDS Integers, FiniteSets, FiniteSetsExt

Value(qty, price) == MapThenSumSet(LAMBDA s : qty[s] * price[s], DOMAIN qty)

\* qty restricted to the codes in S: nothing of the others.
Only(qty, S) == [s \in DOMAIN qty |-> IF s \in S THEN qty[s] ELSE 0]

\* The keys of holding_map: the broker's list is taken to name what is held only.
Held(holding) == {s \in DOMAIN holding : holding[s] > 0}

\* cash_buffer_ratio of 0.02, cut to whole won
CashBuffer(investable) == (investable * 2) \div 100

\* floor(alloc / price) with alloc = min(portfolio / targets, budget / new),
\* the equal weight of one stock capped by an equal share of the budget.
FloorShares(portfolio, budget, targets, new, price) ==
  LET byWeight == portfolio \div (targets * price)
      byBudget == budget \div (new * price)
  IN  IF byWeight < byBudget THEN byWeight ELSE byBudget

\* The new stocks share the budget equally, no stock getting more than its
\* share of the portfolio; a stock without a price hint gets nothing.
BuyShares(target, holding, price, hint, budget) ==
  LET new       == target \ Held(holding)
      portfolio == budget + Value(Only(holding, target), price)
  IN  [s \in DOMAIN holding |->
         IF s \in new /\ hint[s] > 0 /\ budget > 0
         THEN FloorShares(portfolio, budget, Cardinality(target), Cardinality(new), hint[s])
         ELSE 0]

\* Mutant: kept stocks are sold too.
SellEverything(target, holding) == Only(holding, Held(holding) \cup target)

\* calculate: what is held and not a target is sold altogether.
SellShares(target, holding) == Only(holding, Held(holding) \ target)

\* calculate: the buys planned with the cash the sells should bring in, less
\* the buffer.
PlannedBuys(target, holding, price, hint, cash) ==
  LET investable == cash + Value(SellShares(target, holding), price)
  IN  BuyShares(target, holding, price, hint, investable - CashBuffer(investable))

\* _recalculate_buy_orders: holding is the portfolio the plan was made with.
\* Unlike the plan it keeps no buffer.
RecalculatedBuys(target, holding, price, hint, cash) ==
  BuyShares(target, holding, price, hint, cash)
=============================================================================
