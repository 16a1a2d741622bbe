------------------------------ MODULE Backtest ------------------------------
(***************************************************************************)
(* The swing-trading backtest: the day loop of                             *)
(* app/strategy/backtest/backtest_executor.py (_run_direct_trade) with the *)
(* decisions of app/strategy/strategies/reversal_volume_strategy.py.       *)
(*                                                                         *)
(* A trading day is an exit phase and an entry phase.  Prices appear as    *)
(* what the decisions read of them: whether a stock trades today, how it   *)
(* moved since entry, its return over the reversal window and whether its  *)
(* volume spiked.  Cash appears as whether there is any left.              *)
(***************************************************************************)
EXTENDS Integers, SequencesExt

CONSTANTS
  Stocks,        \* the universe build_universe selected
  MaxPositions,  \* RV_MAX_POSITIONS
  MaxHolding,    \* max_holding_days, in trading days
  Cooldown,      \* cooldown_days, in calendar days
  Lookback,      \* history_lookback_days, in calendar days
  Gaps,          \* calendar days from one trading day to the next
  Moves,         \* returns over the reversal window, in percent
  MaxDrawdown,   \* max_drawdown_pct
  ReversalShare  \* reversal_pct, as <<numerator, denominator>>

\* The executor takes Lookback from the settings, the strategy its own Cooldown.
ASSUME BacktestAssumption ==
  /\ IsFiniteSet(Stocks) /\ MaxHolding \in Nat \ {0} /\ MaxPositions \in Nat
  /\ Cooldown \in Nat /\ Lookback \in Nat /\ Cooldown <= Lookback
  /\ Gaps \subseteq Nat \ {0} /\ Moves \subseteq Int /\ MaxDrawdown \in Int
  /\ ReversalShare \in Nat \X (Nat \ {0})

VARIABLES
  phase,      \* "exit" or "entry"
  trading,    \* stocks with a price today
  positions,  \* SwingPosition list; traded: history, days with a price since entry
  exitAge,    \* calendar days since the last record of the stock in trade_records
  broke       \* no cash left

btVars == <<phase, trading, positions, exitAge, broke>>

\* Ages beyond the lookback are not told apart.
LongAgo == Lookback + 1

BacktestTypeOK ==
  /\ phase \in {"exit", "entry"} /\ trading \subseteq Stocks /\ broke \in BOOLEAN
  /\ positions \in Seq([stock: Stocks, held: 0..MaxHolding, traded: Nat])
  /\ exitAge \in [Stocks -> 0..LongAgo]

BacktestInit ==
  /\ phase = "exit" /\ trading = {} /\ positions = <<>>
  /\ exitAge = [s \in Stocks |-> LongAgo] /\ broke = FALSE

-----------------------------------------------------------------------------
(* Exits                                                                     *)

\* holding_days grows on days without a price too (capped at MaxHolding).
Aged(today) ==
  [i \in DOMAIN positions |->
     [positions[i] EXCEPT !.held = IF @ < MaxHolding THEN @ + 1 ELSE @,
                          !.traded = IF positions[i].stock \in today THEN @ + 1 ELSE @]]

\* Mutant: one day late.
ShouldExitLate(p, today, hit) ==
  p.stock \in today /\ (p.stock \in hit \/ (p.held >= MaxHolding /\ p.traded > MaxHolding))

\* take profit, stop loss or time; never without a price
should_exit(p, today, hit) ==
  p.stock \in today /\ (p.stock \in hit \/ p.held >= MaxHolding)

\* Mutant: pops in ascending order, so that later indices have shifted.
PopAscending(ps, closed) ==
  LET pop[i \in 0..Len(ps)] ==
        IF i = 0 THEN ps
        ELSE IF i \in closed /\ i <= Len(pop[i - 1]) THEN RemoveAt(pop[i - 1], i) ELSE pop[i - 1]
  IN pop[Len(ps)]

\* for i in sorted(closed, reverse=True): positions.pop(i)
PopClosed(ps, closed) ==
  LET pop[i \in 1..Len(ps) + 1] ==
        IF i > Len(ps) THEN ps
        ELSE IF i \in closed THEN RemoveAt(pop[i + 1], i) ELSE pop[i + 1]
  IN pop[1]

\* hit: the stocks that reached take profit or stop loss
Exits(gap, today, hit) ==
  /\ phase = "exit"
  /\ LET aged == Aged(today)
         closed == {i \in DOMAIN aged : should_exit(aged[i], today, hit)}
         sold == {aged[i].stock : i \in closed}
     IN /\ positions' = PopClosed(aged, closed)
        /\ exitAge' = [s \in Stocks |-> IF s \in sold THEN 0
                                        ELSE IF exitAge[s] + gap > Lookback THEN LongAgo
                                        ELSE exitAge[s] + gap]
        /\ broke' = (broke /\ closed = {})
  /\ trading' = today
  /\ phase' = "entry"

-----------------------------------------------------------------------------
(* Entries                                                                   *)

\* Sorted by return, head(n): ties fall either way.
Lowest(S, ret, n) ==
  {T \in SUBSET S : /\ Cardinality(T) = IF n < Cardinality(S) THEN n ELSE Cardinality(S)
                    /\ \A t \in T, u \in S \ T : ret[t] <= ret[u]}

\* scan_from_data: the share of the falling stocks that fell most, of these the
\* ones with a volume spike, without those that fell too far.  ret is defined
\* for the stocks with enough prices up to today.
scan_from_data(ret, spike) ==
  LET falling == {s \in DOMAIN ret : ret[s] < 0}
      share == (Cardinality(falling) * ReversalShare[1]) \div ReversalShare[2]
      cutoff == IF share > 1 THEN share ELSE 1
  IN {{s \in T \cap spike : ret[s] > MaxDrawdown} : T \in Lowest(falling, ret, cutoff)}

Holding == {positions[i].stock : i \in DOMAIN positions}

\* The executor passes the records of the lookback, the strategy applies its cooldown.
RecentExits == {s \in Stocks : exitAge[s] <= Lookback /\ exitAge[s] <= Cooldown}

\* generate_entry_signals, after the market gate
EntrySignals(ret, spike) ==
  {T \ (Holding \cup RecentExits) : T \in scan_from_data(ret, spike)}

\* size_position gives each of n candidates cash / n of what is left: the only
\* candidate takes it all, up to rounding; two or more always leave some.
CashAfter(n, entered) == IF n = 1 /\ entered # <<>> THEN BOOLEAN ELSE {broke}

Position(s) == [stock |-> s, held |-> 0, traded |-> 0]

\* Slots are counted before stocks without a price today drop out.
Entries(ret, spike) ==
  /\ phase = "entry" /\ Len(positions) < MaxPositions
  /\ \E signals \in EntrySignals(ret, spike) :
     \E picked \in Lowest(signals, ret, MaxPositions - Len(positions)) :
     \E entered \in SetToSeqs(IF broke THEN {} ELSE picked \cap trading) :
       /\ \A i, j \in DOMAIN entered : i < j => ret[entered[i]] <= ret[entered[j]]
       /\ positions' = positions \o [i \in DOMAIN entered |-> Position(entered[i])]
       /\ broke' \in CashAfter(Cardinality(picked), entered)
  /\ phase' = "exit"
  /\ UNCHANGED <<trading, exitAge>>

\* No slot, no candidate, or a market above its moving average: the gate lets
\* entries through only below it.
NoEntries ==
  /\ phase = "entry"
  /\ phase' = "exit"
  /\ UNCHANGED <<trading, positions, exitAge, broke>>

-----------------------------------------------------------------------------
BacktestNext ==
  \/ \E gap \in Gaps, today \in SUBSET Stocks :
       \E hit \in SUBSET (today \cap Holding) : Exits(gap, today, hit)
  \/ \E known \in SUBSET Stocks : \E spike \in SUBSET known :
       \E ret \in [known -> Moves] : Entries(ret, spike)
  \/ NoEntries

BacktestSpec == BacktestInit /\ [][BacktestNext]_btVars

-----------------------------------------------------------------------------
\* The position book stays sound over any sequence of days: no stock twice, no
\* more than MaxPositions, and no stock is held that was sold within the
\* cooldown - neither bought back through the history window nor left behind
\* when several positions of one day are popped.
BookSound ==
  /\ Len(positions) <= MaxPositions
  /\ \A i, j \in DOMAIN positions : positions[i].stock = positions[j].stock => i = j
  /\ \A s \in Holding : exitAge[s] > Cooldown

\* However often a stock is suspended in between, a position never survives
\* MaxHolding days on which it could have been sold.
NeverOverheld == \A i \in DOMAIN positions : positions[i].traded < MaxHolding
=============================================================================
