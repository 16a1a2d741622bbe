----------------------------- MODULE Screening -----------------------------
(***************************************************************************)
(* How the rebalance strategy picks its stocks                             *)
(* (app/strategy/strategies/piotroski_momentum_strategy.py): financial     *)
(* statements from DART through a cache in the database that also          *)
(* remembers who has none (app/market/provider/dart_provider.py), the      *)
(* F-Score (app/strategy/screener/fscore.py) and dual momentum             *)
(* (app/strategy/signals/momentum.py).  Several runs - a scheduled one, a  *)
(* manual one, a backtest - share the cache.                               *)
(*                                                                         *)
(* One fiscal year; the universe is what the base filters left of it.      *)
(***************************************************************************)
EXTENDS Integers, FiniteSets

CONSTANTS
  Universe,      \* stocks
  Report,        \* the annual report of each stock, see ScreeningAssumption
  ScreenRuns,    \* runs of the strategy that share the database
  Threshold,     \* of the F-Score
  TopN,          \* of the relative momentum
  StockReturns,  \* returns a stock may have, in percent; abs_threshold is 0
  RankedStocks   \* bound: stocks that are ranked together

\* Where the F-Score looks for an account; the income statement's are then
\* looked for in the statement of comprehensive income (CIS).
Sheet == [assets |-> "BS", liab |-> "BS", equity |-> "BS", curAssets |-> "BS",
          curLiab |-> "BS", capital |-> "BS", income |-> "IS", revenue |-> "IS",
          gross |-> "IS", cfo |-> "CF"]
Accounts == DOMAIN Sheet
Sheets == {"BS", "IS", "CF", "CIS"}

\* Consolidated and separate statements (fs_div)
Divs == {"cfs", "ofs"}

\* A statement names the accounts on each of its sheets - none when there is no
\* such sheet - and the amount of an account, the same on every sheet.  Every
\* company reports something.
ASSUME ScreeningAssumption ==
  /\ Report \in [Universe -> [Divs -> [lines: [Sheets -> SUBSET Accounts],
                                       amount: [Accounts -> [cur: Int, prev: Int]]]]]
  /\ \A s \in Universe : \E d \in Divs, x \in Sheets : Report[s][d].lines[x] # {}
  /\ IsFiniteSet(Universe) /\ StockReturns \subseteq Int
  /\ TopN \in Nat /\ Threshold \in Nat /\ RankedStocks \in Nat

VARIABLES
  filed,         \* stocks whose report DART has
  stored,        \* dart_financial_statement: the statement each sheet comes from
  unavailable,   \* dart_unavailable
  screen,        \* the runs
  absent,        \* history: stocks DART had nothing of when it was asked
  caught,        \* history: stocks whose report was filed amid the requests for it
  throttled      \* history: DART has answered a request with an error status

scrVars == <<filed, stored, unavailable, screen, absent, caught, throttled>>
scrHistory == <<absent, caught, throttled>>

Nothing == [x \in Sheets |-> "none"]
NoRun == [pc |-> "idle", todo |-> {}, noData |-> {}, buys |-> {}]
ScreeningTypeOK ==
  /\ filed \subseteq Universe
  /\ stored \in [Universe -> [Sheets -> Divs \cup {"none"}]]
  /\ unavailable \subseteq Universe /\ absent \subseteq Universe /\ caught \subseteq Universe
  /\ screen \in [ScreenRuns -> [pc: {"idle", "fetch", "score", "failed", "done"},
                              todo: SUBSET Universe, noData: SUBSET Universe,
                              buys: SUBSET Universe]]
  /\ throttled \in BOOLEAN

ScreeningInit ==
  /\ filed = {}
  /\ stored = [s \in Universe |-> Nothing]
  /\ unavailable = {} /\ absent = {} /\ caught = {}
  /\ screen = [r \in ScreenRuns |-> NoRun]
  /\ throttled = FALSE

-----------------------------------------------------------------------------
(* DartProvider                                                              *)

\* A company files its report.
File(s) ==
  /\ s \notin filed
  /\ filed' = filed \cup {s}
  /\ UNCHANGED <<stored, unavailable, screen, scrHistory>>

\* fetch_and_store_bulk: neither stored nor known to be unavailable
BeginScreen(r) ==
  /\ screen[r].pc = "idle"
  /\ screen' = [screen EXCEPT ![r] = [NoRun EXCEPT !.pc = "fetch",
                 !.todo = {s \in Universe \ unavailable : stored[s] = Nothing}]]
  /\ UNCHANGED <<filed, stored, unavailable, scrHistory>>

\* get_financial_statements: a request for each sheet.  A status other than 000
\* is skipped, so a sheet that was refused - request limit, maintenance - or not
\* yet filed looks like one that does not exist.
Answers(s, d, given) ==
  [x \in Sheets |-> IF x \in given /\ Report[s][d].lines[x] # {} THEN d ELSE "none"]

\* The requests are made in this order, CFS before OFS: a report filed in their
\* midst is there for the last ones only.
LastSheets == {{}, {"CIS"}, {"CF", "CIS"}, {"IS", "CF", "CIS"}, Sheets}
NotFiled == [d \in Divs |-> {}]
AlwaysFiled == [d \in Divs |-> Sheets]
FiledFor(s) ==
  IF s \in filed THEN {AlwaysFiled}
  ELSE {[cfs |-> last, ofs |-> Sheets] : last \in LastSheets \ {Sheets}}
       \cup {[cfs |-> {}, ofs |-> last] : last \in LastSheets}

\* Rows whose primary key (rcept_no, sj_div, account_id) another run has inserted
\* meanwhile: nothing is inserted, the error is logged only.  CFS and OFS rows
\* have the same keys.
Insert(s, what) ==
  IF \E x \in Sheets : what[x] # "none" /\ stored[s][x] # "none" THEN stored[s]
  ELSE [x \in Sheets |-> IF what[x] # "none" THEN what[x] ELSE stored[s][x]]

\* fetch_and_store: the consolidated statement, or the separate one if no sheet
\* of the consolidated one came.
Fetch(r, s, d, refused) ==
  /\ screen[r].pc = "fetch" /\ s \in screen[r].todo
  /\ \E there \in FiledFor(s) :
       LET what  == Answers(s, d, there[d] \ refused)
           noCfs == Answers(s, "cfs", there["cfs"]) = Nothing
       IN
       /\ d = "cfs" => what # Nothing
       /\ stored' = [stored EXCEPT ![s] = Insert(s, what)]
       /\ screen' = [screen EXCEPT ![r].todo = @ \ {s},
                                   ![r].noData = IF what = Nothing THEN @ \cup {s} ELSE @]
       /\ throttled' = (throttled \/ refused # {} \/ (d = "ofs" /\ ~noCfs))
       /\ filed' = IF there = NotFiled THEN filed ELSE filed \cup {s}
       /\ caught' = IF there \in {NotFiled, AlwaysFiled} THEN caught ELSE caught \cup {s}
  /\ absent' = IF s \in filed THEN absent ELSE absent \cup {s}
  /\ UNCHANGED unavailable

\* Mutant: every failure counts as no data.
AnyFailure(r, s) == [screen EXCEPT ![r].todo = @ \ {s}, ![r].noData = @ \cup {s}]

SkipStock(r, s) == [screen EXCEPT ![r].todo = @ \ {s}]

\* HTTP or network error, unknown corp_code, database error: logged only.
FetchFails(r, s) ==
  /\ screen[r].pc = "fetch" /\ s \in screen[r].todo
  /\ screen' = SkipStock(r, s)
  /\ UNCHANGED <<filed, stored, unavailable, scrHistory>>

\* mark_unavailable_bulk, after the last request
MarkUnavailable(r) ==
  /\ screen[r].pc = "fetch" /\ screen[r].todo = {}
  /\ unavailable' = unavailable \cup screen[r].noData
  /\ screen' = [screen EXCEPT ![r] = [NoRun EXCEPT !.pc = "score"]]
  /\ UNCHANGED <<filed, stored, scrHistory>>

\* The process dies, or the commit fails: what fetch_and_store stored stays.
ScreenCrash(r) ==
  /\ screen[r].pc \in {"fetch", "score"}
  /\ screen' = [screen EXCEPT ![r] = NoRun]
  /\ UNCHANGED <<filed, stored, unavailable, scrHistory>>

-----------------------------------------------------------------------------
(* FScore                                                                    *)

\* _get_amount: the sheet of a stored statement that has account a
FoundOn(s, st, a) ==
  LET Has(x) == st[x] # "none" /\ a \in Report[s][st[x]].lines[x]
  IN  CASE Has(Sheet[a]) -> Sheet[a]
        [] ~Has(Sheet[a]) /\ Sheet[a] = "IS" /\ Has("CIS") -> "CIS"
        [] OTHER -> "none"

Amounts(s, st) ==
  [a \in {b \in Accounts : FoundOn(s, st, b) # "none"} |->
     Report[s][st[FoundOn(s, st, a)]].amount[a]]

\* The ratio of accounts a and b, as a pair; a missing account or a zero
\* denominator makes it 0.
Ratio(fs, a, b, term) ==
  IF {a, b} \subseteq DOMAIN fs /\ fs[b][term] # 0 THEN <<fs[a][term], fs[b][term]>> ELSE <<0, 1>>

\* p < q
Less(p, q) == (p[1] * q[2] - q[1] * p[2]) * (p[2] * q[2]) < 0

\* Mutant: a ratio that stays as it was counts as risen.
DoesNotFall(fs, a, b) == ~Less(Ratio(fs, a, b, "cur"), Ratio(fs, a, b, "prev"))

Rises(fs, a, b) == Less(Ratio(fs, a, b, "prev"), Ratio(fs, a, b, "cur"))

\* The accounts whose absence raises: the required ones, and those a ratio or a
\* comparison uses without asking.  (An account that is there has an amount; one
\* without, a NaN in the code, is not modelled.)
Computable(fs) ==
  /\ {"assets", "equity", "income", "cfo", "capital"} \subseteq DOMAIN fs
  /\ \A term \in {"cur", "prev"} :
       /\ fs["assets"][term] # 0
       /\ fs["equity"][term] # 0 => "liab" \in DOMAIN fs
       /\ "curLiab" \in DOMAIN fs /\ fs["curLiab"][term] # 0 => "curAssets" \in DOMAIN fs

\* The metrics that give a point, all of weight 1 and enabled
RawScores(fs) ==
  {m \in {"f_roa", "f_cfo", "f_delta_roa", "f_accrual", "f_delta_lever",
          "f_delta_liquid", "f_eq_offer", "f_delta_margin", "f_delta_turnover"} :
     CASE m = "f_roa"            -> Less(<<0, 1>>, Ratio(fs, "income", "assets", "cur"))
       [] m = "f_cfo"            -> fs["cfo"].cur > 0
       [] m = "f_delta_roa"      -> Rises(fs, "income", "assets")
       [] m = "f_accrual"        -> fs["cfo"].cur * fs["assets"].cur > fs["income"].cur * fs["assets"].cur
       [] m = "f_delta_lever"    -> Less(Ratio(fs, "liab", "equity", "cur"),
                                         Ratio(fs, "liab", "equity", "prev"))
       [] m = "f_delta_liquid"   -> Rises(fs, "curAssets", "curLiab")
       [] m = "f_eq_offer"       -> fs["capital"].cur <= fs["capital"].prev
       [] m = "f_delta_margin"   -> Rises(fs, "gross", "revenue")
       [] m = "f_delta_turnover" -> Rises(fs, "revenue", "assets")}

\* The stored rows, all sheets or not, may lack accounts: no score.
CanScore(s, st) == Computable(Amounts(s, st))
Passes(s, st) == CanScore(s, st) /\ Cardinality(RawScores(Amounts(s, st))) >= Threshold
Scored == {s \in Universe : CanScore(s, stored[s])}
Screened == {s \in Universe : Passes(s, stored[s])}

\* Without a single score the result has no column to filter by: KeyError.
NothingScored(r) ==
  /\ screen[r].pc = "score" /\ Scored = {}
  /\ screen' = [screen EXCEPT ![r] = [NoRun EXCEPT !.pc = "failed"]]
  /\ UNCHANGED <<filed, stored, unavailable, scrHistory>>

-----------------------------------------------------------------------------
(* MomentumStrategy                                                          *)

\* Twice the rank that pandas gives: ties share the average of their places.
TwiceRank(S, ret, s) ==
  2 * Cardinality({t \in S : ret[t] > ret[s]}) + Cardinality({t \in S : ret[t] = ret[s]}) + 1

\* Mutant: the worst is first.
AscendingRank(S, ret) ==
  {s \in S : 2 * Cardinality({t \in S : ret[t] < ret[s]}) + 2 <= 2 * TopN /\ ret[s] > 0}

BuySignals(S, ret) == {s \in S : TwiceRank(S, ret, s) <= 2 * TopN /\ ret[s] > 0}

\* The stocks with enough prices, and their returns
PastReturns == UNION {[S -> StockReturns] : S \in SUBSET Universe}

\* Prices are loaded for the screened stocks, and those with a BUY signal get
\* intents of equal weight.
Select(r, ret) ==
  /\ screen[r].pc = "score" /\ Scored # {}
  /\ screen' = [screen EXCEPT ![r].pc = "done",
                             ![r].buys = BuySignals(Screened \cap DOMAIN ret, ret)]
  /\ UNCHANGED <<filed, stored, unavailable, scrHistory>>

EndRun(r) ==
  /\ screen[r].pc \in {"done", "failed"}
  /\ screen' = [screen EXCEPT ![r] = NoRun]
  /\ UNCHANGED <<filed, stored, unavailable, scrHistory>>

-----------------------------------------------------------------------------
FetchStep(r, s) ==
  FetchFails(r, s) \/ \E d \in Divs, refused \in SUBSET Sheets : Fetch(r, s, d, refused)

ScreeningNext ==
  \/ \E s \in Universe : File(s)
  \/ \E r \in ScreenRuns :
       \/ BeginScreen(r) \/ MarkUnavailable(r) \/ NothingScored(r)
       \/ \E s \in Universe : FetchStep(r, s)
       \/ \E ret \in PastReturns : Select(r, ret)
       \/ ScreenCrash(r) \/ EndRun(r)

ScreeningSpec == ScreeningInit /\ [][ScreeningNext]_scrVars

-----------------------------------------------------------------------------
\* All sheets of the consolidated or of the separate statement
Whole(s, d) == Answers(s, d, Sheets)

\* Every row that is stored of s is of its statement d.
AllFrom(s, d) == \A x \in Sheets : stored[s][x] \in {d, "none"}

\* The one to be used: the consolidated statement where there is one
Preferred(s) == IF Whole(s, "cfs") # Nothing THEN Whole(s, "cfs") ELSE Whole(s, "ofs")

\* As long as DART answers no request with an error status, the cache excludes
\* only stocks DART had nothing of when it was asked, and has the whole of the
\* right statement or nothing, save of a report that was filed amid the requests
\* for it: no network error, crash or concurrent run takes a stock out of the
\* universe or leaves it with half a statement.
OnlyRefusalExcludes == ~throttled =>
  /\ unavailable \subseteq absent
  /\ \A s \in Universe \ caught : stored[s] \in {Nothing, Preferred(s)}

\* The ranking, for any returns of up to RankedStocks stocks: whatever ties there
\* are, a stock is bought only with every stock of a higher return, TopN is
\* exceeded only through a tie and by less than TopN, and without ties exactly
\* the TopN best of the rising stocks are bought (generate_signal).
RankingSound ==
  \A n \in 0..RankedStocks : \A ret \in [1..n -> StockReturns] :
    LET buys == BuySignals(1..n, ret)
        Higher(s) == {t \in 1..n : ret[t] > ret[s]}
        tied == \E s, t \in 1..n : s # t /\ ret[s] = ret[t]
    IN /\ \A s \in buys : Higher(s) \subseteq buys /\ Cardinality(Higher(s)) < TopN /\ ret[s] > 0
       /\ TopN > 0 => Cardinality(buys) < 2 * TopN
       /\ ~tied => buys = {s \in 1..n : Cardinality(Higher(s)) < TopN /\ ret[s] > 0}

\* The ranking is right, and a run buys fewer than 2 * TopN of the stocks that passed
\* the screening, however many they are.
SelectionSound ==
  /\ RankingSound
  /\ TopN > 0 => \A r \in ScreenRuns : Cardinality(screen[r].buys) < 2 * TopN

\* A statement cached in part - sheets refused, or filed too late - is scored with
\* the accounts it has, and for good (_get_amount, _calculate_fscore); what is
\* missing only costs points.  So a stock bought on part of a statement passes on
\* the whole of that statement too - unless concurrent runs have left rows of both
\* statements, consolidated and separate.
BoughtOnMerit ==
  \A r \in ScreenRuns : \A s \in screen[r].buys : \A d \in Divs :
    AllFrom(s, d) => Passes(s, Whole(s, d))
=============================================================================
