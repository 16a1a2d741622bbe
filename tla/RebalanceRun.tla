---------------------------- MODULE RebalanceRun ----------------------------
(***************************************************************************)
(* One rebalance: RebalanceExecutor.submit and the OrderGenerator it calls *)
(* (app/strategy/runtime/) write the orders, wait for their fills, cancel  *)
(* what is left after FILL_TIMEOUT_SECONDS and go on from the sells to the *)
(* buys, while worker-1 and worker-2 move the order rows and worker-2      *)
(* takes the portfolio snapshot (tasks_order_status.py, tasks_snapshot.py, *)
(* portfolio_snapshot_service.py).                                         *)
(*                                                                         *)
(* An order is <<side, stock>>.  What the workers do to one order is       *)
(* OrderPipeline's subject; here PENDING also stands for PROCESSING, an    *)
(* order the broker does not have.                                         *)
(***************************************************************************)
EXTENDS PositionDiff, TrackingRules, Sequences

CONSTANTS
  Stocks,      \* stock codes
  Price,       \* [Stocks -> Nat]: the price everything is valued and filled at
  Portfolios,  \* quantities that may be held at the start
  Cashes,      \* cash that may be there at the start
  Targets,     \* sets of BUY codes the strategy may return
  Trackers,    \* process slots of worker-2
  FaultKinds,  \* the kinds of failure that may happen
  MaxFaults    \* bound: failures in one behaviour

Sides == {"SELL", "BUY"}
Orders == Sides \X Stocks
None == [s \in Stocks |-> 0]

ASSUME FiniteSystem == IsFiniteSet(Stocks) /\ IsFiniteSet(Trackers)
ASSUME PricesArePositive == Price \in [Stocks -> Nat \ {0}]
ASSUME StartingPoints ==
  /\ Portfolios \subseteq [Stocks -> Nat]
  /\ Cashes \subseteq Nat
  /\ Targets \subseteq SUBSET Stocks
ASSUME RunFaults ==
  /\ FaultKinds \subseteq {"account", "cash", "queue", "abort", "refused", "snapshot"}
  /\ MaxFaults \in Nat

VARIABLES
  \* the broker (external): the account and the rows of its order book
  cash, holding, book,
  \* the strategy's result: BUY codes, and the price hint of each code
  target, hint,
  \* the rebalances row, the rows of new orders and those of their cancels
  row, status, qty, remaining, cancel,
  \* the process that runs submit(), the processes of worker-2
  run, w2,
  \* the queue of snapshot tasks, and the snapshots stored
  snapQ, snapshots,
  faults

account  == <<cash, holding>>
strategy == <<target, hint>>
orderVars == <<status, qty, remaining, cancel>>
snapVars == <<snapQ, snapshots>>
vars == <<account, book, strategy, row, orderVars, run, w2, snapVars, faults>>

\* A cancel row: FLUSHED before its commit; LOST and STRANDED when worker-1
\* had the task too early, before and after the commit.
CancelStatus == {"NONE", "FLUSHED", "LOST", "PENDING", "STRANDED", "ACCEPTED",
                 "CANCELED", "FILLED"}
NoCancel == [st |-> "NONE", qty |-> 0, numbered |-> FALSE]

NoBook == [rmn |-> 0, cncl |-> 0, rjct |-> 0]

Over == {"done", "dead"}

TypeOK ==
  /\ cash \in Int /\ holding \in [Stocks -> Int]
  /\ book \in [Orders -> [rmn: Nat, cncl: Nat, rjct: Nat]]
  /\ target \in Targets /\ hint \in [Stocks -> Nat]
  /\ row \in {"NONE", "FLUSHED", "RUNNING", "COMPLETED", "FAILED"}
  /\ status \in [Orders -> ORDER_STATUS \cup {"NONE"}]
  /\ qty \in [Orders -> Nat] /\ remaining \in [Orders -> Nat]
  /\ cancel \in [Orders -> [st: CancelStatus, qty: Nat, numbered: BOOLEAN]]
  /\ run \in [pc: {"ready", "planned", "submitting", "waiting", "late", "cancelling",
                   "settled"} \cup Over,
              side: Sides, held: [Stocks -> Nat], buys: [Stocks -> Nat],
              shares: [Stocks -> Nat], todo: SUBSET Stocks, numbered: SUBSET Stocks]
  /\ w2 \in [Trackers -> [pc: {"idle", "trigger", "checked", "read"}, held: [Stocks -> Int]]]
  /\ snapQ \in Nat
  /\ snapshots \in Seq([holding: [Stocks -> Int], cash: Int])
  /\ faults \in 0..MaxFaults

Init ==
  /\ cash \in Cashes /\ holding \in Portfolios
  /\ book = [o \in Orders |-> NoBook]
  /\ target \in Targets
  /\ hint \in {[s \in Stocks |-> IF s \in target \ unpriced THEN Price[s] ELSE 0] :
                  unpriced \in SUBSET (target \ Held(holding))}
  /\ row = "NONE"
  /\ status = [o \in Orders |-> "NONE"]
  /\ qty = [o \in Orders |-> 0]
  /\ remaining = [o \in Orders |-> 0]
  /\ cancel = [o \in Orders |-> NoCancel]
  /\ run = [pc |-> "ready", side |-> "SELL", held |-> None, buys |-> None,
            shares |-> None, todo |-> {}, numbered |-> {}]
  /\ w2 = [w \in Trackers |-> [pc |-> "idle", held |-> None]]
  /\ snapQ = 0
  /\ snapshots = <<>>
  /\ faults = 0

Fault(kind) ==
  /\ kind \in FaultKinds
  /\ faults < MaxFaults
  /\ faults' = faults + 1

-----------------------------------------------------------------------------
(* RebalanceExecutor.submit                                                  *)

\* Holdings, available cash and the diff.  A dry run ends here.
Plan(dry) ==
  /\ run.pc = "ready"
  /\ run' = IF dry THEN [run EXCEPT !.pc = "done"]
            ELSE [run EXCEPT !.pc = "planned", !.held = holding,
                             !.shares = SellShares(target, holding),
                             !.buys = PlannedBuys(target, holding, Price, hint, cash)]
  /\ UNCHANGED <<account, book, strategy, row, orderVars, w2, snapVars, faults>>

\* An account inquiry fails before there is a rebalances row to mark FAILED.
PlanFails ==
  /\ run.pc = "ready"
  /\ Fault("account")
  /\ run' = [run EXCEPT !.pc = "done"]
  /\ UNCHANGED <<account, book, strategy, row, orderVars, w2, snapVars>>

\* The orders of one side that generate_orders and _create_order_request make:
\* one per stock with a positive quantity.
Submit(r, side, shares) ==
  [r EXCEPT !.pc = "submitting", !.side = side, !.shares = shares,
            !.todo = {s \in Stocks : shares[s] > 0}]

\* The rebalances row is flushed, not committed.
RecordRun ==
  /\ run.pc = "planned"
  /\ row' = "FLUSHED"
  /\ run' = Submit(run, "SELL", run.shares)
  /\ UNCHANGED <<account, book, strategy, orderVars, w2, snapVars, faults>>

-----------------------------------------------------------------------------
(* OrderGenerator                                                            *)

\* The commit of _insert_and_queue, which also commits the rebalances row.
InsertOrder(s) ==
  /\ run.pc = "submitting" /\ s \in run.todo
  /\ LET o == <<run.side, s>> IN
       /\ status' = [status EXCEPT ![o] = "PENDING"]
       /\ qty' = [qty EXCEPT ![o] = run.shares[s]]
  /\ UNCHANGED <<remaining, cancel>>

\* _insert_and_queue
InsertAndQueue(s) ==
  /\ InsertOrder(s)
  /\ row' = "RUNNING"
  /\ run' = [run EXCEPT !.todo = @ \ {s}]
  /\ UNCHANGED <<account, book, strategy, w2, snapVars, faults>>

\* process_order.delay raises: the row is there, its task is not, and the
\* handler of submit() marks the rebalance FAILED.
QueueFails(s) ==
  /\ Fault("queue")
  /\ InsertOrder(s)
  /\ row' = "FAILED"
  /\ run' = [run EXCEPT !.pc = "done"]
  /\ UNCHANGED <<account, book, strategy, w2, snapVars>>

\* The orders of the side being worked on.
Placed == {o \in Orders : o[1] = run.side /\ status[o] # "NONE"}

\* The generator's own TERMINAL_STATUSES: TIMEOUT is not one of them.
GENERATOR_TERMINAL == {"FILLED", "FAILED", "CANCELED"}

Unfilled == {o \in Placed : status[o] \notin GENERATOR_TERMINAL}

\* All orders of a side are queued: _wait_for_fills if there are any.
AllQueued ==
  /\ run.pc = "submitting" /\ run.todo = {}
  /\ run' = [run EXCEPT !.pc = IF Placed = {} THEN "settled" ELSE "waiting"]
  /\ UNCHANGED <<account, book, strategy, row, orderVars, w2, snapVars, faults>>

\* A poll finds every order terminal.
PollSettled ==
  /\ run.pc = "waiting"
  /\ Unfilled = {}
  /\ run' = [run EXCEPT !.pc = "settled"]
  /\ UNCHANGED <<account, book, strategy, row, orderVars, w2, snapVars, faults>>

\* Mutant: the clock is not looked at while orders are open.
WaitIfUnfilled ==
  /\ run.pc = "waiting" /\ Unfilled = {}
  /\ run' = [run EXCEPT !.pc = "late"]
  /\ UNCHANGED <<account, book, strategy, row, orderVars, w2, snapVars, faults>>

\* FILL_TIMEOUT_SECONDS have passed, whatever the last poll saw.
WaitTimesOut ==
  /\ run.pc = "waiting"
  /\ run' = [run EXCEPT !.pc = "late"]
  /\ UNCHANGED <<account, book, strategy, row, orderVars, w2, snapVars, faults>>

\* Mutant: an order the broker does not have yet is not cancelled.
CancelQuantityIfNumbered(o) == remaining[o]

\* Mutant: the filled part is subtracted from the remainder again.
CancelQuantityLessFilled(o) == remaining[o] - (qty[o] - remaining[o])

\* `order.remaining_qty or order.order_qty': 0 until worker-1 has submitted.
CancelQuantity(o) == IF remaining[o] = 0 THEN qty[o] ELSE remaining[o]

\* The rows are read again: if all are terminal after all, nothing is done.
\* Otherwise _cancel_unfilled_orders: what it reads now is what it will write.
Recheck ==
  /\ run.pc = "late"
  /\ IF Unfilled = {}
     THEN run' = [run EXCEPT !.pc = "settled"]
     ELSE run' = [run EXCEPT !.pc = "cancelling",
                    !.shares = [s \in Stocks |-> IF <<run.side, s>> \in Unfilled
                                                 THEN CancelQuantity(<<run.side, s>>) ELSE 0],
                    !.todo = {s \in Stocks : <<run.side, s>> \in Unfilled
                                             /\ CancelQuantity(<<run.side, s>>) > 0},
                    !.numbered = {s \in Stocks : remaining[<<run.side, s>>] > 0}]
  /\ UNCHANGED <<account, book, strategy, row, orderVars, w2, snapVars, faults>>

\* The cancel row is flushed and its task queued before the commit.  It copies
\* the broker number the order had when it was read; remaining is 0 as long as it
\* has none.
FlushCancel(s) ==
  /\ run.pc = "cancelling" /\ s \in run.todo
  /\ LET o == <<run.side, s>> IN
     cancel' = [cancel EXCEPT ![o] = [st |-> "FLUSHED", qty |-> run.shares[s],
                                      numbered |-> s \in run.numbered]]
  /\ run' = [run EXCEPT !.todo = @ \ {s}]
  /\ UNCHANGED <<account, book, strategy, row, status, qty, remaining, w2, snapVars, faults>>

\* The commit makes every flushed cancel row visible.
Committed(c) ==
  [c EXCEPT !.st = CASE @ = "FLUSHED" -> "PENDING" [] @ = "LOST" -> "STRANDED" [] OTHER -> @]

CommitCancels ==
  /\ run.pc = "cancelling" /\ run.todo = {}
  /\ cancel' = [o \in Orders |-> Committed(cancel[o])]
  /\ run' = [run EXCEPT !.pc = "settled", !.numbered = {}]
  /\ UNCHANGED <<account, book, strategy, row, status, qty, remaining, w2, snapVars, faults>>

\* process_order.delay raises for a cancel: submit()'s handler commits what has
\* been flushed, this cancel included, and the rebalance is FAILED.
CancelQueueFails(s) ==
  /\ run.pc = "cancelling" /\ s \in run.todo
  /\ Fault("queue")
  /\ LET o == <<run.side, s>> IN
     cancel' = [x \in Orders |->
                  IF x = o THEN [st |-> "STRANDED", qty |-> run.shares[s],
                                 numbered |-> s \in run.numbered]
                  ELSE Committed(cancel[x])]
  /\ row' = "FAILED"
  /\ run' = [run EXCEPT !.pc = "done"]
  /\ UNCHANGED <<account, book, strategy, status, qty, remaining, w2, snapVars>>

\* Mutant: the buys planned before the sells are submitted as they are.
KeepPlannedBuys(seen) == [s \in Stocks |-> IF seen >= 0 THEN run.buys[s] ELSE 0]

\* _recalculate_buy_orders, when there are buy codes and prices; otherwise the
\* planned buys, of which there are none without prices.
BuysFor(seen) ==
  IF \E s \in target : hint[s] > 0
  THEN RecalculatedBuys(target, run.held, Price, hint, seen)
  ELSE run.buys

\* _get_actual_cash after the sells; an inquiry that fails counts as no cash.
SizeBuys(seen) ==
  /\ run.pc = "settled" /\ run.side = "SELL"
  /\ run' = Submit(run, "BUY", BuysFor(seen))
  /\ UNCHANGED <<account, book, strategy, row, orderVars, w2, snapVars>>

SizeBuysWithCash == SizeBuys(cash) /\ UNCHANGED faults
SizeBuysBlindly == Fault("cash") /\ SizeBuys(0)

\* Status COMPLETED and its commit.
CompleteRun ==
  /\ run.pc = "settled" /\ run.side = "BUY"
  /\ row' = "COMPLETED"
  /\ run' = [run EXCEPT !.pc = "done"]
  /\ UNCHANGED <<account, book, strategy, orderVars, w2, snapVars, faults>>

\* The process dies, or a database error leaves the session unusable, so that
\* the handler's UPDATE fails too: what was not committed is gone and a
\* committed row stays RUNNING.
RunAborts ==
  /\ run.pc \notin Over
  /\ Fault("abort")
  /\ row' = IF row = "FLUSHED" THEN "NONE" ELSE row
  /\ cancel' = [o \in Orders |-> IF cancel[o].st \in {"FLUSHED", "LOST"} THEN NoCancel ELSE cancel[o]]
  /\ run' = [run EXCEPT !.pc = "dead"]
  /\ UNCHANGED <<account, book, strategy, status, qty, remaining, w2, snapVars>>

-----------------------------------------------------------------------------
(* worker-1 and the broker, as far as a rebalance sees them                  *)

\* The broker takes the order.
SubmitOrder(o) ==
  /\ status[o] = "PENDING"
  /\ status' = [status EXCEPT ![o] = "ACCEPTED"]
  /\ remaining' = [remaining EXCEPT ![o] = qty[o]]
  /\ book' = [book EXCEPT ![o].rmn = qty[o]]
  /\ UNCHANGED <<account, strategy, row, qty, cancel, run, w2, snapVars, faults>>

\* worker-1 looks for a cancel row that is not committed yet: get_order_by_id
\* finds nothing and the task ends.
DeliverTooEarly(o) ==
  /\ cancel[o].st = "FLUSHED"
  /\ cancel' = [cancel EXCEPT ![o].st = "LOST"]
  /\ UNCHANGED <<account, book, strategy, row, status, qty, remaining, run, w2, snapVars, faults>>

\* The checks of a cancel in _process_order, and the broker's own.
SubmitCancel(o) ==
  /\ cancel[o].st = "PENDING" /\ cancel[o].numbered
  /\ cancel[o].qty <= remaining[o] /\ cancel[o].qty <= book[o].rmn
  /\ cancel' = [cancel EXCEPT ![o].st = "ACCEPTED"]
  /\ book' = [book EXCEPT ![o].rmn = @ - cancel[o].qty, ![o].cncl = @ + cancel[o].qty]
  /\ UNCHANGED <<account, strategy, row, status, qty, remaining, run, w2, snapVars, faults>>

\* k shares trade at the price of the stock.
BrokerFills(o, k) ==
  /\ book[o].rmn >= k
  /\ book' = [book EXCEPT ![o].rmn = @ - k]
  /\ LET s == o[2]
         n == IF o[1] = "SELL" THEN k ELSE -k
     IN  /\ cash' = cash + n * Price[s]
         /\ holding' = [holding EXCEPT ![s] = @ - n]
  /\ UNCHANGED <<strategy, row, orderVars, run, w2, snapVars, faults>>

\* The exchange rejects what is left.
BrokerRejects(o) ==
  /\ book[o].rmn > 0
  /\ book' = [book EXCEPT ![o].rmn = 0, ![o].rjct = @ + book[o].rmn]
  /\ UNCHANGED <<account, strategy, row, orderVars, run, w2, snapVars, faults>>

-----------------------------------------------------------------------------
(* worker-2: tracking, the snapshot trigger and the snapshot task            *)

Idle(w) == w2[w].pc = "idle"
Become(w, pc) == w2' = [w2 EXCEPT ![w].pc = pc]

\* The status a poll computes from the broker's row
Polled(o) ==
  RowStatus("NEW", cancel[o].st \notin {"NONE", "FLUSHED", "LOST"}, qty[o], book[o])

\* A poll and its commit; a terminal status goes on to
\* _trigger_rebalance_snapshot_if_completed.
TrackOrder(w, o) ==
  /\ Idle(w) /\ status[o] \in TRACKING_TARGET_STATUSES
  /\ status' = [status EXCEPT ![o] = Polled(o)]
  /\ remaining' = [remaining EXCEPT ![o] = book[o].rmn]
  /\ Become(w, IF Polled(o) \in TERMINAL_STATES THEN "trigger" ELSE "idle")
  /\ UNCHANGED <<account, book, strategy, row, qty, cancel, run, snapVars, faults>>

\* A poll after ORDER_TRACKING_MAX_WINDOW_SECONDS, 30 minutes that outlast the
\* two waits, finds the order open.  Its cancel is never created: uuid.uuid4
\* raises, as in OrderPipeline.
TrackingTimesOut(w, o) ==
  /\ Idle(w) /\ status[o] \in TRACKING_TARGET_STATUSES
  /\ run.pc \in Over
  /\ Polled(o) \notin TERMINAL_STATES
  /\ status' = [status EXCEPT ![o] = "TIMEOUT"]
  /\ remaining' = [remaining EXCEPT ![o] = book[o].rmn]
  /\ Become(w, "trigger")
  /\ UNCHANGED <<account, book, strategy, row, qty, cancel, run, snapVars, faults>>

\* An inquiry that is refused: FAILED, and no trigger.
TrackingRefused(w, o) ==
  /\ Idle(w) /\ status[o] \in TRACKING_TARGET_STATUSES
  /\ Fault("refused")
  /\ status' = [status EXCEPT ![o] = "FAILED"]
  /\ UNCHANGED <<account, book, strategy, row, qty, remaining, cancel, run, w2, snapVars>>

\* The broker's row of a cancel order: reported as cancelled, applying it to
\* the original raises before the trigger; reported as done, it does not.
TrackCancel(w, o, as) ==
  /\ Idle(w) /\ cancel[o].st = "ACCEPTED"
  /\ cancel' = [cancel EXCEPT ![o].st = as]
  /\ Become(w, IF as = "FILLED" THEN "trigger" ELSE "idle")
  /\ UNCHANGED <<account, book, strategy, row, status, qty, remaining, run, snapVars, faults>>

\* get_orders_by_rebalance_id and worker-2's TERMINAL_STATUSES
AllTerminal ==
  /\ \A o \in Orders : status[o] \in TERMINAL_STATES \cup {"NONE"}
  /\ \A o \in Orders : cancel[o].st \in {"NONE", "FLUSHED", "LOST", "CANCELED", "FILLED"}

\* _trigger_rebalance_snapshot_if_completed
TriggerSnapshot(w) ==
  /\ w2[w].pc = "trigger"
  /\ snapQ' = snapQ + IF AllTerminal THEN 1 ELSE 0
  /\ Become(w, "idle")
  /\ UNCHANGED <<account, book, strategy, row, orderVars, run, snapshots, faults>>

\* Mutant: the snapshot task does not look for an earlier one.
NeverStored == FALSE

\* get_snapshot_id_by_rebalance finds one.
SnapshotStored == snapshots # <<>>

\* capture: the idempotency check.
CheckSnapshot(w) ==
  /\ Idle(w) /\ snapQ > 0
  /\ snapQ' = snapQ - 1
  /\ Become(w, IF SnapshotStored THEN "idle" ELSE "checked")
  /\ UNCHANGED <<account, book, strategy, row, orderVars, run, snapshots, faults>>

\* capture: the first inquiry, for the holdings.
ReadHoldings(w) ==
  /\ w2[w].pc = "checked"
  /\ w2' = [w2 EXCEPT ![w] = [pc |-> "read", held |-> holding]]
  /\ UNCHANGED <<account, book, strategy, row, orderVars, run, snapVars, faults>>

\* capture: the second inquiry, for the cash, the insert and its commit.
StoreSnapshot(w) ==
  /\ w2[w].pc = "read"
  /\ snapshots' = Append(snapshots, [holding |-> w2[w].held, cash |-> cash])
  /\ w2' = [w2 EXCEPT ![w] = [pc |-> "idle", held |-> None]]
  /\ UNCHANGED <<account, book, strategy, row, orderVars, run, snapQ, faults>>

\* Any error of the task is logged and the task ends.
SnapshotFails(w) ==
  /\ w2[w].pc \in {"checked", "read"}
  /\ Fault("snapshot")
  /\ w2' = [w2 EXCEPT ![w] = [pc |-> "idle", held |-> None]]
  /\ UNCHANGED <<account, book, strategy, row, orderVars, run, snapVars>>

-----------------------------------------------------------------------------
\* The steps the process running submit() takes by itself.
RunStep ==
  \/ \E dry \in BOOLEAN : Plan(dry)
  \/ RecordRun
  \/ \E s \in Stocks : InsertAndQueue(s) \/ FlushCancel(s)
  \/ AllQueued \/ PollSettled \/ WaitTimesOut \/ Recheck \/ CommitCancels
  \/ SizeBuysWithCash \/ CompleteRun

RunFault ==
  \/ PlanFails \/ SizeBuysBlindly \/ RunAborts
  \/ \E s \in Stocks : QueueFails(s) \/ CancelQueueFails(s)

Market ==
  \E o \in Orders :
    \/ SubmitOrder(o) \/ DeliverTooEarly(o) \/ SubmitCancel(o)
    \/ \E k \in 1..book[o].rmn : BrokerFills(o, k)
    \/ BrokerRejects(o)

Tracking(w) ==
  \/ \E o \in Orders :
       \/ TrackOrder(w, o) \/ TrackingTimesOut(w, o) \/ TrackingRefused(w, o)
       \/ \E as \in {"CANCELED", "FILLED"} : TrackCancel(w, o, as)
  \/ TriggerSnapshot(w) \/ CheckSnapshot(w) \/ ReadHoldings(w)
  \/ StoreSnapshot(w) \/ SnapshotFails(w)

Next == RunStep \/ RunFault \/ Market \/ \E w \in Trackers : Tracking(w)

Spec == Init /\ [][Next]_vars

\* The process keeps running, and its clock with it: WaitTimesOut is one of its
\* steps.  Nothing is assumed of the broker and the workers.
FairSpec == Spec /\ WF_vars(RunStep)

-----------------------------------------------------------------------------
(* Properties                                                                *)

\* At the prices the buys were sized with, the cash in the account covers
\* every buy order that is open or not yet submitted, although sells may fill
\* late, in part or not at all: the buys are sized by the cash that is there
\* after the wait (_get_actual_cash) and not by the plan.
Outstanding(o) == IF status[o] = "PENDING" THEN qty[o] ELSE book[o].rmn
BuysCovered ==
  cash >= Value([s \in Stocks |-> Outstanding(<<"BUY", s>>)], Price)

\* Whenever the run goes on to the next side, and when it is COMPLETED, every
\* order of the side before is closed or a cancel of all its remainder that the
\* generator knew of has been written: a timeout never leaves an order behind.
Left(side) ==
  \A s \in Stocks : LET o == <<side, s>> IN
    status[o] \notin GENERATOR_TERMINAL \cup {"NONE"} => cancel[o].qty >= book[o].rmn
NothingLeftBehind ==
  /\ run.side = "BUY" => Left("SELL")
  /\ row = "COMPLETED" => Left("SELL") /\ Left("BUY")

\* A run whose orders were all filled ends with the portfolio it aimed at:
\* nothing outside the target is held, the stocks that were kept are untouched
\* and the cash was enough.  Sells are planned before the wait, buys after it,
\* both from the holdings read at the start (calculate, hold_list).
CleanRunReachesTarget ==
  row = "COMPLETED" /\ (\A o \in Orders : status[o] \in {"NONE", "FILLED"}) =>
    /\ Held(holding) \subseteq target
    /\ \A s \in target \cap Held(run.held) : holding[s] = run.held[s]
    /\ cash >= 0

\* With one worker-2 process a rebalance gets at most one snapshot, however
\* often the trigger fires (capture's idempotency check).
OneSnapshot == Cardinality(Trackers) = 1 => Len(snapshots) <= 1

\* A row that says RUNNING does so for good only if the process was aborted:
\* timeouts, refused orders and failing queues all end in COMPLETED or FAILED.
RunEnds == row = "RUNNING" ~> row \in {"COMPLETED", "FAILED"} \/ run.pc = "dead"

\* tasks_snapshot.py: the snapshot is queued after all orders of the rebalance
\* are terminal.  So no order is added to a rebalance whose snapshot task has
\* been queued.
NoOrderAfterSnapshot ==
  [][snapQ > 0 \/ snapshots # <<>> =>
       \A o \in Orders : status[o] = "NONE" => status'[o] = "NONE"]_vars
=============================================================================
