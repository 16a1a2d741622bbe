------------------------- MODULE RebalanceRunProofs -------------------------
(***************************************************************************)
(* Proofs about RebalanceRun, for any stocks, prices, portfolios, targets  *)
(* and number of worker-2 processes: the buys are covered by the cash, no  *)
(* order is left behind, a clean run reaches its target and one worker-2   *)
(* process stores one snapshot.                                            *)
(***************************************************************************)
EXTENDS RebalanceRun, PositionDiffProofs

-----------------------------------------------------------------------------
(* The inductive invariant                                                   *)

\* The broker's row and the database's row of one order
OrderInv(o) ==
  /\ status[o] \in {"NONE", "PENDING"} => book[o] = NoBook /\ remaining[o] = 0
  /\ book[o].rmn <= remaining[o]
  /\ book[o].rmn + book[o].cncl + book[o].rjct <= qty[o]
  /\ status[o] = "FILLED" => book[o].rmn + book[o].cncl + book[o].rjct = 0

OrdersInv == \A o \in Orders : OrderInv(o)

\* Where submit() is, and what there may be by then
StageInv ==
  /\ run.pc \in {"ready", "planned"} =>
       /\ row = "NONE" /\ run.side = "SELL"
       /\ \A o \in Orders : status[o] = "NONE"
       /\ holding \in [Stocks -> Nat]
  /\ run.pc \notin {"ready", "planned"} \cup Over => row # "NONE"
  /\ run.pc = "planned" => run.held = holding /\ run.shares = SellShares(target, run.held)
  /\ row = "COMPLETED" => run.pc = "done" /\ run.side = "BUY"
  /\ run.side = "SELL" => \A s \in Stocks : status[<<"BUY", s>>] = "NONE"
  /\ run.pc = "submitting" =>
       \A s \in run.todo : status[<<run.side, s>>] = "NONE" /\ run.shares[s] > 0

HintInv ==
  \A s \in Stocks : hint[s] \in {0, Price[s]} /\ (run.buys[s] > 0 => s \in target /\ hint[s] > 0)

\* A side's orders are closed, or cancelled with all that may still trade.
Settled(side) ==
  \A s \in Stocks : LET o == <<side, s>> IN
    status[o] \notin GENERATOR_TERMINAL \cup {"NONE"} => cancel[o].qty >= Outstanding(o)

\* Settled, once the cancels that are still to be written are.
BeingSettled(side) ==
  \A s \in Stocks : LET o == <<side, s>> IN
    status[o] \notin GENERATOR_TERMINAL \cup {"NONE"} =>
      (IF s \in run.todo THEN run.shares[s] ELSE cancel[o].qty) >= Outstanding(o)

LeftInv ==
  /\ \A o \in Orders : cancel[o].st \in {"FLUSHED", "LOST"} =>
       run.pc = "cancelling" /\ o[1] = run.side
  /\ run.side = "BUY" => Settled("SELL")
  /\ \A side \in Sides : run.side = side =>
       /\ run.pc = "settled" \/ row = "COMPLETED" => Settled(side)
       /\ run.pc = "cancelling" => BeingSettled(side)

\* What may still have to be paid for a stock: its open buy, or the buy that
\* will be submitted.
Due(s) ==
  Outstanding(<<"BUY", s>>)
    + IF run.pc = "submitting" /\ run.side = "BUY" /\ s \in run.todo THEN run.shares[s] ELSE 0

CashInv == cash >= Value([s \in Stocks |-> Due(s)], Price)

Traded(o) ==
  IF status[o] \in {"NONE", "PENDING"} THEN 0
  ELSE qty[o] - book[o].rmn - book[o].cncl - book[o].rjct

\* Submitting(side, s): the order is still to be written.
ToSubmit(side, s) == run.pc = "submitting" /\ run.side = side /\ s \in run.todo

Sold(s) == s \notin target /\ run.held[s] > 0
Bought(s) == s \in target /\ run.held[s] = 0

\* What is ordered of each stock follows from the holdings read at the start
\* and the target, and what is held from what was traded.
AimInv ==
  row # "NONE" => \A s \in Stocks :
    /\ status[<<"SELL", s>>] # "NONE" => Sold(s) /\ qty[<<"SELL", s>>] = run.held[s]
    /\ status[<<"BUY", s>>] # "NONE" => Bought(s)
    /\ ToSubmit("SELL", s) => Sold(s) /\ run.shares[s] = run.held[s]
    /\ ToSubmit("BUY", s) => Bought(s)
    /\ Sold(s) /\ (run.pc \notin Over \/ run.side = "BUY") =>
         status[<<"SELL", s>>] # "NONE" \/ ToSubmit("SELL", s)
    /\ holding[s] = run.held[s] - Traded(<<"SELL", s>>) + Traded(<<"BUY", s>>)

SnapshotInv ==
  \A w \in Trackers : Trackers = {w} =>
    /\ Len(snapshots) <= 1
    /\ w2[w].pc \in {"checked", "read"} => snapshots = <<>>

RebalanceInv ==
  TypeOK /\ OrdersInv /\ StageInv /\ HintInv /\ LeftInv /\ CashInv /\ AimInv /\ SnapshotInv

-----------------------------------------------------------------------------
(* Types                                                                     *)

\* An order is a side and a stock.
LEMMA OrderPairs ==
  /\ \A o \in Orders : o[1] \in Sides /\ o[2] \in Stocks /\ o = <<o[1], o[2]>>
  /\ \A side \in Sides, s \in Stocks : <<side, s>> \in Orders
BY DEF Orders

\* The types of the fields of one order.
LEMMA OrderTypes ==
  ASSUME TypeOK, NEW o \in Orders
  PROVE  /\ status[o] \in ORDER_STATUS \cup {"NONE"}
         /\ qty[o] \in Nat /\ remaining[o] \in Nat
         /\ book[o] \in [rmn: Nat, cncl: Nat, rjct: Nat]
         /\ book[o].rmn \in Nat /\ book[o].cncl \in Nat /\ book[o].rjct \in Nat
         /\ cancel[o].st \in CancelStatus /\ cancel[o].qty \in Nat /\ cancel[o].numbered \in BOOLEAN
         /\ Outstanding(o) \in Nat
<1>1. /\ status[o] \in ORDER_STATUS \cup {"NONE"}
      /\ qty[o] \in Nat /\ remaining[o] \in Nat
      /\ book[o] \in [rmn: Nat, cncl: Nat, rjct: Nat]
      /\ cancel[o] \in [st: CancelStatus, qty: Nat, numbered: BOOLEAN]
  BY DEF TypeOK
<1> QED
  BY <1>1 DEF Outstanding

RunType ==
  [pc: {"ready", "planned", "submitting", "waiting", "late", "cancelling", "settled"} \cup Over,
   side: Sides, held: [Stocks -> Nat], buys: [Stocks -> Nat],
   shares: [Stocks -> Nat], todo: SUBSET Stocks, numbered: SUBSET Stocks]

\* The types of the fields of the process that runs submit().
LEMMA RunTypes ==
  ASSUME TypeOK
  PROVE  /\ run \in RunType /\ run.side \in Sides
         /\ run.held \in [Stocks -> Nat] /\ run.buys \in [Stocks -> Nat]
         /\ run.shares \in [Stocks -> Nat] /\ run.todo \in SUBSET Stocks
BY DEF TypeOK, RunType

\* What a poll can see.
LEMMA PolledSays ==
  ASSUME TypeOK, NEW o \in Orders
  PROVE  /\ Polled(o) \in {"ACCEPTED", "PARTIAL_FILLED", "FILLED", "CANCELED", "FAILED"}
         /\ Polled(o) = "FILLED" => book[o].rmn + book[o].cncl + book[o].rjct = 0
<1> DEFINE ord == qty[o]
           row_ == book[o]
           fill == RowFilled(ord, row_)
           Says(x) == /\ x \in {"ACCEPTED", "PARTIAL_FILLED", "FILLED", "CANCELED", "FAILED"}
                      /\ x = "FILLED" => row_.rmn + row_.cncl + row_.rjct = 0
<1>1. ord \in Nat /\ row_.rmn \in Nat /\ row_.cncl \in Nat /\ row_.rjct \in Nat
  BY OrderTypes
<1>2. fill \in Nat /\ (fill >= ord /\ ord > 0 => row_.rmn + row_.cncl + row_.rjct = 0)
  BY <1>1 DEF RowFilled, AtLeastZero
<1> HIDE DEF ord, row_, fill
<1>3. Says(ParentStatus(ord, fill, row_.rmn))
  <2>1. CASE fill >= ord /\ ord > 0
    BY <1>2, <2>1 DEF ParentStatus
  <2>2. CASE ~(fill >= ord /\ ord > 0) /\ row_.rmn > 0
    BY <2>2 DEF ParentStatus
  <2>3. CASE ~(fill >= ord /\ ord > 0) /\ ~(row_.rmn > 0)
    BY <2>3 DEF ParentStatus
  <2> QED
    BY <2>1, <2>2, <2>3
<1>4. Says(LeafStatus(ord, row_))
  <2>0. fill = RowFilled(ord, row_)
    BY DEF fill
  <2>1. CASE row_.rmn > 0
    BY <1>1, <2>0, <2>1 DEF LeafStatus
  <2>2. CASE row_.rmn = 0 /\ ord > 0 /\ fill >= ord
    BY <1>1, <1>2, <2>0, <2>2 DEF LeafStatus
  <2>3. CASE row_.rmn = 0 /\ ~(ord > 0 /\ fill >= ord)
    BY <1>1, <2>0, <2>3 DEF LeafStatus
  <2> QED
    BY <1>1, <2>1, <2>2, <2>3
<1>5. Says(Polled(o))
  <2>1. \A child : Says(RowStatus("NEW", child, ord, row_))
    BY <1>3, <1>4 DEF RowStatus, fill
  <2> HIDE DEF Says
  <2> QED
    BY <2>1 DEF Polled, ord, row_
<1> QED
  BY <1>5 DEF row_

\* What the plan and the sizing after the sells compute are quantities.
LEMMA Shares ==
  ASSUME TypeOK
  PROVE  /\ \A seen \in Int : BuysFor(seen) \in [Stocks -> Nat]
         /\ StageInv /\ run.pc = "ready" =>
              /\ holding \in [Stocks -> Nat]
              /\ SellShares(target, holding) \in [Stocks -> Nat]
              /\ PlannedBuys(target, holding, Price, hint, cash) \in [Stocks -> Nat]
<1>1. /\ IsFiniteSet(Stocks) /\ Price \in [Stocks -> Nat]
      /\ target \in SUBSET Stocks /\ hint \in [Stocks -> Nat] /\ cash \in Int
  BY FiniteSystem, PricesArePositive, StartingPoints DEF TypeOK
<1>2. run.held \in [Stocks -> Nat] /\ run.buys \in [Stocks -> Nat]
  BY RunTypes
<1>3. ASSUME NEW seen \in Int PROVE BuysFor(seen) \in [Stocks -> Nat]
  <2>1. Sized(BuyShares(target, run.held, Price, hint, seen),
              Stocks, target \ Held(run.held), hint, seen)
    BY <1>1, <1>2, BuySharesType
  <2>2. RecalculatedBuys(target, run.held, Price, hint, seen) \in [Stocks -> Nat]
    BY <2>1 DEF RecalculatedBuys, Sized
  <2> QED
    BY <1>2, <2>2 DEF BuysFor
<1>4. ASSUME StageInv, run.pc = "ready"
      PROVE  /\ holding \in [Stocks -> Nat]
             /\ SellShares(target, holding) \in [Stocks -> Nat]
             /\ PlannedBuys(target, holding, Price, hint, cash) \in [Stocks -> Nat]
  <2>1. holding \in [Stocks -> Nat]
    BY <1>4 DEF StageInv
  <2>2. PICK b \in Int : Sized(PlannedBuys(target, holding, Price, hint, cash),
                               Stocks, target \ Held(holding), hint, b)
    BY <1>1, <2>1, PlannedBuysType
  <2> QED
    BY <2>1, <2>2, SellSharesType DEF Sized
<1> QED
  BY <1>3, <1>4

\* The initial states are well typed.
LEMMA TypeInit == Init => TypeOK
<1> SUFFICES ASSUME Init PROVE TypeOK
  OBVIOUS
<1>1. None \in [Stocks -> Nat] /\ None \in [Stocks -> Int]
  BY DEF None
<1>2. holding \in [Stocks -> Int] /\ cash \in Int /\ target \in Targets
  <2>1. holding \in [Stocks -> Nat] /\ cash \in Nat
    BY StartingPoints DEF Init
  <2> QED
    BY <2>1 DEF Init
<1>3. hint \in [Stocks -> Nat]
  BY PricesArePositive DEF Init
<1>4. book \in [Orders -> [rmn: Nat, cncl: Nat, rjct: Nat]]
  BY DEF Init, NoBook
<1>5. /\ status \in [Orders -> ORDER_STATUS \cup {"NONE"}]
      /\ qty \in [Orders -> Nat] /\ remaining \in [Orders -> Nat]
      /\ cancel \in [Orders -> [st: CancelStatus, qty: Nat, numbered: BOOLEAN]]
  BY DEF Init, NoCancel, CancelStatus
<1>6. run \in RunType
  BY <1>1 DEF Init, RunType, Sides
<1>7. /\ w2 \in [Trackers -> [pc: {"idle", "trigger", "checked", "read"}, held: [Stocks -> Int]]]
      /\ snapQ \in Nat /\ snapshots \in Seq([holding: [Stocks -> Int], cash: Int])
      /\ faults \in 0..MaxFaults
  BY <1>1, RunFaults DEF Init
<1> QED
  BY <1>2, <1>3, <1>4, <1>5, <1>6, <1>7 DEF TypeOK, RunType, Init

\* The steps of the process that runs submit()
RunMoves == RunStep \/ RunFault

RowType == {"NONE", "FLUSHED", "RUNNING", "COMPLETED", "FAILED"}

\* A failure is counted within the bound.
LEMMA FaultType ==
  ASSUME TypeOK, NEW kind, Fault(kind)
  PROVE  faults' \in 0..MaxFaults
BY RunFaults DEF Fault, TypeOK

\* A commit keeps a cancel's quantity, and leaves it visible.
LEMMA CommittedType ==
  ASSUME TypeOK, NEW o \in Orders
  PROVE  /\ Committed(cancel[o]) \in [st: CancelStatus, qty: Nat, numbered: BOOLEAN]
         /\ Committed(cancel[o]).qty = cancel[o].qty
         /\ Committed(cancel[o]).st \notin {"FLUSHED", "LOST"}
<1>1. cancel[o] \in [st: CancelStatus, qty: Nat, numbered: BOOLEAN]
  BY DEF TypeOK
<1> DEFINE c == cancel[o]
<1> HIDE DEF c
<1>2. c \in [st: CancelStatus, qty: Nat, numbered: BOOLEAN]
  BY <1>1 DEF c
<1>3. CASE c.st = "FLUSHED"
  BY <1>2, <1>3 DEF Committed, CancelStatus, c
<1>4. CASE c.st = "LOST"
  BY <1>2, <1>4 DEF Committed, CancelStatus, c
<1>5. CASE c.st \notin {"FLUSHED", "LOST"}
  BY <1>2, <1>5 DEF Committed, CancelStatus, c
<1> QED
  BY <1>3, <1>4, <1>5

\* submit() writes neither the account nor the broker's book, the strategy's
\* result, the remaining quantities or anything of the snapshots.
LEMMA RunFrame ==
  ASSUME RunMoves
  PROVE  UNCHANGED <<cash, holding, book, target, hint, remaining, w2, snapQ, snapshots>>
BY DEF RunMoves, RunStep, RunFault, Plan, PlanFails, RecordRun, InsertOrder, InsertAndQueue,
       QueueFails, AllQueued, PollSettled, WaitTimesOut, Recheck, FlushCancel, CommitCancels,
       CancelQueueFails, SizeBuys, SizeBuysWithCash, SizeBuysBlindly, CompleteRun, RunAborts,
       account, strategy, orderVars, snapVars

\* The steps of submit() keep the types of its own state and of the rebalances row,
LEMMA RunTypeKept ==
  ASSUME TypeOK, StageInv, RunMoves
  PROVE  run' \in RunType /\ row' \in RowType
<1>1. /\ run \in RunType /\ row \in RowType /\ cash \in Int
      /\ run = [pc |-> run.pc, side |-> run.side, held |-> run.held, buys |-> run.buys,
                shares |-> run.shares, todo |-> run.todo, numbered |-> run.numbered]
  BY DEF TypeOK, RunType, RowType
<1>2. CASE \E dry \in BOOLEAN : Plan(dry)
  BY <1>1, <1>2, Shares DEF Plan, RunType, Over
<1>3. CASE RecordRun
  BY <1>1, <1>3 DEF RecordRun, Submit, RunType, RowType, Sides
<1>4. CASE SizeBuysWithCash \/ SizeBuysBlindly
  <2>1. PICK seen \in Int : SizeBuys(seen)
    BY <1>1, <1>4 DEF SizeBuysWithCash, SizeBuysBlindly
  <2>2. BuysFor(seen) \in [Stocks -> Nat]
    BY Shares
  <2> QED
    BY <1>1, <2>1, <2>2 DEF SizeBuys, Submit, RunType, RowType, Sides
<1>5. CASE Recheck
  <2>1. \A s \in Stocks : CancelQuantity(<<run.side, s>>) \in Nat
    BY OrderTypes, OrderPairs, RunTypes DEF CancelQuantity
  <2> DEFINE shares == [s \in Stocks |-> IF <<run.side, s>> \in Unfilled
                                          THEN CancelQuantity(<<run.side, s>>) ELSE 0]
             todo == {s \in Stocks : <<run.side, s>> \in Unfilled
                                     /\ CancelQuantity(<<run.side, s>>) > 0}
             numbered == {s \in Stocks : remaining[<<run.side, s>>] > 0}
  <2>2. shares \in [Stocks -> Nat] /\ todo \in SUBSET Stocks /\ numbered \in SUBSET Stocks
    BY <2>1
  <2>3. \/ run' = [run EXCEPT !.pc = "settled"]
        \/ run' = [run EXCEPT !.pc = "cancelling", !.shares = shares, !.todo = todo,
                               !.numbered = numbered]
    BY <1>5 DEF Recheck
  <2> HIDE DEF shares, todo, numbered
  <2>4. run' \in RunType
    BY <1>1, <2>2, <2>3 DEF RunType
  <2> QED
    BY <1>1, <1>5, <2>4 DEF Recheck
<1>6. CASE \E s \in Stocks : InsertAndQueue(s) \/ FlushCancel(s) \/ QueueFails(s) \/ CancelQueueFails(s)
  BY <1>1, <1>6 DEF InsertAndQueue, FlushCancel, QueueFails, CancelQueueFails, RunType, RowType, Over
<1>7. CASE AllQueued \/ PollSettled \/ WaitTimesOut \/ CommitCancels \/ CompleteRun
  BY <1>1, <1>7
  DEF AllQueued, PollSettled, WaitTimesOut, CommitCancels, CompleteRun, RunType, RowType, Over
<1>8. CASE PlanFails \/ RunAborts
  BY <1>1, <1>8 DEF PlanFails, RunAborts, RunType, RowType, Over
<1> QED
  BY <1>2, <1>3, <1>4, <1>5, <1>6, <1>7, <1>8 DEF RunMoves, RunStep, RunFault

\* and those of the order rows.
LEMMA RunOrdersTypeKept ==
  ASSUME TypeOK, RunMoves
  PROVE  /\ status' \in [Orders -> ORDER_STATUS \cup {"NONE"}]
         /\ qty' \in [Orders -> Nat]
         /\ cancel' \in [Orders -> [st: CancelStatus, qty: Nat, numbered: BOOLEAN]]
         /\ faults' \in 0..MaxFaults
<1> DEFINE CancelType == [st: CancelStatus, qty: Nat, numbered: BOOLEAN]
<1>1. /\ status \in [Orders -> ORDER_STATUS \cup {"NONE"}] /\ qty \in [Orders -> Nat]
      /\ cancel \in [Orders -> CancelType] /\ faults \in 0..MaxFaults
      /\ run.shares \in [Stocks -> Nat] /\ run.side \in Sides
  BY RunTypes DEF TypeOK
<1>2. faults' \in 0..MaxFaults
  <2>1. CASE RunStep
    BY <1>1, <2>1
    DEF RunStep, Plan, RecordRun, InsertAndQueue, AllQueued, PollSettled, WaitTimesOut, Recheck,
        FlushCancel, CommitCancels, SizeBuysWithCash, CompleteRun
  <2>2. CASE RunFault
    BY <2>2, FaultType
    DEF RunFault, PlanFails, SizeBuysBlindly, RunAborts, QueueFails, CancelQueueFails
  <2> QED
    BY <2>1, <2>2 DEF RunMoves
<1>3. CASE \E s \in Stocks : InsertAndQueue(s) \/ QueueFails(s)
  <2>1. PICK s \in Stocks : InsertOrder(s)
    BY <1>3 DEF InsertAndQueue, QueueFails
  <2> QED
    BY <1>1, <1>2, <2>1 DEF InsertOrder, ORDER_STATUS
<1>4. CASE \E s \in Stocks : FlushCancel(s)
  <2>1. PICK s \in Stocks : FlushCancel(s)
    BY <1>4
  <2>2. [st |-> "FLUSHED", qty |-> run.shares[s], numbered |-> s \in run.numbered] \in CancelType
    BY <1>1 DEF CancelStatus
  <2> HIDE DEF CancelType
  <2>3. cancel' \in [Orders -> CancelType]
    BY <1>1, <2>1, <2>2 DEF FlushCancel
  <2> QED
    BY <1>1, <1>2, <2>1, <2>3 DEF FlushCancel, CancelType
<1>5. CASE CommitCancels
  <2>1. \A o \in Orders : Committed(cancel[o]) \in CancelType
    BY CommittedType
  <2> QED
    BY <1>1, <1>2, <1>5, <2>1 DEF CommitCancels
<1>6. CASE \E s \in Stocks : CancelQueueFails(s)
  <2>1. \A o \in Orders : Committed(cancel[o]) \in CancelType
    BY CommittedType
  <2>2. PICK s \in Stocks : CancelQueueFails(s)
    BY <1>6
  <2>3. [st |-> "STRANDED", qty |-> run.shares[s], numbered |-> s \in run.numbered] \in CancelType
    BY <1>1 DEF CancelStatus
  <2> HIDE DEF CancelType
  <2>4. cancel' \in [Orders -> CancelType]
    BY <2>1, <2>2, <2>3 DEF CancelQueueFails
  <2> QED
    BY <1>1, <1>2, <2>2, <2>4 DEF CancelQueueFails, CancelType
<1>7. CASE RunAborts
  BY <1>1, <1>2, <1>7 DEF RunAborts, NoCancel, CancelStatus
<1>8. CASE UNCHANGED orderVars
  BY <1>1, <1>2, <1>8 DEF orderVars
<1>9. \/ \E s \in Stocks : InsertAndQueue(s) \/ QueueFails(s) \/ FlushCancel(s) \/ CancelQueueFails(s)
      \/ CommitCancels \/ RunAborts \/ UNCHANGED orderVars
  BY DEF RunMoves, RunStep, RunFault, Plan, PlanFails, RecordRun, AllQueued, PollSettled,
         WaitTimesOut, Recheck, SizeBuysWithCash, SizeBuysBlindly, SizeBuys, CompleteRun
<1> QED
  BY <1>3, <1>4, <1>5, <1>6, <1>7, <1>8, <1>9

\* Another status keeps the type of the cancel rows.
LEMMA CancelStatusType ==
  ASSUME TypeOK, NEW o \in Orders, NEW st \in CancelStatus, cancel' = [cancel EXCEPT ![o].st = st]
  PROVE  cancel' \in [Orders -> [st: CancelStatus, qty: Nat, numbered: BOOLEAN]]
<1>1. cancel \in [Orders -> [st: CancelStatus, qty: Nat, numbered: BOOLEAN]]
  BY DEF TypeOK
<1>2. [cancel[o] EXCEPT !.st = st] \in [st: CancelStatus, qty: Nat, numbered: BOOLEAN]
  BY <1>1
<1> QED
  BY <1>1, <1>2

W2Type == [pc: {"idle", "trigger", "checked", "read"}, held: [Stocks -> Int]]

\* A worker-2 process that goes on keeps the type of the processes.
LEMMA BecomeType ==
  ASSUME TypeOK, NEW w \in Trackers, NEW pc \in {"idle", "trigger", "checked", "read"}, Become(w, pc)
  PROVE  w2' \in [Trackers -> W2Type]
<1>1. w2 \in [Trackers -> W2Type]
  BY DEF TypeOK, W2Type
<1>2. [w2[w] EXCEPT !.pc = pc] \in W2Type
  BY <1>1 DEF W2Type
<1>3. w2' = [w2 EXCEPT ![w] = [w2[w] EXCEPT !.pc = pc]]
  BY DEF Become
<1> QED
  BY <1>1, <1>2, <1>3

\* The steps of worker-1 and the broker keep the types.
LEMMA MarketTypeKept ==
  ASSUME TypeOK, Market
  PROVE  TypeOK'
<1> DEFINE BookType == [rmn: Nat, cncl: Nat, rjct: Nat]
<1>0. /\ cash \in Int /\ holding \in [Stocks -> Int] /\ book \in [Orders -> BookType]
      /\ status \in [Orders -> ORDER_STATUS \cup {"NONE"}]
      /\ qty \in [Orders -> Nat] /\ remaining \in [Orders -> Nat]
      /\ cancel \in [Orders -> [st: CancelStatus, qty: Nat, numbered: BOOLEAN]]
  BY DEF TypeOK
<1>1. PICK o \in Orders : \/ SubmitOrder(o) \/ DeliverTooEarly(o) \/ SubmitCancel(o)
                          \/ \E k \in 1..book[o].rmn : BrokerFills(o, k)
                          \/ BrokerRejects(o)
  BY DEF Market
<1>2. /\ qty[o] \in Nat /\ book[o].rmn \in Nat /\ book[o].cncl \in Nat /\ book[o].rjct \in Nat
      /\ cancel[o].qty \in Nat
  BY OrderTypes
<1>3. UNCHANGED <<target, hint, row, qty, run, w2, snapQ, snapshots, faults>>
  BY <1>1 DEF SubmitOrder, DeliverTooEarly, SubmitCancel, BrokerFills, BrokerRejects,
              strategy, orderVars, snapVars
<1>4. cash' \in Int /\ holding' \in [Stocks -> Int]
  <2>1. CASE \E k \in 1..book[o].rmn : BrokerFills(o, k)
    <3>1. PICK k \in 1..book[o].rmn : BrokerFills(o, k)
      BY <2>1
    <3> DEFINE n == IF o[1] = "SELL" THEN k ELSE -k
    <3>2. n \in Int /\ o[2] \in Stocks /\ Price[o[2]] \in Int /\ n * Price[o[2]] \in Int
      BY <1>2, OrderPairs, PricesArePositive
    <3>3. cash' = cash + n * Price[o[2]] /\ holding' = [holding EXCEPT ![o[2]] = @ - n]
      BY <3>1 DEF BrokerFills
    <3> HIDE DEF n
    <3> QED
      BY <1>0, <3>2, <3>3
  <2>2. CASE UNCHANGED <<cash, holding>>
    BY <1>0, <2>2
  <2> QED
    BY <1>1, <2>1, <2>2 DEF SubmitOrder, DeliverTooEarly, SubmitCancel, BrokerRejects, account
<1>5. book' \in [Orders -> BookType]
  <2>1. CASE SubmitOrder(o)
    BY <1>0, <1>2, <2>1 DEF SubmitOrder
  <2>2. CASE DeliverTooEarly(o)
    BY <1>0, <2>2 DEF DeliverTooEarly
  <2>3. CASE SubmitCancel(o)
    <3> DEFINE less == book[o].rmn - cancel[o].qty
               more == book[o].cncl + cancel[o].qty
    <3>1. book' = [book EXCEPT ![o].rmn = less, ![o].cncl = more]
      BY <2>3 DEF SubmitCancel
    <3>2. less \in Nat /\ more \in Nat
      BY <1>2, <2>3 DEF SubmitCancel
    <3> HIDE DEF less, more
    <3> DEFINE once == [book EXCEPT ![o].rmn = less]
    <3>3. once \in [Orders -> BookType]
      BY <1>0, <3>2
    <3>4. book' = [once EXCEPT ![o].cncl = more]
      BY <3>1, Zenon
    <3> HIDE DEF once
    <3> QED
      BY <3>2, <3>3, <3>4
  <2>4. CASE \E k \in 1..book[o].rmn : BrokerFills(o, k)
    <3>1. PICK k \in 1..book[o].rmn : BrokerFills(o, k)
      BY <2>4
    <3> DEFINE less == book[o].rmn - k
    <3>2. book' = [book EXCEPT ![o].rmn = less]
      BY <3>1 DEF BrokerFills
    <3>3. less \in Nat
      BY <1>2
    <3> HIDE DEF less
    <3> QED
      BY <1>0, <3>2, <3>3
  <2>5. CASE BrokerRejects(o)
    BY <1>0, <1>2, <2>5 DEF BrokerRejects
  <2> QED
    BY <1>1, <2>1, <2>2, <2>3, <2>4, <2>5
<1>6. /\ status' \in [Orders -> ORDER_STATUS \cup {"NONE"}]
      /\ remaining' \in [Orders -> Nat]
      /\ cancel' \in [Orders -> [st: CancelStatus, qty: Nat, numbered: BOOLEAN]]
  <2>1. CASE SubmitOrder(o)
    <3>1. "ACCEPTED" \in ORDER_STATUS
      BY DEF ORDER_STATUS, TRACKING_TARGET_STATUSES
    <3> QED
      BY <1>0, <1>2, <2>1, <3>1 DEF SubmitOrder
  <2>2. CASE DeliverTooEarly(o) \/ SubmitCancel(o)
    <3>1. "LOST" \in CancelStatus /\ "ACCEPTED" \in CancelStatus
      BY DEF CancelStatus
    <3>2. UNCHANGED <<status, remaining>>
      BY <2>2 DEF DeliverTooEarly, SubmitCancel
    <3> QED
      BY <1>0, <2>2, <3>1, <3>2, CancelStatusType DEF DeliverTooEarly, SubmitCancel
  <2>3. CASE UNCHANGED orderVars
    BY <1>0, <2>3 DEF orderVars
  <2> QED
    BY <1>1, <2>1, <2>2, <2>3 DEF BrokerFills, BrokerRejects
<1> QED
  BY <1>3, <1>4, <1>5, <1>6 DEF TypeOK

\* The steps of worker-2 keep the types.
LEMMA TrackingTypeKept ==
  ASSUME TypeOK, NEW w \in Trackers, Tracking(w)
  PROVE  TypeOK'
<1> DEFINE CancelType == [st: CancelStatus, qty: Nat, numbered: BOOLEAN]
<1>0. /\ cash \in Int /\ holding \in [Stocks -> Int]
      /\ status \in [Orders -> ORDER_STATUS \cup {"NONE"}]
      /\ remaining \in [Orders -> Nat] /\ cancel \in [Orders -> CancelType]
      /\ w2 \in [Trackers -> W2Type] /\ snapQ \in Nat
      /\ snapshots \in Seq([holding: [Stocks -> Int], cash: Int])
      /\ faults \in 0..MaxFaults
      /\ None \in [Stocks -> Int]
  BY DEF TypeOK, None, W2Type
<1>1. ASSUME NEW o \in Orders, \/ TrackOrder(w, o) \/ TrackingTimesOut(w, o) \/ TrackingRefused(w, o)
                               \/ \E as \in {"CANCELED", "FILLED"} : TrackCancel(w, o, as)
      PROVE  TypeOK'
  <2>0. UNCHANGED <<cash, holding, book, target, hint, row, qty, run, snapQ, snapshots>>
    BY <1>1 DEF TrackOrder, TrackingTimesOut, TrackingRefused, TrackCancel, account, strategy, snapVars
  <2>1. /\ "FAILED" \in ORDER_STATUS /\ "TIMEOUT" \in ORDER_STATUS /\ Polled(o) \in ORDER_STATUS
        /\ "CANCELED" \in CancelStatus /\ "FILLED" \in CancelStatus
    BY PolledSays DEF ORDER_STATUS, TERMINAL_STATES, TRACKING_TARGET_STATUSES, CancelStatus
  <2>2. book[o].rmn \in Nat
    BY OrderTypes
  <2> HIDE DEF CancelType
  <2>3. status' \in [Orders -> ORDER_STATUS \cup {"NONE"}] /\ remaining' \in [Orders -> Nat]
    BY <1>0, <1>1, <2>1, <2>2 DEF TrackOrder, TrackingTimesOut, TrackingRefused, TrackCancel
  <2>4. cancel' \in [Orders -> CancelType]
    <3>1. CASE \E as \in {"CANCELED", "FILLED"} : TrackCancel(w, o, as)
      BY <2>1, <3>1, CancelStatusType DEF TrackCancel, CancelType
    <3> QED
      BY <1>0, <1>1, <3>1 DEF TrackOrder, TrackingTimesOut, TrackingRefused
  <2>5. w2' \in [Trackers -> W2Type]
    BY <1>0, <1>1, BecomeType DEF TrackOrder, TrackingTimesOut, TrackingRefused, TrackCancel
  <2>6. faults' \in 0..MaxFaults
    BY <1>0, <1>1, FaultType DEF TrackOrder, TrackingTimesOut, TrackingRefused, TrackCancel
  <2> QED
    BY <2>0, <2>3, <2>4, <2>5, <2>6 DEF TypeOK, CancelType, W2Type
<1>2. ASSUME \/ TriggerSnapshot(w) \/ CheckSnapshot(w) \/ ReadHoldings(w)
             \/ StoreSnapshot(w) \/ SnapshotFails(w)
      PROVE  TypeOK'
  <2>0. UNCHANGED <<cash, holding, book, target, hint, row, status, qty, remaining, cancel, run>>
    BY <1>2 DEF TriggerSnapshot, CheckSnapshot, ReadHoldings, StoreSnapshot, SnapshotFails,
                account, strategy, orderVars
  <2>1. w2' \in [Trackers -> W2Type]
    <3>1. CASE TriggerSnapshot(w) \/ CheckSnapshot(w)
      BY <3>1, BecomeType DEF TriggerSnapshot, CheckSnapshot
    <3>2. [pc |-> "read", held |-> holding] \in W2Type /\ [pc |-> "idle", held |-> None] \in W2Type
      BY <1>0 DEF W2Type
    <3>3. CASE ReadHoldings(w) \/ StoreSnapshot(w) \/ SnapshotFails(w)
      BY <1>0, <3>2, <3>3 DEF ReadHoldings, StoreSnapshot, SnapshotFails
    <3> QED
      BY <1>2, <3>1, <3>3
  <2>2. snapQ' \in Nat
    BY <1>0, <1>2 DEF TriggerSnapshot, CheckSnapshot, ReadHoldings, StoreSnapshot, SnapshotFails, snapVars
  <2>3. snapshots' \in Seq([holding: [Stocks -> Int], cash: Int])
    <3>1. w2[w].held \in [Stocks -> Int]
      BY <1>0 DEF W2Type
    <3>2. [holding |-> w2[w].held, cash |-> cash] \in [holding: [Stocks -> Int], cash: Int]
      BY <1>0, <3>1
    <3>3. CASE StoreSnapshot(w)
      <4> DEFINE Snap == [holding: [Stocks -> Int], cash: Int]
      <4> HIDE DEF Snap
      <4>1. snapshots \in Seq(Snap) /\ [holding |-> w2[w].held, cash |-> cash] \in Snap
        BY <1>0, <3>2 DEF Snap
      <4>2. snapshots' \in Seq(Snap)
        BY <3>3, <4>1 DEF StoreSnapshot
      <4> QED
        BY <4>2 DEF Snap
    <3>4. CASE UNCHANGED snapshots
      BY <1>0, <3>4
    <3> QED
      BY <1>2, <3>3, <3>4 DEF TriggerSnapshot, CheckSnapshot, ReadHoldings, SnapshotFails, snapVars
  <2>4. faults' \in 0..MaxFaults
    BY <1>0, <1>2, FaultType
    DEF TriggerSnapshot, CheckSnapshot, ReadHoldings, StoreSnapshot, SnapshotFails
  <2> QED
    BY <2>0, <2>1, <2>2, <2>3, <2>4 DEF TypeOK, W2Type
<1> QED
  BY <1>1, <1>2 DEF Tracking

\* Every step keeps the types.
LEMMA TypeKept ==
  ASSUME TypeOK, StageInv, [Next]_vars
  PROVE  TypeOK'
<1>1. CASE RunMoves
  BY <1>1, RunFrame, RunTypeKept, RunOrdersTypeKept DEF TypeOK, RunType, RowType
<1>2. CASE Market
  BY <1>2, MarketTypeKept
<1>3. CASE \E w \in Trackers : Tracking(w)
  BY <1>3, TrackingTypeKept
<1>4. CASE UNCHANGED vars
  BY <1>4 DEF TypeOK, vars, account, strategy, orderVars, snapVars
<1> QED
  BY <1>1, <1>2, <1>3, <1>4 DEF Next, RunMoves

-----------------------------------------------------------------------------
(* What the broker and the workers do to an order                            *)

\* Nobody but submit() writes orders, none is opened again, and what is open
\* only gets less.
Calm(o) ==
  /\ status'[o] = "NONE" <=> status[o] = "NONE"
  /\ status[o] \in GENERATOR_TERMINAL => status'[o] = status[o]
  /\ cancel'[o].qty = cancel[o].qty
  /\ cancel'[o].st \in {"FLUSHED", "LOST"} => cancel[o].st \in {"FLUSHED", "LOST"}
  /\ Outstanding(o)' <= Outstanding(o)

NothingTraded ==
  /\ UNCHANGED <<cash, holding>>
  /\ \A o \in Orders : Traded(o)' = Traded(o)

\* k shares of order o trade.
TradeOf(o, k) ==
  /\ Outstanding(o)' = Outstanding(o) - k
  /\ Traded(o)' = Traded(o) + k
  /\ \A x \in Orders \ {o} : Traded(x)' = Traded(x) /\ Outstanding(x)' = Outstanding(x)
  /\ cash' = cash + (IF o[1] = "SELL" THEN k ELSE -k) * Price[o[2]]
  /\ holding' = [holding EXCEPT ![o[2]] = @ - (IF o[1] = "SELL" THEN k ELSE -k)]
  /\ status[o] # "NONE"

WorkerEffect ==
  /\ UNCHANGED <<target, hint, row, qty, run>>
  /\ \A o \in Orders : OrderInv(o)' /\ Calm(o)
  /\ NothingTraded \/ \E o \in Orders, k \in Nat \ {0} : TradeOf(o, k)

\* The record of one order is as it was, but for the status of its cancel.
SameOrder(x) ==
  /\ UNCHANGED <<status[x], qty[x], remaining[x], book[x]>>
  /\ cancel'[x].qty = cancel[x].qty
  /\ cancel'[x].st \in {"FLUSHED", "LOST"} => cancel[x].st \in {"FLUSHED", "LOST"}

\* An order that is as it was has the effect of no trade.
LEMMA SameOrderIsCalm ==
  ASSUME TypeOK, NEW x \in Orders, OrderInv(x), SameOrder(x)
  PROVE  /\ OrderInv(x)' /\ Calm(x)
         /\ Traded(x)' = Traded(x) /\ Outstanding(x)' = Outstanding(x)
<1>1. Outstanding(x)' = Outstanding(x) /\ Traded(x)' = Traded(x) /\ Outstanding(x) \in Nat
  BY OrderTypes DEF SameOrder, Outstanding, Traded
<1>2. OrderInv(x)'
  BY DEF SameOrder, OrderInv
<1> QED
  BY <1>1, <1>2 DEF SameOrder, Calm

\* Whatever worker-1 and the broker do is a WorkerEffect.
LEMMA MarketEffect ==
  ASSUME TypeOK, OrdersInv, Market
  PROVE  WorkerEffect
<1>1. PICK o \in Orders : \/ SubmitOrder(o) \/ DeliverTooEarly(o) \/ SubmitCancel(o)
                          \/ \E k \in 1..book[o].rmn : BrokerFills(o, k)
                          \/ BrokerRejects(o)
  BY DEF Market
<1>2. /\ status \in [Orders -> ORDER_STATUS \cup {"NONE"}] /\ remaining \in [Orders -> Nat]
      /\ qty \in [Orders -> Nat] /\ book \in [Orders -> [rmn: Nat, cncl: Nat, rjct: Nat]]
      /\ cancel \in [Orders -> [st: CancelStatus, qty: Nat, numbered: BOOLEAN]]
      /\ holding \in [Stocks -> Int] /\ cash \in Int
  BY DEF TypeOK
<1>3. UNCHANGED <<target, hint, row, qty, run>>
  BY <1>1 DEF SubmitOrder, DeliverTooEarly, SubmitCancel, BrokerFills, BrokerRejects,
              strategy, orderVars
<1>4. \A x \in Orders \ {o} : SameOrder(x)
  BY <1>1, <1>2 DEF SubmitOrder, DeliverTooEarly, SubmitCancel, BrokerFills, BrokerRejects,
              orderVars, SameOrder
<1>5. \A x \in Orders \ {o} : OrderInv(x)' /\ Calm(x) /\ Traded(x)' = Traded(x)
                              /\ Outstanding(x)' = Outstanding(x)
  BY <1>4, SameOrderIsCalm DEF OrdersInv
<1>6. /\ qty[o] \in Nat /\ book[o].rmn \in Nat /\ book[o].cncl \in Nat /\ book[o].rjct \in Nat
      /\ cancel[o].qty \in Nat /\ remaining[o] \in Nat /\ OrderInv(o)
      /\ book[o] = [rmn |-> book[o].rmn, cncl |-> book[o].cncl, rjct |-> book[o].rjct]
  BY OrderTypes DEF OrdersInv
<1>7. CASE SubmitOrder(o)
  <2>1. /\ status[o] = "PENDING" /\ status'[o] = "ACCEPTED" /\ remaining'[o] = qty[o] /\ qty'[o] = qty[o]
        /\ book'[o] = [book[o] EXCEPT !.rmn = qty[o]] /\ cancel' = cancel
        /\ UNCHANGED <<cash, holding>>
    BY <1>2, <1>7 DEF SubmitOrder, account
  <2>2. book[o] = NoBook /\ remaining[o] = 0
    BY <1>6, <2>1 DEF OrderInv
  <2>3. book'[o].rmn = qty[o] /\ book'[o].cncl = 0 /\ book'[o].rjct = 0
    BY <1>6, <2>1, <2>2 DEF NoBook
  <2>4. OrderInv(o)' /\ Calm(o) /\ Traded(o)' = Traded(o)
    BY <1>6, <2>1, <2>3 DEF OrderInv, Calm, Traded, Outstanding, GENERATOR_TERMINAL
  <2> QED
    BY <1>3, <1>5, <2>1, <2>4 DEF WorkerEffect, NothingTraded
<1>8. CASE DeliverTooEarly(o)
  <2>1. SameOrder(o) /\ UNCHANGED <<cash, holding>>
    BY <1>2, <1>8 DEF DeliverTooEarly, SameOrder, account
  <2>2. OrderInv(o)' /\ Calm(o) /\ Traded(o)' = Traded(o)
    BY <1>6, <2>1, SameOrderIsCalm
  <2> QED
    BY <1>3, <1>5, <2>1, <2>2 DEF WorkerEffect, NothingTraded
<1>9. ASSUME NEW k \in Nat, k <= book[o].rmn, book'[o].rmn = book[o].rmn - k,
             \/ book'[o].cncl = book[o].cncl + k /\ book'[o].rjct = book[o].rjct
             \/ book'[o].cncl = book[o].cncl /\ book'[o].rjct = book[o].rjct + k,
             UNCHANGED <<cash, holding, status, remaining>>,
             cancel'[o].qty = cancel[o].qty, cancel'[o].st \notin {"FLUSHED", "LOST"} \/ cancel' = cancel
      PROVE  WorkerEffect
  <2>1. /\ book'[o].rmn + book'[o].cncl + book'[o].rjct = book[o].rmn + book[o].cncl + book[o].rjct
        /\ book'[o].rmn \in Nat /\ book'[o].cncl \in Nat /\ book'[o].rjct \in Nat
        /\ k = 0 => book'[o] = book[o]
    <3>1. book'[o] = [rmn |-> book'[o].rmn, cncl |-> book'[o].cncl, rjct |-> book'[o].rjct]
      <4>1. book' \in [Orders -> [rmn: Nat, cncl: Nat, rjct: Nat]]
        BY MarketTypeKept DEF TypeOK
      <4> QED
        BY <4>1
    <3> QED
      BY <1>6, <1>9, <3>1
  <2>2. status[o] \in {"NONE", "PENDING"} => k = 0
    BY <1>6, <1>9 DEF OrderInv, NoBook
  <2>3. OrderInv(o)' /\ Traded(o)' = Traded(o)
    BY <1>3, <1>6, <1>9, <2>1, <2>2 DEF OrderInv, Traded
  <2>4. Outstanding(o)' <= Outstanding(o)
    BY <1>3, <1>6, <1>9, <2>1, <2>2 DEF Outstanding
  <2>5. Calm(o)
    BY <1>9, <2>4 DEF Calm
  <2> QED
    BY <1>3, <1>5, <1>9, <2>3, <2>5 DEF WorkerEffect, NothingTraded
<1>10. CASE SubmitCancel(o)
  <2>1. /\ book'[o] = [book[o] EXCEPT !.rmn = @ - cancel[o].qty, !.cncl = @ + cancel[o].qty]
        /\ UNCHANGED <<cash, holding, status, remaining>>
        /\ cancel'[o].qty = cancel[o].qty /\ cancel'[o].st = "ACCEPTED"
        /\ cancel[o].qty <= book[o].rmn
    BY <1>2, <1>10 DEF SubmitCancel, account
  <2>2. /\ book'[o].rmn = book[o].rmn - cancel[o].qty
        /\ book'[o].cncl = book[o].cncl + cancel[o].qty /\ book'[o].rjct = book[o].rjct
    BY <1>6, <2>1
  <2> QED
    BY <1>6, <1>9, <2>1, <2>2
<1>11. CASE BrokerRejects(o)
  <2>1. /\ book'[o] = [book[o] EXCEPT !.rmn = 0, !.rjct = @ + book[o].rmn]
        /\ UNCHANGED <<cash, holding, status, remaining, cancel>>
    BY <1>2, <1>11 DEF BrokerRejects, account, orderVars
  <2>2. /\ book'[o].rmn = book[o].rmn - book[o].rmn
        /\ book'[o].cncl = book[o].cncl /\ book'[o].rjct = book[o].rjct + book[o].rmn
    BY <1>6, <2>1
  <2> QED
    BY <1>6, <1>9, <2>1, <2>2
<1>12. CASE \E k \in 1..book[o].rmn : BrokerFills(o, k)
  <2>1. PICK k \in 1..book[o].rmn : BrokerFills(o, k)
    BY <1>12
  <2>2. k \in Nat \ {0} /\ k <= book[o].rmn
    BY <1>6
  <2>3. /\ book'[o] = [book[o] EXCEPT !.rmn = @ - k]
        /\ UNCHANGED <<status, remaining, cancel>>
        /\ cash' = cash + (IF o[1] = "SELL" THEN k ELSE -k) * Price[o[2]]
        /\ holding' = [holding EXCEPT ![o[2]] = @ - (IF o[1] = "SELL" THEN k ELSE -k)]
    BY <1>2, <2>1 DEF BrokerFills, orderVars
  <2>4. /\ book'[o].rmn = book[o].rmn - k /\ book'[o].cncl = book[o].cncl /\ book'[o].rjct = book[o].rjct
    BY <1>6, <2>3
  <2>5. status[o] \notin {"NONE", "PENDING"}
    BY <1>6, <2>2 DEF OrderInv, NoBook
  <2>6. OrderInv(o)' /\ Traded(o)' = Traded(o) + k /\ Outstanding(o)' = Outstanding(o) - k
    BY <1>3, <1>6, <2>2, <2>3, <2>4, <2>5 DEF OrderInv, Traded, Outstanding
  <2>7. Calm(o)
    BY <2>2, <2>3, <2>6, OrderTypes DEF Calm
  <2>8. TradeOf(o, k)
    BY <1>5, <2>3, <2>5, <2>6 DEF TradeOf
  <2> QED
    BY <1>3, <1>5, <2>2, <2>6, <2>7, <2>8 DEF WorkerEffect
<1> QED
  BY <1>1, <1>7, <1>8, <1>10, <1>11, <1>12

\* Whatever worker-2 does is a WorkerEffect.
LEMMA TrackingEffect ==
  ASSUME TypeOK, OrdersInv, NEW w \in Trackers, Tracking(w)
  PROVE  WorkerEffect
<1>1. /\ status \in [Orders -> ORDER_STATUS \cup {"NONE"}] /\ remaining \in [Orders -> Nat]
      /\ cancel \in [Orders -> [st: CancelStatus, qty: Nat, numbered: BOOLEAN]]
  BY DEF TypeOK
<1>2. UNCHANGED <<cash, holding, book, target, hint, row, qty, run>>
  BY DEF Tracking, TrackOrder, TrackingTimesOut, TrackingRefused, TrackCancel, TriggerSnapshot,
         CheckSnapshot, ReadHoldings, StoreSnapshot, SnapshotFails, account, strategy, orderVars
<1>3. ASSUME NEW x \in Orders
      PROVE  OrderInv(x)' /\ Calm(x) /\ Traded(x)' = Traded(x)
  <2>1. CASE SameOrder(x)
    BY <2>1, SameOrderIsCalm DEF OrdersInv
  <2>2. CASE TrackOrder(w, x) \/ TrackingTimesOut(w, x) \/ TrackingRefused(w, x)
    <3>1. /\ status[x] \in TRACKING_TARGET_STATUSES /\ cancel' = cancel
          /\ status'[x] \in {Polled(x), "TIMEOUT", "FAILED"}
          /\ remaining'[x] \in {remaining[x], book[x].rmn}
      BY <1>1, <2>2 DEF TrackOrder, TrackingTimesOut, TrackingRefused
    <3>2. /\ book[x].rmn \in Nat /\ remaining[x] \in Nat /\ qty[x] \in Nat
          /\ book[x].cncl \in Nat /\ book[x].rjct \in Nat /\ OrderInv(x)
      BY OrderTypes DEF OrdersInv
    <3>3. /\ status'[x] \notin {"NONE", "PENDING"} /\ status[x] \notin {"NONE", "PENDING"} \cup GENERATOR_TERMINAL
          /\ status'[x] = "FILLED" => book[x].rmn + book[x].cncl + book[x].rjct = 0
      BY <3>1, PolledSays DEF TRACKING_TARGET_STATUSES, GENERATOR_TERMINAL
    <3>4. OrderInv(x)' /\ Traded(x)' = Traded(x) /\ Outstanding(x)' = Outstanding(x)
      BY <1>2, <3>1, <3>2, <3>3 DEF OrderInv, Traded, Outstanding
    <3> QED
      BY <3>1, <3>2, <3>3, <3>4, OrderTypes DEF Calm
  <2>3. CASE \E o \in Orders \ {x} : TrackOrder(w, o) \/ TrackingTimesOut(w, o) \/ TrackingRefused(w, o)
    <3>1. SameOrder(x)
      BY <1>1, <1>2, <2>3 DEF TrackOrder, TrackingTimesOut, TrackingRefused, SameOrder
    <3> QED
      BY <2>1, <3>1
  <2>4. CASE \E o \in Orders, as \in {"CANCELED", "FILLED"} : TrackCancel(w, o, as)
    <3>1. PICK o \in Orders, as \in {"CANCELED", "FILLED"} : TrackCancel(w, o, as)
      BY <2>4
    <3>2. UNCHANGED <<status, remaining>> /\ cancel' = [cancel EXCEPT ![o].st = as]
      BY <3>1 DEF TrackCancel
    <3>3. cancel'[x].qty = cancel[x].qty /\ cancel'[x].st \in {cancel[x].st, as}
      BY <1>1, <3>2
    <3>4. SameOrder(x)
      BY <1>2, <3>2, <3>3 DEF SameOrder
    <3> QED
      BY <2>1, <3>4
  <2>5. CASE \/ TriggerSnapshot(w) \/ CheckSnapshot(w) \/ ReadHoldings(w)
             \/ StoreSnapshot(w) \/ SnapshotFails(w)
    <3>1. SameOrder(x)
      BY <1>2, <2>5 DEF TriggerSnapshot, CheckSnapshot, ReadHoldings, StoreSnapshot, SnapshotFails,
                        orderVars, SameOrder
    <3> QED
      BY <2>1, <3>1
  <2> QED
    BY <2>2, <2>3, <2>4, <2>5 DEF Tracking
<1> QED
  BY <1>2, <1>3 DEF WorkerEffect, NothingTraded

-----------------------------------------------------------------------------
(* The steps of the broker and the workers keep the invariant                *)

\* After a step, too, a natural number is outstanding.
LEMMA OutstandingStaysNat ==
  ASSUME TypeOK', NEW o \in Orders
  PROVE  Outstanding(o)' \in Nat
BY DEF TypeOK, Outstanding

\* A WorkerEffect keeps all parts of the invariant but the one about cash:
\* orders are neither written nor opened again, and the holdings follow the trades.
LEMMA WorkersKeep ==
  ASSUME RebalanceInv, TypeOK', WorkerEffect
  PROVE  OrdersInv' /\ StageInv' /\ HintInv' /\ LeftInv' /\ AimInv'
<1>1. /\ TypeOK /\ OrdersInv /\ StageInv /\ HintInv /\ LeftInv /\ AimInv
      /\ UNCHANGED <<target, hint, row, qty, run>>
      /\ \A o \in Orders : Calm(o) /\ Outstanding(o) \in Nat /\ Outstanding(o)' \in Nat
                           /\ cancel[o].qty \in Nat
  BY OrderTypes, OutstandingStaysNat DEF RebalanceInv, WorkerEffect
<1>2. OrdersInv'
  BY DEF WorkerEffect, OrdersInv
<1>3. StageInv'
  <2>1. \A o \in Orders : status'[o] = "NONE" <=> status[o] = "NONE"
    BY <1>1 DEF Calm
  <2>2. run.pc \in {"ready", "planned"} => holding' = holding
    <3>1. run.pc \in {"ready", "planned"} => \A o \in Orders : status[o] = "NONE"
      BY <1>1 DEF StageInv
    <3> QED
      BY <3>1 DEF WorkerEffect, NothingTraded, TradeOf
  <2> QED
    BY <1>1, <2>1, <2>2, OrderPairs, RunTypes DEF StageInv, Sides
<1>4. HintInv'
  BY <1>1 DEF HintInv
<1>5. LeftInv'
  <2>1. \A side \in Sides : Settled(side) => Settled(side)'
    <3> SUFFICES ASSUME NEW side \in Sides, Settled(side), NEW s \in Stocks,
                        status'[<<side, s>>] \notin GENERATOR_TERMINAL \cup {"NONE"}
                 PROVE  cancel'[<<side, s>>].qty >= Outstanding(<<side, s>>)'
      BY DEF Settled
    <3>1. <<side, s>> \in Orders
      BY OrderPairs
    <3>2. cancel[<<side, s>>].qty >= Outstanding(<<side, s>>)
      BY <1>1, <3>1 DEF Calm, Settled
    <3> QED
      BY <1>1, <3>1, <3>2 DEF Calm
  <2>2. \A o \in Orders : cancel'[o].st \in {"FLUSHED", "LOST"} =>
          run'.pc = "cancelling" /\ o[1] = run'.side
    BY <1>1 DEF LeftInv, Calm
  <2>3. run'.side \in Sides /\ "SELL" \in Sides /\ run' = run /\ row' = row
    BY <1>1, RunTypes DEF Sides
  <2>4. \A side \in Sides : BeingSettled(side) => BeingSettled(side)'
    <3> SUFFICES ASSUME NEW side \in Sides, BeingSettled(side), NEW s \in Stocks,
                        status'[<<side, s>>] \notin GENERATOR_TERMINAL \cup {"NONE"}
                 PROVE  (IF s \in run'.todo THEN run'.shares[s] ELSE cancel'[<<side, s>>].qty)
                          >= Outstanding(<<side, s>>)'
      BY DEF BeingSettled
    <3>1. <<side, s>> \in Orders /\ run.shares[s] \in Nat
      BY <1>1, OrderPairs, RunTypes
    <3>2. (IF s \in run.todo THEN run.shares[s] ELSE cancel[<<side, s>>].qty)
            >= Outstanding(<<side, s>>)
      BY <1>1, <3>1 DEF Calm, BeingSettled
    <3> QED
      BY <1>1, <2>3, <3>1, <3>2 DEF Calm
  <2> QED
    BY <1>1, <2>1, <2>2, <2>3, <2>4 DEF LeftInv
<1>6. AimInv'
  <2> SUFFICES ASSUME row' # "NONE", NEW s \in Stocks
               PROVE  /\ status'[<<"SELL", s>>] # "NONE" => Sold(s)' /\ qty'[<<"SELL", s>>] = run'.held[s]
                      /\ status'[<<"BUY", s>>] # "NONE" => Bought(s)'
                      /\ ToSubmit("SELL", s)' => Sold(s)' /\ run'.shares[s] = run'.held[s]
                      /\ ToSubmit("BUY", s)' => Bought(s)'
                      /\ Sold(s)' /\ (run'.pc \notin Over \/ run'.side = "BUY") =>
                           status'[<<"SELL", s>>] # "NONE" \/ ToSubmit("SELL", s)'
                      /\ holding'[s] = run'.held[s] - Traded(<<"SELL", s>>)' + Traded(<<"BUY", s>>)'
    BY DEF AimInv
  <2>1. /\ <<"SELL", s>> \in Orders /\ <<"BUY", s>> \in Orders
        /\ <<"SELL", s>> # <<"BUY", s>>
    BY OrderPairs DEF Sides
  <2>2. /\ Sold(s)' = Sold(s) /\ Bought(s)' = Bought(s)
        /\ ToSubmit("SELL", s)' = ToSubmit("SELL", s) /\ ToSubmit("BUY", s)' = ToSubmit("BUY", s)
    BY <1>1 DEF Sold, Bought, ToSubmit
  <2>3. /\ status'[<<"SELL", s>>] = "NONE" <=> status[<<"SELL", s>>] = "NONE"
        /\ status'[<<"BUY", s>>] = "NONE" <=> status[<<"BUY", s>>] = "NONE"
    BY <1>1, <2>1 DEF Calm
  <2>4. holding[s] = run.held[s] - Traded(<<"SELL", s>>) + Traded(<<"BUY", s>>)
    BY <1>1 DEF AimInv
  <2>5. /\ run.held[s] \in Int /\ holding \in [Stocks -> Int]
        /\ \A o \in Orders : Traded(o) \in Int
    <3>1. run.held[s] \in Int /\ holding \in [Stocks -> Int]
      BY <1>1, RunTypes DEF TypeOK
    <3>2. ASSUME NEW o \in Orders PROVE Traded(o) \in Int
      <4>1. qty[o] \in Nat /\ book[o].rmn \in Nat /\ book[o].cncl \in Nat /\ book[o].rjct \in Nat
        BY <1>1, OrderTypes
      <4> QED
        BY <4>1 DEF Traded
    <3> QED
      BY <3>1, <3>2
  <2>6. holding'[s] = run'.held[s] - Traded(<<"SELL", s>>)' + Traded(<<"BUY", s>>)'
    <3>1. CASE NothingTraded
      BY <1>1, <2>1, <2>4, <3>1 DEF NothingTraded
    <3>2. CASE \E o \in Orders, k \in Nat \ {0} : TradeOf(o, k)
      <4>1. PICK o \in Orders, k \in Nat \ {0} : TradeOf(o, k)
        BY <3>2
      <4>2. holding' = [holding EXCEPT ![o[2]] = @ - (IF o[1] = "SELL" THEN k ELSE -k)]
        BY <4>1 DEF TradeOf
      <4>3. CASE o[2] # s
        <5>1. holding'[s] = holding[s] /\ o # <<"SELL", s>> /\ o # <<"BUY", s>>
          BY <2>5, <4>2, <4>3
        <5> QED
          BY <1>1, <2>1, <2>4, <4>1, <5>1 DEF TradeOf
      <4>4. CASE o = <<"SELL", s>>
        <5>1. holding'[s] = holding[s] - k
          BY <2>5, <4>2, <4>4
        <5>2. Traded(<<"SELL", s>>)' = Traded(<<"SELL", s>>) + k /\ Traded(<<"BUY", s>>)' = Traded(<<"BUY", s>>)
          BY <2>1, <4>1, <4>4 DEF TradeOf
        <5> QED
          BY <1>1, <2>1, <2>4, <2>5, <5>1, <5>2
      <4>5. CASE o = <<"BUY", s>>
        <5>1. holding'[s] = holding[s] + k
          BY <2>5, <4>2, <4>5
        <5>2. Traded(<<"BUY", s>>)' = Traded(<<"BUY", s>>) + k /\ Traded(<<"SELL", s>>)' = Traded(<<"SELL", s>>)
          BY <2>1, <4>1, <4>5 DEF TradeOf
        <5> QED
          BY <1>1, <2>1, <2>4, <2>5, <5>1, <5>2
      <4> QED
        BY <4>3, <4>4, <4>5, OrderPairs DEF Sides
    <3> QED
      BY <3>1, <3>2 DEF WorkerEffect
  <2> QED
    BY <1>1, <2>2, <2>3, <2>6 DEF AimInv
<1> QED
  BY <1>2, <1>3, <1>4, <1>5, <1>6

\* What is due is a natural number,
LEMMA DueType ==
  ASSUME TypeOK, NEW s \in Stocks
  PROVE  Due(s) \in Nat
<1>1. Outstanding(<<"BUY", s>>) \in Nat
  BY OrderPairs, OrderTypes DEF Sides
<1>2. run.shares[s] \in Nat
  BY RunTypes
<1> QED
  BY <1>1, <1>2 DEF Due

\* also after a step.
LEMMA DueStaysNat ==
  ASSUME TypeOK', NEW s \in Stocks
  PROVE  Due(s)' \in Nat
<1>1. Outstanding(<<"BUY", s>>)' \in Nat
  BY OrderPairs, OutstandingStaysNat DEF Sides
<1>2. run'.shares[s] \in Nat
  BY DEF TypeOK
<1> QED
  BY <1>1, <1>2 DEF Due

\* Less is due, and no cash has gone.
LEMMA CashKept ==
  ASSUME TypeOK, TypeOK', CashInv, \A s \in Stocks : Due(s)' <= Due(s), cash' >= cash
  PROVE  CashInv'
<1> DEFINE d == [s \in Stocks |-> Due(s)]
           e == [s \in Stocks |-> Due(s)']
<1>1. d \in [Stocks -> Nat] /\ e \in [Stocks -> Nat] /\ \A s \in Stocks : e[s] <= d[s]
  BY DueType, DueStaysNat
<1>2. cash \in Int /\ cash' \in Int /\ IsFiniteSet(Stocks) /\ Price \in [Stocks -> Nat]
  BY FiniteSystem, PricesArePositive DEF TypeOK
<1>3. cash >= Value(d, Price)
  BY DEF CashInv
<1>4. CashInv' <=> cash' >= Value(e, Price)
  BY DEF CashInv
<1> HIDE DEF d, e
<1>5. Value(e, Price) <= Value(d, Price) /\ Value(e, Price) \in Nat /\ Value(d, Price) \in Nat
  BY <1>1, <1>2, ValueAtMost, ValueType
<1> QED
  BY <1>2, <1>3, <1>4, <1>5

\* A trade of a buy order takes its price from the cash and as much from what is
\* due; a trade of a sell order brings cash in.
LEMMA WorkersKeepCash ==
  ASSUME RebalanceInv, TypeOK', WorkerEffect
  PROVE  CashInv'
<1>1. /\ TypeOK /\ CashInv /\ run' = run /\ cash \in Int
      /\ \A o \in Orders : Outstanding(o)' <= Outstanding(o)
                           /\ Outstanding(o) \in Nat /\ Outstanding(o)' \in Nat
  BY OrderTypes, OutstandingStaysNat DEF RebalanceInv, WorkerEffect, Calm, TypeOK
<1>2. ASSUME NEW s \in Stocks
      PROVE  /\ Due(s)' - Due(s) = Outstanding(<<"BUY", s>>)' - Outstanding(<<"BUY", s>>)
             /\ Due(s)' <= Due(s)
  <2>1. <<"BUY", s>> \in Orders
    BY OrderPairs DEF Sides
  <2>2. run.shares[s] \in Nat
    BY <1>1, RunTypes
  <2> QED
    BY <1>1, <2>1, <2>2 DEF Due
<1>3. CASE NothingTraded
  <2>1. cash' >= cash
    BY <1>1, <1>3 DEF NothingTraded
  <2> QED
    BY <1>1, <1>2, <2>1, CashKept
<1>4. CASE \E o \in Orders, k \in Nat \ {0} : TradeOf(o, k)
  <2>1. PICK o \in Orders, k \in Nat \ {0} : TradeOf(o, k)
    BY <1>4
  <2>2. o[2] \in Stocks /\ Price[o[2]] \in Nat /\ k * Price[o[2]] \in Nat
    BY OrderPairs, PricesArePositive
  <2>3. CASE o[1] = "SELL"
    <3>1. cash' = cash + k * Price[o[2]]
      BY <2>1, <2>3 DEF TradeOf
    <3>2. cash' >= cash
      BY <1>1, <2>2, <3>1
    <3> QED
      BY <1>1, <1>2, <3>2, CashKept
  <2>4. CASE o[1] # "SELL"
    <3> DEFINE x == o[2]
               d == [s \in Stocks |-> Due(s)]
               e == [s \in Stocks |-> Due(s)']
    <3>1. cash' = cash - k * Price[x] /\ o = <<"BUY", x>>
      <4>1. cash' = cash + (-k) * Price[x]
        BY <2>1, <2>4 DEF TradeOf
      <4> QED
        BY <1>1, <2>2, <2>4, <4>1, OrderPairs DEF Sides
    <3>2. d \in [Stocks -> Nat] /\ e \in [Stocks -> Nat]
      BY <1>1, DueType, DueStaysNat
    <3>3. Due(x)' = Due(x) - k
      BY <1>1, <1>2, <2>1, <2>2, <3>1, DueType, DueStaysNat DEF TradeOf
    <3>4. ASSUME NEW s \in Stocks \ {x} PROVE Due(s)' = Due(s)
      <4>1. <<"BUY", s>> \in Orders \ {o}
        BY <3>1, OrderPairs DEF Sides
      <4>2. Outstanding(<<"BUY", s>>)' = Outstanding(<<"BUY", s>>)
        BY <2>1, <4>1 DEF TradeOf
      <4> QED
        BY <1>1, <4>2 DEF Due
    <3>5. e[x] = d[x] - k /\ \A s \in Stocks \ {x} : e[s] = d[s]
      BY <2>2, <3>3, <3>4
    <3>6. cash >= Value(d, Price) /\ (CashInv' <=> cash' >= Value(e, Price))
      BY <1>1 DEF CashInv
    <3>7. IsFiniteSet(Stocks) /\ Price \in [Stocks -> Nat] /\ x \in Stocks /\ k \in Nat
      BY <2>2, FiniteSystem, PricesArePositive
    <3> HIDE DEF d, e, x
    <3>8. Value(e, Price) = Value(d, Price) - k * Price[x]
      BY <3>2, <3>5, <3>7, ValueLess
    <3>9. Value(d, Price) \in Nat /\ k * Price[x] \in Nat
      BY <2>2, <3>2, <3>7, ValueType DEF x
    <3> QED
      BY <1>1, <3>1, <3>6, <3>8, <3>9
  <2> QED
    BY <2>3, <2>4
<1> QED
  BY <1>3, <1>4 DEF WorkerEffect

-----------------------------------------------------------------------------
(* The steps of submit() keep the invariant                                  *)

Insertion(s) == InsertAndQueue(s) \/ QueueFails(s)

\* All other steps of submit() leave the rows of the orders alone.
RunElse == RunMoves /\ UNCHANGED <<status, qty>>

\* A step of submit() writes an order, or leaves the order rows alone.
LEMMA RunInsertsOrNot ==
  ASSUME RunMoves
  PROVE  RunElse \/ \E s \in Stocks : Insertion(s)
BY DEF RunElse, Insertion, RunMoves, RunStep, RunFault, Plan, PlanFails, RecordRun,
       AllQueued, PollSettled, WaitTimesOut, Recheck, FlushCancel, CommitCancels,
       CancelQueueFails, SizeBuys, SizeBuysWithCash, SizeBuysBlindly, CompleteRun, RunAborts,
       orderVars

\* If it leaves them alone, nothing is more or less outstanding or traded.
LEMMA RunElseSame ==
  ASSUME RunElse, NEW o \in Orders
  PROVE  /\ Outstanding(o)' = Outstanding(o) /\ Traded(o)' = Traded(o)
         /\ OrderInv(o) => OrderInv(o)'
BY RunFrame DEF RunElse, Outstanding, Traded, OrderInv

\* One order is written; its stock was still to do.
LEMMA InsertionIs ==
  ASSUME TypeOK, OrdersInv, StageInv, NEW s \in Stocks, Insertion(s)
  PROVE  LET o == <<run.side, s>> IN
         /\ run.pc = "submitting" /\ s \in run.todo /\ o \in Orders
         /\ status[o] = "NONE" /\ book[o] = NoBook /\ remaining[o] = 0 /\ run.shares[s] > 0
         /\ status' = [status EXCEPT ![o] = "PENDING"] /\ status'[o] = "PENDING"
         /\ qty' = [qty EXCEPT ![o] = run.shares[s]] /\ qty'[o] = run.shares[s]
         /\ \A x \in Orders \ {o} : status'[x] = status[x] /\ qty'[x] = qty[x]
         /\ row' \in {"RUNNING", "FAILED"} /\ cancel' = cancel
         /\ run' \in {[run EXCEPT !.todo = @ \ {s}], [run EXCEPT !.pc = "done"]}
<1> DEFINE o == <<run.side, s>>
<1>1. /\ run.pc = "submitting" /\ s \in run.todo /\ cancel' = cancel
      /\ status' = [status EXCEPT ![o] = "PENDING"]
      /\ qty' = [qty EXCEPT ![o] = run.shares[s]]
      /\ row' \in {"RUNNING", "FAILED"}
      /\ run' \in {[run EXCEPT !.todo = @ \ {s}], [run EXCEPT !.pc = "done"]}
  BY DEF Insertion, InsertAndQueue, QueueFails, InsertOrder
<1>2. o \in Orders
  BY OrderPairs, RunTypes
<1>3. status[o] = "NONE" /\ run.shares[s] > 0
  BY <1>1 DEF StageInv
<1>4. book[o] = NoBook /\ remaining[o] = 0
  BY <1>2, <1>3 DEF OrdersInv, OrderInv
<1>5. status'[o] = "PENDING" /\ qty'[o] = run.shares[s]
      /\ \A x \in Orders \ {o} : status'[x] = status[x] /\ qty'[x] = qty[x]
  BY <1>1, <1>2 DEF TypeOK
<1> QED
  BY <1>1, <1>2, <1>3, <1>4, <1>5

\* An order that is written has not traded, and all of it is outstanding.
LEMMA InsertionOrders ==
  ASSUME TypeOK, OrdersInv, StageInv, NEW s \in Stocks, Insertion(s)
  PROVE  LET o == <<run.side, s>> IN
         /\ OrdersInv'
         /\ \A x \in Orders : Traded(x)' = Traded(x)
         /\ \A x \in Orders : x # o => Outstanding(x)' = Outstanding(x)
         /\ \A x \in Orders : x = o => Outstanding(x)' = run.shares[s] /\ Outstanding(x) = 0
<1> DEFINE o == <<run.side, s>>
<1>0. UNCHANGED <<book, remaining>>
  BY RunFrame DEF Insertion, RunMoves, RunStep, RunFault
<1>1. ASSUME NEW x \in Orders \ {o}
      PROVE  OrderInv(x)' /\ Traded(x)' = Traded(x) /\ Outstanding(x)' = Outstanding(x)
  <2>1. status'[x] = status[x] /\ qty'[x] = qty[x] /\ OrderInv(x)
    BY InsertionIs DEF OrdersInv
  <2> QED
    BY <1>0, <2>1 DEF OrderInv, Traded, Outstanding
<1>2. ASSUME NEW x \in Orders, x = o
      PROVE  /\ OrderInv(x)' /\ Traded(x)' = Traded(x)
             /\ Outstanding(x)' = run.shares[s] /\ Outstanding(x) = 0
  <2>1. /\ status[x] = "NONE" /\ status'[x] = "PENDING" /\ qty'[x] = run.shares[s]
        /\ book[x] = NoBook /\ remaining[x] = 0 /\ run.shares[s] \in Nat
    BY <1>2, InsertionIs, RunTypes
  <2>2. book[x].rmn = 0 /\ book[x].cncl = 0 /\ book[x].rjct = 0
    BY <2>1 DEF NoBook
  <2> QED
    BY <1>0, <2>1, <2>2 DEF OrderInv, Traded, Outstanding
<1> QED
  BY <1>1, <1>2 DEF OrdersInv

\* The rows of the broker and those of the database stay consistent.
LEMMA RunKeepsOrders ==
  ASSUME RebalanceInv, RunMoves
  PROVE  OrdersInv'
<1>1. CASE RunElse
  BY <1>1, RunElseSame DEF RebalanceInv, OrdersInv
<1>2. CASE \E s \in Stocks : Insertion(s)
  BY <1>2, InsertionOrders DEF RebalanceInv
<1> QED
  BY <1>1, <1>2, RunInsertsOrNot

\* The plan buys only stocks of the target that have a price hint.
LEMMA RunKeepsHints ==
  ASSUME RebalanceInv, RunMoves
  PROVE  HintInv'
<1>1. HintInv /\ TypeOK /\ StageInv /\ hint' = hint /\ target' = target
  BY RunFrame DEF RebalanceInv
<1>2. CASE run'.buys = run.buys
  BY <1>1, <1>2 DEF HintInv
<1>3. CASE \E dry \in BOOLEAN : Plan(dry) /\ run'.buys # run.buys
  <2> DEFINE buys == PlannedBuys(target, holding, Price, hint, cash)
  <2>1. run'.buys = buys /\ run.pc = "ready"
    BY <1>1, <1>3, RunTypes DEF Plan, RunType
  <2>2. /\ IsFiniteSet(Stocks) /\ Price \in [Stocks -> Nat] /\ cash \in Int
        /\ target \in SUBSET Stocks /\ hint \in [Stocks -> Nat] /\ holding \in [Stocks -> Nat]
    BY <1>1, <2>1, FiniteSystem, PricesArePositive, StartingPoints DEF TypeOK, StageInv
  <2>3. PICK b \in Int : Sized(buys, Stocks, target \ Held(holding), hint, b)
    BY <2>2, PlannedBuysType
  <2> HIDE DEF buys
  <2>4. \A s \in Stocks : buys[s] > 0 => s \in target /\ hint[s] > 0
    BY <2>3 DEF Sized
  <2> QED
    BY <1>1, <2>1, <2>4 DEF HintInv
<1>4. run'.buys = run.buys \/ \E dry \in BOOLEAN : Plan(dry)
  <2>1. run \in RunType
    BY <1>1, RunTypes
  <2> QED
    BY <2>1 DEF RunType, RunMoves, RunStep, RunFault, Plan, PlanFails, RecordRun, InsertAndQueue,
       QueueFails, AllQueued, PollSettled, WaitTimesOut, Recheck, FlushCancel, CommitCancels,
       CancelQueueFails, SizeBuys, SizeBuysWithCash, SizeBuysBlindly, CompleteRun, RunAborts, Submit
<1> QED
  BY <1>2, <1>3, <1>4

\* submit() goes from the plan to the sells and from the sells to the buys, and
\* never writes an order twice.
LEMMA RunKeepsStage ==
  ASSUME RebalanceInv, RunMoves
  PROVE  StageInv'
<1>0. /\ TypeOK /\ OrdersInv /\ StageInv /\ run \in RunType /\ run.side \in Sides
      /\ UNCHANGED <<holding, target>>
  BY RunFrame, RunTypes DEF RebalanceInv
<1>1. CASE \E s \in Stocks : Insertion(s)
  <2>1. PICK s \in Stocks : Insertion(s)
    BY <1>1
  <2> DEFINE o == <<run.side, s>>
  <2>2. /\ run.pc = "submitting" /\ o \in Orders /\ row' \in {"RUNNING", "FAILED"}
        /\ \A x \in Orders \ {o} : status'[x] = status[x]
        /\ run' \in {[run EXCEPT !.todo = @ \ {s}], [run EXCEPT !.pc = "done"]}
    BY <1>0, <2>1, InsertionIs
  <2>3. /\ run'.side = run.side /\ run'.shares = run.shares
        /\ \/ run'.pc = "submitting" /\ run'.todo = run.todo \ {s}
           \/ run'.pc = "done"
    BY <1>0, <2>2 DEF RunType
  <2>4. ASSUME run'.side = "SELL", NEW x \in Stocks PROVE status'[<<"BUY", x>>] = "NONE"
    <3>1. <<"BUY", x>> \in Orders \ {o}
      BY <2>3, <2>4, OrderPairs DEF Sides
    <3> QED
      BY <1>0, <2>2, <2>3, <2>4, <3>1 DEF StageInv
  <2>5. ASSUME run'.pc = "submitting", NEW x \in run'.todo
        PROVE  status'[<<run'.side, x>>] = "NONE" /\ run'.shares[x] > 0
    <3>1. x \in run.todo /\ x # s /\ x \in Stocks
      BY <1>0, <2>3, <2>5, RunTypes
    <3>2. <<run.side, x>> \in Orders \ {o}
      BY <1>0, <3>1, OrderPairs
    <3> QED
      BY <1>0, <2>2, <2>3, <3>1, <3>2 DEF StageInv
  <2> QED
    BY <2>2, <2>3, <2>4, <2>5 DEF StageInv
<1>2. CASE UNCHANGED status /\ \E dry \in BOOLEAN : Plan(dry)
  <2>1. PICK dry \in BOOLEAN : Plan(dry)
    BY <1>2
  <2>2. /\ run.pc = "ready" /\ row' = row
        /\ run' = IF dry THEN [run EXCEPT !.pc = "done"]
                  ELSE [run EXCEPT !.pc = "planned", !.held = holding,
                                   !.shares = SellShares(target, holding),
                                   !.buys = PlannedBuys(target, holding, Price, hint, cash)]
    BY <2>1 DEF Plan
  <2>3. /\ run'.side = run.side
        /\ \/ run'.pc = "done"
           \/ run'.pc = "planned" /\ run'.held = holding /\ run'.shares = SellShares(target, holding)
    BY <1>0, <2>2 DEF RunType
  <2> QED
    BY <1>0, <1>2, <2>2, <2>3 DEF StageInv, Over
<1>3. CASE UNCHANGED status /\ RecordRun
  <2>1. run.pc = "planned" /\ row' = "FLUSHED" /\ run' = Submit(run, "SELL", run.shares)
    BY <1>3 DEF RecordRun
  <2>2. /\ run'.pc = "submitting" /\ run'.side = "SELL" /\ run'.shares = run.shares
        /\ run'.todo = {s \in Stocks : run.shares[s] > 0}
    BY <1>0, <2>1 DEF Submit, RunType
  <2> QED
    BY <1>0, <1>3, <2>1, <2>2, OrderPairs DEF StageInv, Sides
<1>4. CASE UNCHANGED status /\ (SizeBuysWithCash \/ SizeBuysBlindly)
  <2>1. PICK seen : SizeBuys(seen)
    BY <1>4 DEF SizeBuysWithCash, SizeBuysBlindly
  <2>2. run.pc = "settled" /\ run.side = "SELL" /\ row' = row /\ run' = Submit(run, "BUY", BuysFor(seen))
    BY <2>1 DEF SizeBuys
  <2>3. /\ run'.pc = "submitting" /\ run'.side = "BUY" /\ run'.shares = BuysFor(seen)
        /\ run'.todo = {s \in Stocks : BuysFor(seen)[s] > 0}
    BY <1>0, <2>2 DEF Submit, RunType
  <2>4. row # "NONE" /\ row # "COMPLETED" /\ \A s \in Stocks : status[<<"BUY", s>>] = "NONE"
    BY <1>0, <2>2 DEF StageInv, Over
  <2> QED
    BY <1>4, <2>2, <2>3, <2>4 DEF StageInv
<1>5. CASE /\ UNCHANGED <<status, row>> /\ run'.side = run.side
           /\ run.pc \notin {"ready", "planned"} \cup Over
           /\ run'.pc \notin {"ready", "planned", "submitting"} \cup Over
  BY <1>0, <1>5, RunTypes DEF StageInv, Over
<1>6. CASE /\ UNCHANGED status /\ run'.side = run.side /\ run.pc \notin Over
           /\ run'.pc \in Over
           /\ row' = "COMPLETED" => run'.pc = "done" /\ run'.side = "BUY"
  BY <1>0, <1>6 DEF StageInv, Over
<1>7. CASE UNCHANGED status /\ (AllQueued \/ PollSettled \/ WaitTimesOut \/ Recheck \/ CommitCancels
                                \/ \E s \in Stocks : FlushCancel(s))
  <2>1. /\ run.pc \notin {"ready", "planned"} \cup Over /\ UNCHANGED row
        /\ run'.side = run.side /\ run'.pc \notin {"ready", "planned", "submitting"} \cup Over
    <3>1. CASE AllQueued \/ PollSettled \/ WaitTimesOut \/ CommitCancels
      BY <1>0, <3>1 DEF AllQueued, PollSettled, WaitTimesOut, CommitCancels, Over, RunType
    <3>2. CASE Recheck
      BY <1>0, <3>2 DEF Recheck, Over, RunType
    <3>3. CASE \E s \in Stocks : FlushCancel(s)
      BY <1>0, <3>3 DEF FlushCancel, Over, RunType
    <3> QED
      BY <1>7, <3>1, <3>2, <3>3
  <2> QED
    BY <1>5, <1>7, <2>1
<1>8. CASE UNCHANGED status /\ (PlanFails \/ CompleteRun \/ RunAborts
                                \/ \E s \in Stocks : CancelQueueFails(s))
  <2>1. /\ run'.side = run.side /\ run.pc \notin Over /\ run'.pc \in Over
        /\ row' \in {"NONE", "FAILED", row} \/ (row' = "COMPLETED" /\ run.side = "BUY" /\ run'.pc = "done")
    BY <1>0, <1>8 DEF PlanFails, CompleteRun, RunAborts, CancelQueueFails, Over, RunType
  <2>2. row # "COMPLETED"
    BY <1>0, <2>1 DEF StageInv, Over
  <2> QED
    BY <1>6, <1>8, <2>1, <2>2
<1> QED
  BY <1>1, <1>2, <1>3, <1>4, <1>7, <1>8, RunInsertsOrNot
  DEF RunElse, RunMoves, RunStep, RunFault, Insertion

\* Recheck writes a cancel for as much as may still trade.
LEMMA CancelQuantityCovers ==
  ASSUME TypeOK, OrdersInv, NEW o \in Orders
  PROVE  CancelQuantity(o) \in Nat /\ CancelQuantity(o) >= Outstanding(o)
<1>1. OrderInv(o) /\ qty[o] \in Nat /\ remaining[o] \in Nat /\ book[o].rmn \in Nat
      /\ book[o].cncl \in Nat /\ book[o].rjct \in Nat
  BY OrderTypes DEF OrdersInv
<1>2. CASE status[o] = "PENDING"
  BY <1>1, <1>2 DEF OrderInv, CancelQuantity, Outstanding
<1>3. CASE status[o] # "PENDING"
  BY <1>1, <1>3 DEF OrderInv, CancelQuantity, Outstanding
<1> QED
  BY <1>2, <1>3

\* No side is left unsettled: either all its orders are closed, or the recheck
\* after the timeout writes cancels for the others.
LEMMA RunKeepsLeft ==
  ASSUME RebalanceInv, RunMoves
  PROVE  LeftInv'
<1>0. /\ TypeOK /\ OrdersInv /\ StageInv /\ LeftInv /\ run \in RunType /\ run.side \in Sides
      /\ run.todo \in SUBSET Stocks /\ run.shares \in [Stocks -> Nat]
  BY RunTypes DEF RebalanceInv
<1>1. CASE \E s \in Stocks : Insertion(s)
  <2>1. PICK s \in Stocks : Insertion(s)
    BY <1>1
  <2> DEFINE o == <<run.side, s>>
  <2>2. /\ run.pc = "submitting" /\ o \in Orders /\ row' \in {"RUNNING", "FAILED"} /\ cancel' = cancel
        /\ \A x \in Orders \ {o} : status'[x] = status[x]
        /\ run' \in {[run EXCEPT !.todo = @ \ {s}], [run EXCEPT !.pc = "done"]}
    BY <1>0, <2>1, InsertionIs
  <2>3. run'.side = run.side /\ run'.pc \in {"submitting", "done"}
    BY <1>0, <2>2 DEF RunType
  <2>4. \A x \in Orders : x # o => Outstanding(x)' = Outstanding(x)
    BY <1>0, <2>1, InsertionOrders
  <2>5. ASSUME run.side = "BUY" PROVE Settled("SELL")'
    <3>1. \A x \in Stocks : <<"SELL", x>> \in Orders \ {o}
      BY <2>5, OrderPairs DEF Sides
    <3> QED
      BY <1>0, <2>2, <2>4, <2>5, <3>1 DEF LeftInv, Settled
  <2> QED
    BY <1>0, <2>2, <2>3, <2>5 DEF LeftInv
<1>2. CASE RunElse
  <2>0. /\ \A o \in Orders : Outstanding(o)' = Outstanding(o)
        /\ UNCHANGED <<status, book>>
    BY <1>2, RunElseSame, RunFrame DEF RunElse
  <2>1. \A side \in Sides, s \in Stocks : <<side, s>> \in Orders
    BY OrderPairs
  <2>2. \A side \in Sides : UNCHANGED cancel /\ Settled(side) => Settled(side)'
    BY <2>0, <2>1 DEF Settled
  <2>3. CASE /\ UNCHANGED cancel /\ run.pc # "cancelling" /\ run'.pc # "cancelling" /\ run'.side = run.side
             /\ run'.pc = "settled" \/ row' = "COMPLETED" => Settled(run.side)
    <3>1. \A o \in Orders : cancel'[o].st \notin {"FLUSHED", "LOST"}
      BY <1>0, <2>3 DEF LeftInv
    <3>2. run'.side = "BUY" => Settled("SELL")'
      BY <1>0, <2>2, <2>3 DEF LeftInv, Sides
    <3>3. \A side \in Sides : run'.side = side /\ (run'.pc = "settled" \/ row' = "COMPLETED")
                                => Settled(side)'
      BY <2>2, <2>3
    <3> QED
      BY <2>3, <3>1, <3>2, <3>3 DEF LeftInv
  <2>4. ASSUME Unfilled = {} PROVE Settled(run.side)
    BY <1>0, <2>1, <2>4 DEF Unfilled, Placed, Settled
  <2>5. CASE \/ \E dry \in BOOLEAN : Plan(dry)
             \/ PlanFails \/ RecordRun \/ AllQueued \/ PollSettled \/ WaitTimesOut \/ CompleteRun
    <3>1. /\ UNCHANGED cancel /\ run'.side = run.side
          /\ run.pc # "cancelling" /\ run'.pc # "cancelling"
      <4>1. CASE \/ \E dry \in BOOLEAN : Plan(dry)
                 \/ PlanFails \/ AllQueued \/ PollSettled \/ WaitTimesOut \/ CompleteRun
        BY <1>0, <4>1 DEF Plan, PlanFails, AllQueued, PollSettled, WaitTimesOut, CompleteRun,
                          orderVars, RunType
      <4>2. CASE RecordRun
        BY <1>0, <4>2 DEF RecordRun, Submit, StageInv, orderVars, RunType
      <4> QED
        BY <2>5, <4>1, <4>2
    <3>2. run'.pc = "settled" \/ row' = "COMPLETED" => Settled(run.side)
      <4>1. CASE AllQueued
        <5>1. Placed = {} => Unfilled = {}
          BY DEF Unfilled
        <5>2. row' = row /\ row # "COMPLETED" /\ (run'.pc = "settled" => Placed = {})
          BY <1>0, <4>1 DEF AllQueued, StageInv, RunType
        <5> QED
          BY <2>4, <5>1, <5>2
      <4>2. CASE PollSettled
        BY <2>4, <4>2 DEF PollSettled
      <4>3. CASE CompleteRun
        BY <1>0, <4>3 DEF CompleteRun, LeftInv
      <4>4. CASE (\E dry \in BOOLEAN : Plan(dry)) \/ PlanFails \/ WaitTimesOut
        BY <1>0, <4>4 DEF Plan, PlanFails, WaitTimesOut, StageInv, RunType
      <4>5. CASE RecordRun
        BY <1>0, <4>5 DEF RecordRun, Submit, RunType
      <4> QED
        BY <2>5, <4>1, <4>2, <4>3, <4>4, <4>5
    <3> QED
      BY <2>3, <3>1, <3>2
  <2>6. CASE SizeBuysWithCash \/ SizeBuysBlindly
    <3>1. PICK seen : SizeBuys(seen)
      BY <2>6 DEF SizeBuysWithCash, SizeBuysBlindly
    <3>2. run.pc = "settled" /\ run.side = "SELL" /\ row' = row /\ cancel' = cancel
          /\ run' = Submit(run, "BUY", BuysFor(seen))
      BY <3>1 DEF SizeBuys, orderVars
    <3>3. run'.pc = "submitting" /\ run'.side = "BUY" /\ row' # "COMPLETED"
      BY <1>0, <3>2 DEF Submit, RunType, StageInv
    <3>4. Settled("SELL")'
      BY <1>0, <2>2, <3>2 DEF LeftInv, Sides
    <3>5. \A o \in Orders : cancel'[o].st \notin {"FLUSHED", "LOST"}
      BY <1>0, <3>2 DEF LeftInv
    <3> QED
      BY <3>3, <3>4, <3>5 DEF LeftInv
  <2>7. CASE Recheck
    <3>1. run.pc = "late" /\ cancel' = cancel /\ row' = row
      BY <2>7 DEF Recheck, orderVars
    <3>2. CASE Unfilled = {}
      <4>1. run' = [run EXCEPT !.pc = "settled"]
        BY <2>7, <3>2 DEF Recheck
      <4>2. run'.side = run.side /\ run'.pc = "settled"
        BY <1>0, <4>1 DEF RunType
      <4> QED
        BY <2>3, <2>4, <3>1, <3>2, <4>2
    <3>3. CASE Unfilled # {}
      <4> DEFINE shares == [s \in Stocks |-> IF <<run.side, s>> \in Unfilled
                                             THEN CancelQuantity(<<run.side, s>>) ELSE 0]
                 todo == {s \in Stocks : <<run.side, s>> \in Unfilled
                                         /\ CancelQuantity(<<run.side, s>>) > 0}
      <4>1. run' = [run EXCEPT !.pc = "cancelling", !.shares = shares, !.todo = todo,
                               !.numbered = {s \in Stocks : remaining[<<run.side, s>>] > 0}]
        BY <2>7, <3>3 DEF Recheck
      <4>2. run'.pc = "cancelling" /\ run'.side = run.side /\ run'.shares = shares /\ run'.todo = todo
        BY <1>0, <4>1 DEF RunType
      <4>3. ASSUME NEW s \in Stocks, status[<<run.side, s>>] \notin GENERATOR_TERMINAL \cup {"NONE"}
            PROVE  (IF s \in todo THEN shares[s] ELSE cancel[<<run.side, s>>].qty)
                     >= Outstanding(<<run.side, s>>)
        <5> DEFINE o == <<run.side, s>>
        <5>1. o \in Orders /\ o \in Unfilled
          BY <1>0, <4>3, OrderPairs DEF Unfilled, Placed
        <5>2. /\ CancelQuantity(o) \in Nat /\ CancelQuantity(o) >= Outstanding(o)
              /\ Outstanding(o) \in Nat /\ cancel[o].qty \in Nat
          BY <1>0, <5>1, CancelQuantityCovers, OrderTypes
        <5> QED
          BY <5>1, <5>2
      <4> HIDE DEF shares, todo
      <4>4. ASSUME NEW side \in Sides, run'.side = side PROVE BeingSettled(side)'
        <5>1. side = run.side
          BY <4>2, <4>4
        <5>2. ASSUME NEW s \in Stocks, status'[<<side, s>>] \notin GENERATOR_TERMINAL \cup {"NONE"}
              PROVE  (IF s \in run'.todo THEN run'.shares[s] ELSE cancel'[<<side, s>>].qty)
                       >= Outstanding(<<side, s>>)'
          <6>1. Outstanding(<<side, s>>)' = Outstanding(<<side, s>>)
            BY <2>0, <2>1
          <6> QED
            BY <2>0, <3>1, <4>2, <4>3, <5>1, <5>2, <6>1
        <5> QED
          BY <5>2 DEF BeingSettled
      <4>5. \A o \in Orders : cancel'[o].st \notin {"FLUSHED", "LOST"}
        BY <1>0, <3>1 DEF LeftInv
      <4>6. run'.side = "BUY" => Settled("SELL")'
        BY <1>0, <2>2, <3>1, <4>2 DEF LeftInv, Sides
      <4>7. row' # "COMPLETED"
        BY <1>0, <3>1 DEF StageInv
      <4> QED
        BY <4>2, <4>4, <4>5, <4>6, <4>7 DEF LeftInv
    <3> QED
      BY <3>2, <3>3
  <2>8. CASE \E s \in Stocks : FlushCancel(s)
    <3>1. PICK s \in Stocks : FlushCancel(s)
      BY <2>8
    <3> DEFINE o == <<run.side, s>>
    <3>2. /\ run.pc = "cancelling" /\ s \in run.todo /\ row' = row /\ o \in Orders
          /\ cancel' = [cancel EXCEPT ![o] = [st |-> "FLUSHED", qty |-> run.shares[s],
                                              numbered |-> s \in run.numbered]]
          /\ run' = [run EXCEPT !.todo = @ \ {s}]
      BY <1>0, <2>1, <3>1 DEF FlushCancel
    <3>3. /\ run'.pc = "cancelling" /\ run'.side = run.side /\ run'.shares = run.shares
          /\ run'.todo = run.todo \ {s}
      BY <1>0, <3>2 DEF RunType
    <3>4. /\ cancel'[o].qty = run.shares[s]
          /\ \A x \in Orders \ {o} : cancel'[x] = cancel[x]
      BY <1>0, <3>2 DEF TypeOK
    <3>5. \A x \in Orders : cancel'[x].st \in {"FLUSHED", "LOST"} => x[1] = run'.side
      <4>1. o[1] = run.side
        OBVIOUS
      <4> HIDE DEF o
      <4> QED
        BY <1>0, <3>3, <3>4, <4>1 DEF LeftInv
    <3>6. run'.side = "BUY" => Settled("SELL")'
      <4>1. run.side = "BUY" => \A x \in Stocks : <<"SELL", x>> \in Orders \ {o}
        BY OrderPairs DEF Sides
      <4> QED
        BY <1>0, <2>0, <3>3, <3>4, <4>1 DEF LeftInv, Settled
    <3>7. row' # "COMPLETED"
      BY <1>0, <3>2 DEF StageInv
    <3>8. ASSUME NEW side \in Sides, run'.side = side PROVE BeingSettled(side)'
      <4>1. side = run.side /\ BeingSettled(side)
        BY <1>0, <3>2, <3>3, <3>8 DEF LeftInv
      <4>2. ASSUME NEW x \in Stocks, status'[<<side, x>>] \notin GENERATOR_TERMINAL \cup {"NONE"}
            PROVE  (IF x \in run'.todo THEN run'.shares[x] ELSE cancel'[<<side, x>>].qty)
                     >= Outstanding(<<side, x>>)'
        <5>1. /\ Outstanding(<<side, x>>)' = Outstanding(<<side, x>>) /\ <<side, x>> \in Orders
              /\ Outstanding(<<side, x>>) \in Nat
          BY <1>0, <2>0, <2>1, OrderTypes
        <5>2. (IF x \in run.todo THEN run.shares[x] ELSE cancel[<<side, x>>].qty)
                >= Outstanding(<<side, x>>)
          BY <2>0, <4>1, <4>2 DEF BeingSettled
        <5>3. CASE x # s
          <6>1. <<side, x>> # o
            BY <5>3
          <6> QED
            BY <3>3, <3>4, <5>1, <5>2, <5>3, <6>1
        <5>4. CASE x = s
          BY <3>2, <3>3, <3>4, <4>1, <5>1, <5>2, <5>4
        <5> QED
          BY <5>3, <5>4
      <4> QED
        BY <4>2 DEF BeingSettled
    <3> QED
      BY <3>3, <3>5, <3>6, <3>7, <3>8 DEF LeftInv
  <2>9. CASE CommitCancels
    <3>1. /\ run.pc = "cancelling" /\ run.todo = {} /\ row' = row
          /\ cancel' = [o \in Orders |-> Committed(cancel[o])]
          /\ run' = [run EXCEPT !.pc = "settled", !.numbered = {}]
      BY <2>9 DEF CommitCancels
    <3>2. run'.pc = "settled" /\ run'.side = run.side
      BY <1>0, <3>1 DEF RunType
    <3>3. \A o \in Orders : cancel'[o].qty = cancel[o].qty /\ cancel'[o].st \notin {"FLUSHED", "LOST"}
      BY <1>0, <3>1, CommittedType
    <3>4. \A side \in Sides : Settled(side) => Settled(side)'
      BY <2>0, <2>1, <3>3 DEF Settled
    <3>5. Settled(run.side)
      BY <1>0, <3>1 DEF LeftInv, BeingSettled, Settled
    <3> QED
      BY <1>0, <3>2, <3>3, <3>4, <3>5 DEF LeftInv, Sides
  <2>10. CASE \E s \in Stocks : CancelQueueFails(s)
    <3>1. PICK s \in Stocks : CancelQueueFails(s)
      BY <2>10
    <3> DEFINE o == <<run.side, s>>
    <3>2. /\ row' = "FAILED" /\ run' = [run EXCEPT !.pc = "done"]
          /\ cancel' = [x \in Orders |->
                          IF x = o THEN [st |-> "STRANDED", qty |-> run.shares[s],
                                         numbered |-> s \in run.numbered]
                          ELSE Committed(cancel[x])]
      BY <3>1 DEF CancelQueueFails
    <3>3. run'.pc = "done" /\ run'.side = run.side
      BY <1>0, <3>2 DEF RunType
    <3>4. /\ \A x \in Orders : cancel'[x].st \notin {"FLUSHED", "LOST"}
          /\ \A x \in Orders \ {o} : cancel'[x].qty = cancel[x].qty
      BY <1>0, <3>2, CommittedType
    <3>5. run'.side = "BUY" => Settled("SELL")'
      <4>1. run.side = "BUY" => \A x \in Stocks : <<"SELL", x>> \in Orders \ {o}
        BY OrderPairs DEF Sides
      <4> QED
        BY <1>0, <2>0, <3>3, <3>4, <4>1 DEF LeftInv, Settled
    <3> QED
      BY <3>2, <3>3, <3>4, <3>5 DEF LeftInv
  <2>11. CASE RunAborts
    <3>1. /\ run.pc \notin Over /\ run' = [run EXCEPT !.pc = "dead"]
          /\ row' \in {"NONE", row}
          /\ cancel' = [o \in Orders |->
                IF cancel[o].st \in {"FLUSHED", "LOST"} THEN NoCancel ELSE cancel[o]]
      BY <2>11 DEF RunAborts
    <3>2. run'.pc = "dead" /\ run'.side = run.side /\ row' # "COMPLETED"
      BY <1>0, <3>1 DEF RunType, StageInv, Over
    <3>3. \A o \in Orders : cancel'[o].st \notin {"FLUSHED", "LOST"}
      BY <3>1 DEF NoCancel
    <3>4. ASSUME run.side = "BUY" PROVE Settled("SELL")'
      <4>1. ASSUME NEW s \in Stocks PROVE cancel'[<<"SELL", s>>] = cancel[<<"SELL", s>>]
        <5>1. <<"SELL", s>> \in Orders /\ <<"SELL", s>>[1] # run.side
          BY <3>4, OrderPairs DEF Sides
        <5> QED
          BY <1>0, <3>1, <5>1 DEF LeftInv
      <4>2. \A s \in Stocks : <<"SELL", s>> \in Orders
        BY OrderPairs DEF Sides
      <4> QED
        BY <1>0, <2>0, <3>4, <4>1, <4>2 DEF LeftInv, Settled
    <3> QED
      BY <3>2, <3>3, <3>4 DEF LeftInv
  <2> QED
    BY <1>2, <2>5, <2>6, <2>7, <2>8, <2>9, <2>10, <2>11, <1>1
    DEF RunElse, RunMoves, RunStep, RunFault, Insertion
<1> QED
  BY <1>1, <1>2, RunInsertsOrNot

\* A step that only moves submit() on, to a place where no order is written.
MovesOn ==
  /\ run'.pc # "submitting" /\ UNCHANGED <<run.side, run.held>>
  /\ run.pc \notin Over
  /\ run'.pc \in Over \/ run.pc # "submitting" \/ run.todo = {}
  /\ row' # "NONE" => row # "NONE"

\* The steps that leave the order rows alone: the plan, the first record of the
\* run, the sizing of the buys, and those that only move on.
LEMMA RunElseIs ==
  ASSUME TypeOK, StageInv, RunElse
  PROVE  \/ \E dry \in BOOLEAN : Plan(dry)
         \/ RecordRun
         \/ \E seen \in {cash, 0} : SizeBuys(seen)
         \/ MovesOn
<1>0. run \in RunType
  BY RunTypes
<1>1. CASE AllQueued \/ PollSettled \/ WaitTimesOut \/ CommitCancels
  BY <1>0, <1>1 DEF AllQueued, PollSettled, WaitTimesOut, CommitCancels, Over, RunType, MovesOn
<1>2. CASE Recheck
  BY <1>0, <1>2 DEF Recheck, Over, RunType, MovesOn
<1>3. CASE \E s \in Stocks : FlushCancel(s)
  BY <1>0, <1>3 DEF FlushCancel, Over, RunType, MovesOn
<1>4. CASE PlanFails \/ RunAborts
  BY <1>0, <1>4 DEF PlanFails, RunAborts, Over, RunType, MovesOn
<1>5. CASE CompleteRun \/ \E s \in Stocks : CancelQueueFails(s)
  <2>1. run.pc \in {"settled", "cancelling"}
    BY <1>5 DEF CompleteRun, CancelQueueFails
  <2>2. row # "NONE"
    BY <2>1 DEF StageInv, Over
  <2> QED
    BY <1>0, <1>5, <2>1, <2>2 DEF CompleteRun, CancelQueueFails, Over, RunType, MovesOn
<1>6. CASE \E s \in Stocks : InsertAndQueue(s) \/ QueueFails(s)
  <2>1. PICK s \in Stocks : InsertOrder(s)
    BY <1>6 DEF InsertAndQueue, QueueFails
  <2>2. run.pc = "submitting" /\ s \in run.todo /\ <<run.side, s>> \in Orders
        /\ status' = [status EXCEPT ![<<run.side, s>>] = "PENDING"]
    BY <2>1, RunTypes, OrderPairs DEF InsertOrder
  <2>3. status[<<run.side, s>>] = "NONE"
    BY <2>2 DEF StageInv
  <2>4. status' # status
    BY <2>2, <2>3 DEF TypeOK
  <2> QED
    BY <2>4 DEF RunElse
<1>7. CASE SizeBuysWithCash \/ SizeBuysBlindly
  BY <1>7 DEF SizeBuysWithCash, SizeBuysBlindly
<1> QED
  BY <1>1, <1>2, <1>3, <1>4, <1>5, <1>6, <1>7 DEF RunElse, RunMoves, RunStep, RunFault

\* The buys that are sized after the sells are new stocks of the target, and
\* the cash that was seen pays for them.
LEMMA BuysForAre ==
  ASSUME TypeOK, HintInv, NEW seen \in Nat
  PROVE  /\ BuysFor(seen) \in [Stocks -> Nat]
         /\ \A s \in Stocks : BuysFor(seen)[s] > 0 => Bought(s)
         /\ Value(BuysFor(seen), Price) \in Nat /\ Value(BuysFor(seen), Price) <= seen
<1>1. /\ IsFiniteSet(Stocks) /\ Price \in [Stocks -> Nat]
      /\ target \in SUBSET Stocks /\ hint \in [Stocks -> Nat] /\ seen \in Int
      /\ run.held \in [Stocks -> Nat] /\ run.buys \in [Stocks -> Nat]
      /\ \A s \in Stocks : hint[s] \in {0, Price[s]}
  BY FiniteSystem, PricesArePositive, StartingPoints, RunTypes DEF TypeOK, HintInv
<1>2. BuysFor(seen) \in [Stocks -> Nat]
  BY <1>1, Shares
<1>3. CASE \E s \in target : hint[s] > 0
  <2> DEFINE buys == BuyShares(target, run.held, Price, hint, seen)
  <2>1. BuysFor(seen) = buys
    BY <1>3 DEF BuysFor, RecalculatedBuys
  <2>2. Sized(buys, Stocks, target \ Held(run.held), hint, seen)
    BY <1>1, BuySharesType
  <2>3. Value(buys, Price) <= seen
    BY <1>1, BuysFitTheBudget
  <2> HIDE DEF buys
  <2>4. \A s \in Stocks : buys[s] > 0 => Bought(s)
    BY <1>1, <2>2 DEF Sized, Held, Bought
  <2> QED
    BY <1>1, <1>2, <2>1, <2>3, <2>4, ValueType
<1>4. CASE ~ \E s \in target : hint[s] > 0
  <2>1. BuysFor(seen) = run.buys /\ \A s \in Stocks : run.buys[s] = 0
    BY <1>1, <1>4 DEF BuysFor, HintInv
  <2>2. Value(run.buys, Price) = 0
    BY <1>1, <2>1, ValueOfNothing
  <2> QED
    BY <1>2, <2>1, <2>2
<1> QED
  BY <1>3, <1>4

\* Nothing is owed, so there is no debt either.
LEMMA CashIsNat ==
  ASSUME TypeOK, CashInv
  PROVE  cash \in Nat
<1> DEFINE d == [s \in Stocks |-> Due(s)]
<1>1. d \in [Stocks -> Nat] /\ cash >= Value(d, Price) /\ cash \in Int
  BY DueType DEF CashInv, TypeOK
<1> HIDE DEF d
<1>2. Value(d, Price) \in Nat
  BY <1>1, ValueType, FiniteSystem, PricesArePositive
<1> QED
  BY <1>1, <1>2

\* Cash is only committed when the buys are sized, and then within the cash that
\* was read after the sells: what is due is at most what is there.
LEMMA RunKeepsCash ==
  ASSUME RebalanceInv, TypeOK', RunMoves
  PROVE  CashInv'
<1>0. /\ TypeOK /\ OrdersInv /\ StageInv /\ HintInv /\ CashInv /\ cash' = cash /\ cash \in Int
      /\ run \in RunType /\ run.shares \in [Stocks -> Nat]
      /\ \A s \in Stocks : <<"BUY", s>> \in Orders
  BY RunFrame, RunTypes, OrderPairs DEF RebalanceInv, TypeOK, Sides
<1>1. ASSUME \A s \in Stocks : Due(s)' <= Due(s) PROVE CashInv'
  BY <1>0, <1>1, CashKept
<1>2. CASE \E s \in Stocks : Insertion(s)
  <2>1. PICK s \in Stocks : Insertion(s)
    BY <1>2
  <2> DEFINE o == <<run.side, s>>
  <2>2. /\ run.pc = "submitting" /\ s \in run.todo
        /\ run' \in {[run EXCEPT !.todo = @ \ {s}], [run EXCEPT !.pc = "done"]}
    BY <1>0, <2>1, InsertionIs
  <2>3. /\ run'.side = run.side /\ run'.shares = run.shares
        /\ \/ run'.pc = "submitting" /\ run'.todo = run.todo \ {s}
           \/ run'.pc = "done"
    BY <1>0, <2>2 DEF RunType
  <2>4. /\ \A x \in Orders : x # o => Outstanding(x)' = Outstanding(x)
        /\ \A x \in Orders : x = o => Outstanding(x)' = run.shares[s] /\ Outstanding(x) = 0
    BY <1>0, <2>1, InsertionOrders
  <2>5. ASSUME NEW x \in Stocks PROVE Due(x)' <= Due(x)
    <3>1. /\ Outstanding(<<"BUY", x>>) \in Nat /\ Outstanding(<<"BUY", x>>)' \in Nat
          /\ run.shares[x] \in Nat
      BY <1>0, OrderTypes, OutstandingStaysNat
    <3>2. CASE <<"BUY", x>> = o
      <4>1. x = s /\ run.side = "BUY"
        BY <3>2
      <4>2. Outstanding(<<"BUY", x>>)' = run.shares[x] /\ Outstanding(<<"BUY", x>>) = 0
        BY <1>0, <2>4, <3>2, <4>1
      <4> QED
        BY <2>2, <2>3, <3>1, <4>1, <4>2 DEF Due
    <3>3. CASE <<"BUY", x>> # o
      <4>1. Outstanding(<<"BUY", x>>)' = Outstanding(<<"BUY", x>>)
        BY <1>0, <2>4, <3>3
      <4> QED
        BY <2>2, <2>3, <3>1, <4>1 DEF Due
    <3> QED
      BY <3>2, <3>3
  <2> QED
    BY <1>1, <2>5
<1>3. CASE RunElse /\ (run'.pc # "submitting" \/ run'.side # "BUY")
  <2>1. ASSUME NEW x \in Stocks PROVE Due(x)' <= Due(x)
    <3>1. Outstanding(<<"BUY", x>>) \in Nat /\ run.shares[x] \in Nat
      BY <1>0, OrderTypes
    <3>2. Outstanding(<<"BUY", x>>)' = Outstanding(<<"BUY", x>>)
      BY <1>0, <1>3, RunElseSame
    <3> QED
      BY <1>3, <3>1, <3>2 DEF Due
  <2> QED
    BY <1>1, <2>1
<1>4. CASE RunElse /\ \E seen \in {cash, 0} : SizeBuys(seen)
  <2>1. PICK seen \in {cash, 0} : SizeBuys(seen)
    BY <1>4
  <2>2. cash \in Nat /\ seen \in Nat /\ seen <= cash
    BY <1>0, CashIsNat
  <2> DEFINE buys == BuysFor(seen)
             e == [s \in Stocks |-> Due(s)']
  <2>3. buys \in [Stocks -> Nat] /\ Value(buys, Price) \in Nat /\ Value(buys, Price) <= seen
    BY <1>0, <2>2, BuysForAre
  <2>4. run.side = "SELL" /\ run' = Submit(run, "BUY", buys)
    BY <2>1 DEF SizeBuys
  <2> HIDE DEF buys
  <2>5. /\ run'.pc = "submitting" /\ run'.side = "BUY" /\ run'.shares = buys
        /\ run'.todo = {s \in Stocks : buys[s] > 0}
    BY <1>0, <2>4 DEF Submit, RunType
  <2>6. ASSUME NEW s \in Stocks PROVE Due(s)' = buys[s]
    <3>1. Outstanding(<<"BUY", s>>)' = Outstanding(<<"BUY", s>>)
      BY <1>0, <1>4, RunElseSame
    <3>2. status[<<"BUY", s>>] = "NONE"
      BY <1>0, <2>4 DEF StageInv
    <3>3. book[<<"BUY", s>>] = NoBook
      BY <1>0, <3>2 DEF OrdersInv, OrderInv
    <3>4. Outstanding(<<"BUY", s>>) = 0
      BY <3>2, <3>3 DEF Outstanding, NoBook
    <3>5. buys[s] \in Nat
      BY <2>3
    <3> QED
      BY <2>5, <3>1, <3>4, <3>5 DEF Due
  <2>7. e = buys
    BY <2>3, <2>6
  <2>8. CashInv' <=> cash' >= Value(e, Price)
    BY DEF CashInv
  <2> QED
    BY <1>0, <2>2, <2>3, <2>7, <2>8
<1>5. CASE RunElse /\ ((\E dry \in BOOLEAN : Plan(dry)) \/ RecordRun \/ MovesOn)
  <2>1. run'.pc # "submitting" \/ run'.side # "BUY"
    BY <1>0, <1>5 DEF Plan, RecordRun, Submit, MovesOn, RunType
  <2> QED
    BY <1>3, <1>5, <2>1
<1> QED
  BY <1>0, <1>2, <1>4, <1>5, RunInsertsOrNot, RunElseIs

\* Only stocks outside the target are sold, all of what was held of them, and
\* only stocks of the target that were not held are bought.
LEMMA RunKeepsAim ==
  ASSUME RebalanceInv, RunMoves
  PROVE  AimInv'
<1>0. /\ TypeOK /\ OrdersInv /\ StageInv /\ HintInv /\ CashInv /\ AimInv
      /\ UNCHANGED <<target, holding>>
      /\ run \in RunType /\ run.side \in Sides
      /\ run.shares \in [Stocks -> Nat] /\ run.held \in [Stocks -> Nat]
      /\ \A s \in Stocks : <<"BUY", s>> \in Orders /\ <<"SELL", s>> \in Orders
  BY RunFrame, RunTypes, OrderPairs DEF RebalanceInv, Sides
<1>1. CASE \E s \in Stocks : Insertion(s)
  <2>1. PICK s \in Stocks : Insertion(s)
    BY <1>1
  <2> DEFINE o == <<run.side, s>>
  <2>2. /\ run.pc = "submitting" /\ s \in run.todo
        /\ status[o] = "NONE" /\ status'[o] = "PENDING" /\ qty'[o] = run.shares[s]
        /\ \A x \in Orders \ {o} : status'[x] = status[x] /\ qty'[x] = qty[x]
        /\ run' \in {[run EXCEPT !.todo = @ \ {s}], [run EXCEPT !.pc = "done"]}
    BY <1>0, <2>1, InsertionIs
  <2>3. /\ run'.side = run.side /\ run'.shares = run.shares /\ run'.held = run.held
        /\ \/ run'.pc = "submitting" /\ run'.todo = run.todo \ {s}
           \/ run'.pc = "done"
    BY <1>0, <2>2 DEF RunType
  <2>4. \A x \in Orders : Traded(x)' = Traded(x)
    BY <1>0, <2>1, InsertionOrders
  <2>5. row # "NONE"
    BY <1>0, <2>2 DEF StageInv, Over
  <2>6. ASSUME NEW x \in Stocks
        PROVE  /\ Sold(x)' = Sold(x) /\ Bought(x)' = Bought(x)
               /\ holding'[x] = run'.held[x] - Traded(<<"SELL", x>>)' + Traded(<<"BUY", x>>)'
    BY <1>0, <2>3, <2>4, <2>5 DEF Sold, Bought, AimInv
  <2>7. ASSUME NEW x \in Stocks, NEW side \in Sides
        PROVE  /\ <<side, x>> = o => ToSubmit(side, x) /\ status'[<<side, x>>] = "PENDING"
                                     /\ qty'[<<side, x>>] = run.shares[x] /\ ~ ToSubmit(side, x)'
               /\ <<side, x>> # o => /\ status'[<<side, x>>] = status[<<side, x>>]
                                     /\ qty'[<<side, x>>] = qty[<<side, x>>]
                                     /\ ToSubmit(side, x)' => ToSubmit(side, x)
                                     /\ run'.pc \notin Over /\ ToSubmit(side, x) => ToSubmit(side, x)'
    <3>1. <<side, x>> = o <=> side = run.side /\ x = s
      OBVIOUS
    <3>2. <<side, x>> \in Orders
      BY OrderPairs
    <3> QED
      BY <2>2, <2>3, <3>1, <3>2 DEF ToSubmit, Over
  <2>8. ASSUME NEW x \in Stocks
        PROVE  LET sell == <<"SELL", x>>
                   buy == <<"BUY", x>> IN
               /\ status'[sell] # "NONE" => Sold(x) /\ qty'[sell] = run.held[x]
               /\ status'[buy] # "NONE" => Bought(x)
               /\ ToSubmit("SELL", x)' => Sold(x) /\ run'.shares[x] = run.held[x]
               /\ ToSubmit("BUY", x)' => Bought(x)
               /\ Sold(x) /\ (run'.pc \notin Over \/ run'.side = "BUY") =>
                    status'[sell] # "NONE" \/ ToSubmit("SELL", x)'
    <3> DEFINE sell == <<"SELL", x>>
               buy == <<"BUY", x>>
    <3>1. /\ status[sell] # "NONE" => Sold(x) /\ qty[sell] = run.held[x]
          /\ status[buy] # "NONE" => Bought(x)
          /\ ToSubmit("SELL", x) => Sold(x) /\ run.shares[x] = run.held[x]
          /\ ToSubmit("BUY", x) => Bought(x)
          /\ Sold(x) => status[sell] # "NONE" \/ ToSubmit("SELL", x)
      BY <1>0, <2>2, <2>5 DEF AimInv, Over
    <3>2. run'.side = "BUY" => ~ ToSubmit("SELL", x)
      BY <2>3 DEF ToSubmit
    <3>3. "SELL" \in Sides /\ "BUY" \in Sides
      BY DEF Sides
    <3> QED
      BY <2>3, <2>7, <3>1, <3>2, <3>3
  <2> QED
    BY <2>3, <2>6, <2>8 DEF AimInv
<1>2. CASE RunElse /\ MovesOn
  <2>1. \A o \in Orders : Traded(o)' = Traded(o)
    BY <1>2, RunElseSame
  <2>2. UNCHANGED <<status, qty>> /\ run'.side = run.side /\ run'.held = run.held
    BY <1>2 DEF RunElse, MovesOn
  <2>3. ASSUME NEW x \in Stocks, row' # "NONE"
        PROVE  /\ Sold(x)' = Sold(x) /\ Bought(x)' = Bought(x)
               /\ holding'[x] = run'.held[x] - Traded(<<"SELL", x>>)' + Traded(<<"BUY", x>>)'
    BY <1>0, <1>2, <2>1, <2>2, <2>3 DEF Sold, Bought, AimInv, MovesOn
  <2>4. ASSUME NEW x \in Stocks, NEW side \in Sides
        PROVE  /\ ~ ToSubmit(side, x)'
               /\ run'.pc \notin Over => ~ ToSubmit(side, x)
               /\ run'.side = "BUY" => ~ ToSubmit("SELL", x)
    BY <1>2, <2>2 DEF ToSubmit, MovesOn
  <2> QED
    BY <1>0, <1>2, <2>2, <2>3, <2>4 DEF AimInv, MovesOn, Sides
<1>3. CASE RunElse /\ RecordRun
  <2>1. /\ run.pc = "planned" /\ run' = Submit(run, "SELL", run.shares) /\ UNCHANGED status
        /\ run.held = holding /\ run.shares = SellShares(target, run.held)
        /\ \A o \in Orders : status[o] = "NONE"
    BY <1>0, <1>3 DEF RecordRun, StageInv, RunElse
  <2>2. /\ run'.pc = "submitting" /\ run'.side = "SELL" /\ run'.shares = run.shares
        /\ run'.held = run.held /\ run'.todo = {s \in Stocks : run.shares[s] > 0}
    BY <1>0, <2>1 DEF Submit, RunType
  <2>3. \A s \in Stocks : run.shares[s] = IF s \in target THEN 0 ELSE run.held[s]
    BY <1>0, <2>1, SellSharesType
  <2>4. \A o \in Orders : Traded(o)' = 0 /\ status'[o] = "NONE"
    BY <2>1 DEF Traded
  <2>5. ASSUME NEW s \in Stocks
        PROVE  /\ ToSubmit("SELL", s)' <=> Sold(s)
               /\ Sold(s)' = Sold(s) /\ ~ ToSubmit("BUY", s)'
               /\ Sold(s) => run.shares[s] = run.held[s]
    BY <1>0, <2>2, <2>3 DEF ToSubmit, Sold
  <2>6. ASSUME NEW s \in Stocks
        PROVE  holding'[s] = run'.held[s] - Traded(<<"SELL", s>>)' + Traded(<<"BUY", s>>)'
    BY <1>0, <2>1, <2>2, <2>4
  <2> QED
    BY <1>0, <2>2, <2>4, <2>5, <2>6 DEF AimInv
<1>4. CASE RunElse /\ \E seen \in {cash, 0} : SizeBuys(seen)
  <2>1. PICK seen \in {cash, 0} : SizeBuys(seen)
    BY <1>4
  <2>2. seen \in Nat
    BY <1>0, CashIsNat
  <2> DEFINE buys == BuysFor(seen)
  <2>3. \A s \in Stocks : buys[s] > 0 => Bought(s)
    BY <1>0, <2>2, BuysForAre
  <2>4. run.pc = "settled" /\ run.side = "SELL" /\ run' = Submit(run, "BUY", buys)
        /\ UNCHANGED <<status, qty>> /\ row # "NONE"
    BY <1>0, <1>4, <2>1 DEF SizeBuys, RunElse, StageInv, Over
  <2> HIDE DEF buys
  <2>5. /\ run'.pc = "submitting" /\ run'.side = "BUY" /\ run'.held = run.held
        /\ run'.todo = {s \in Stocks : buys[s] > 0}
    BY <1>0, <2>4 DEF Submit, RunType
  <2>6. \A o \in Orders : Traded(o)' = Traded(o)
    BY <1>4, RunElseSame
  <2>7. ASSUME NEW x \in Stocks
        PROVE  /\ Sold(x)' = Sold(x) /\ Bought(x)' = Bought(x)
               /\ holding'[x] = run'.held[x] - Traded(<<"SELL", x>>)' + Traded(<<"BUY", x>>)'
    BY <1>0, <2>4, <2>5, <2>6 DEF Sold, Bought, AimInv
  <2>8. ASSUME NEW x \in Stocks
        PROVE  /\ ToSubmit("BUY", x)' => Bought(x)
               /\ ~ ToSubmit("SELL", x)' /\ ~ ToSubmit("SELL", x)
    BY <2>3, <2>4, <2>5 DEF ToSubmit
  <2> QED
    BY <1>0, <2>4, <2>5, <2>7, <2>8 DEF AimInv, Over
<1>5. CASE RunElse /\ \E dry \in BOOLEAN : Plan(dry)
  BY <1>0, <1>5 DEF Plan, StageInv, AimInv
<1> QED
  BY <1>0, <1>1, <1>2, <1>3, <1>4, <1>5, RunInsertsOrNot, RunElseIs

-----------------------------------------------------------------------------
(* The snapshots                                                             *)

\* The only worker-2 process is the one that steps, and it looks for a stored
\* snapshot before it goes on to take one.
LEMMA SnapshotKept ==
  ASSUME TypeOK, SnapshotInv, [Next]_vars
  PROVE  SnapshotInv'
<1> SUFFICES ASSUME NEW w \in Trackers, Trackers = {w}
             PROVE  /\ Len(snapshots') <= 1
                    /\ w2'[w].pc \in {"checked", "read"} => snapshots' = <<>>
  BY DEF SnapshotInv
<1>1. /\ Len(snapshots) <= 1
      /\ w2[w].pc \in {"checked", "read"} => snapshots = <<>>
      /\ w2[w] \in [pc: {"idle", "trigger", "checked", "read"}, held: [Stocks -> Int]]
      /\ w2 \in [Trackers -> [pc: {"idle", "trigger", "checked", "read"}, held: [Stocks -> Int]]]
  BY DEF SnapshotInv, TypeOK
<1>2. CASE UNCHANGED <<w2, snapshots>>
  BY <1>1, <1>2
<1>3. CASE Tracking(w)
  <2>1. CASE \E o \in Orders : \/ TrackOrder(w, o) \/ TrackingTimesOut(w, o) \/ TrackingRefused(w, o)
                               \/ \E as \in {"CANCELED", "FILLED"} : TrackCancel(w, o, as)
    <3>1. snapshots' = snapshots
      BY <2>1 DEF TrackOrder, TrackingTimesOut, TrackingRefused, TrackCancel, snapVars
    <3>2. w2'[w].pc \in {"idle", "trigger", w2[w].pc}
      BY <1>1, <2>1 DEF TrackOrder, TrackingTimesOut, TrackingRefused, TrackCancel, Become
    <3> QED
      BY <1>1, <3>1, <3>2
  <2>2. CASE TriggerSnapshot(w)
    BY <1>1, <2>2 DEF TriggerSnapshot, Become
  <2>3. CASE CheckSnapshot(w)
    BY <1>1, <2>3 DEF CheckSnapshot, Become, SnapshotStored
  <2>4. CASE ReadHoldings(w)
    BY <1>1, <2>4 DEF ReadHoldings, snapVars
  <2>5. CASE StoreSnapshot(w)
    <3>1. snapshots = <<>> /\ w2'[w].pc = "idle"
      BY <1>1, <2>5 DEF StoreSnapshot
    <3>2. Len(snapshots') = 1
      BY <2>5, <3>1 DEF StoreSnapshot
    <3> QED
      BY <3>1, <3>2
  <2>6. CASE SnapshotFails(w)
    BY <1>1, <2>6 DEF SnapshotFails, snapVars
  <2> QED
    BY <1>3, <2>1, <2>2, <2>3, <2>4, <2>5, <2>6 DEF Tracking
<1>4. CASE RunMoves
  BY <1>2, <1>4, RunFrame
<1>5. CASE Market
  BY <1>2, <1>5 DEF Market, SubmitOrder, DeliverTooEarly, SubmitCancel, BrokerFills, BrokerRejects, snapVars
<1>6. CASE UNCHANGED vars
  BY <1>2, <1>6 DEF vars, snapVars
<1> QED
  BY <1>3, <1>4, <1>5, <1>6 DEF Next, RunMoves

-----------------------------------------------------------------------------
(* The invariant                                                             *)

\* The invariant holds at the start,
LEMMA InvInit == Init => RebalanceInv
<1> SUFFICES ASSUME Init PROVE RebalanceInv
  OBVIOUS
<1>1. TypeOK
  BY TypeInit
<1>2. /\ \A s \in Stocks : <<"BUY", s>> \in Orders /\ <<"SELL", s>> \in Orders
      /\ \A o \in Orders : /\ status[o] = "NONE" /\ book[o] = NoBook /\ qty[o] = 0
                           /\ remaining[o] = 0 /\ cancel[o] = NoCancel
      /\ run.pc = "ready" /\ run.side = "SELL" /\ run.buys = None /\ run.todo = {}
      /\ row = "NONE"
  BY OrderPairs DEF Init, Sides
<1>3. holding \in [Stocks -> Nat] /\ cash \in Nat
  BY StartingPoints DEF Init
<1>4. OrdersInv
  BY <1>2 DEF OrdersInv, OrderInv, NoBook
<1>5. StageInv
  BY <1>2, <1>3 DEF StageInv, Over
<1>6. HintInv
  <2>1. \A s \in Stocks : hint[s] \in {0, Price[s]}
    BY DEF Init
  <2> QED
    BY <1>2, <2>1 DEF HintInv, None
<1>7. LeftInv
  <2>1. \A o \in Orders : cancel[o].st = "NONE"
    BY <1>2 DEF NoCancel
  <2> QED
    BY <1>2, <2>1 DEF LeftInv
<1>8. CashInv
  <2> DEFINE d == [s \in Stocks |-> Due(s)]
  <2>1. ASSUME NEW s \in Stocks PROVE Due(s) = 0
    <3>1. status[<<"BUY", s>>] = "NONE" /\ book[<<"BUY", s>>] = NoBook
      BY <1>2
    <3>2. Outstanding(<<"BUY", s>>) = 0
      BY <3>1 DEF Outstanding, NoBook
    <3> QED
      BY <1>2, <3>2 DEF Due
  <2>2. d \in [Stocks -> Nat] /\ \A s \in Stocks : d[s] = 0
    BY <2>1
  <2>3. CashInv <=> cash >= Value(d, Price)
    BY DEF CashInv
  <2> HIDE DEF d
  <2>4. Value(d, Price) = 0
    BY <2>2, ValueOfNothing, FiniteSystem, PricesArePositive
  <2> QED
    BY <1>3, <2>3, <2>4
<1>9. AimInv
  BY <1>2 DEF AimInv
<1>10. SnapshotInv
  BY DEF Init, SnapshotInv
<1> QED
  BY <1>1, <1>4, <1>5, <1>6, <1>7, <1>8, <1>9, <1>10 DEF RebalanceInv

\* and every step keeps it.
LEMMA InvKept ==
  ASSUME RebalanceInv, [Next]_vars
  PROVE  RebalanceInv'
<1>1. TypeOK /\ OrdersInv /\ StageInv /\ SnapshotInv
  BY DEF RebalanceInv
<1>2. TypeOK' /\ SnapshotInv'
  BY <1>1, TypeKept, SnapshotKept
<1>3. CASE RunMoves
  BY <1>2, <1>3, RunKeepsOrders, RunKeepsStage, RunKeepsHints, RunKeepsLeft, RunKeepsCash, RunKeepsAim
  DEF RebalanceInv
<1>4. CASE WorkerEffect
  BY <1>2, <1>4, WorkersKeep, WorkersKeepCash DEF RebalanceInv
<1>5. CASE Market
  BY <1>1, <1>4, <1>5, MarketEffect
<1>6. CASE \E w \in Trackers : Tracking(w)
  BY <1>1, <1>4, <1>6, TrackingEffect
<1>7. CASE UNCHANGED vars
  <2>1. UNCHANGED <<cash, holding, book, target, hint, row, status, qty, remaining, cancel, run>>
    BY <1>7 DEF vars, account, strategy, orderVars
  <2>2. /\ UNCHANGED <<target, hint, row, qty, run>>
        /\ \A o \in Orders : SameOrder(o)
    BY <2>1 DEF SameOrder
  <2>3. \A o \in Orders : OrderInv(o)' /\ Calm(o) /\ Traded(o)' = Traded(o)
    BY <1>1, <2>2, SameOrderIsCalm DEF OrdersInv
  <2> QED
    BY <1>4, <2>1, <2>2, <2>3 DEF WorkerEffect, NothingTraded
<1> QED
  BY <1>3, <1>5, <1>6, <1>7 DEF Next, RunMoves

\* The inductive invariant holds in every state of every rebalance.
THEOREM RebalanceInvariant == Spec => []RebalanceInv
<1>1. Init => RebalanceInv
  BY InvInit
<1>2. RebalanceInv /\ [Next]_vars => RebalanceInv'
  BY InvKept
<1> QED
  BY <1>1, <1>2, PTL DEF Spec

-----------------------------------------------------------------------------
(* What it gives                                                             *)

\* The state of a rebalance is well typed; above all the quantities the sizing
\* arithmetic computes are natural numbers (calculate, _recalculate_buy_orders).
THEOREM RunTypeCorrect == Spec => []TypeOK
<1>1. RebalanceInv => TypeOK
  BY DEF RebalanceInv
<1> QED
  BY <1>1, RebalanceInvariant, PTL

\* The cash in the account covers every buy order that is open or waiting to be
\* submitted, whatever portfolio, prices and target there are and however late
\* or little of the sells is filled (_get_actual_cash, _recalculate_buy_orders):
\* what is open is among what is due.
THEOREM BuysAreCovered == Spec => []BuysCovered
<1>1. ASSUME RebalanceInv PROVE BuysCovered
  <2> DEFINE d == [s \in Stocks |-> Due(s)]
             e == [s \in Stocks |-> Outstanding(<<"BUY", s>>)]
  <2>1. TypeOK /\ CashInv
    BY <1>1 DEF RebalanceInv
  <2>2. ASSUME NEW s \in Stocks PROVE e[s] \in Nat /\ d[s] \in Nat /\ e[s] <= d[s]
    <3>1. Outstanding(<<"BUY", s>>) \in Nat /\ run.shares[s] \in Nat
      BY <2>1, OrderTypes, OrderPairs, RunTypes DEF Sides
    <3> QED
      BY <3>1 DEF Due
  <2>3. d \in [Stocks -> Nat] /\ e \in [Stocks -> Nat]
    BY <2>2
  <2>4. cash \in Int /\ cash >= Value(d, Price) /\ (BuysCovered <=> cash >= Value(e, Price))
    BY <2>1 DEF CashInv, BuysCovered, TypeOK
  <2> HIDE DEF d, e
  <2>5. Value(e, Price) <= Value(d, Price) /\ Value(e, Price) \in Nat /\ Value(d, Price) \in Nat
    BY <2>2, <2>3, ValueAtMost, ValueType, FiniteSystem, PricesArePositive
  <2> QED
    BY <2>4, <2>5
<1> QED
  BY <1>1, RebalanceInvariant, PTL

\* When the run goes on to the buys, and when it is COMPLETED, every order before
\* is closed or a cancel of all its remainder has been written
\* (_cancel_unfilled_orders), for any number of stocks and any interleaving of the
\* wait with the workers.
THEOREM NothingIsLeftBehind == Spec => []NothingLeftBehind
<1>1. ASSUME RebalanceInv PROVE NothingLeftBehind
  <2>1. TypeOK /\ OrdersInv /\ StageInv /\ LeftInv
    BY <1>1 DEF RebalanceInv
  <2>2. ASSUME NEW side \in Sides, Settled(side) PROVE Left(side)
    <3>1. ASSUME NEW s \in Stocks
          PROVE  LET o == <<side, s>> IN
                 /\ Outstanding(o) \in Nat /\ book[o].rmn \in Nat /\ cancel[o].qty \in Nat
                 /\ book[o].rmn <= Outstanding(o)
      <4> DEFINE o == <<side, s>>
      <4>1. o \in Orders
        BY OrderPairs
      <4>2. OrderInv(o) /\ qty[o] \in Nat /\ book[o].rmn \in Nat /\ cancel[o].qty \in Nat
            /\ Outstanding(o) \in Nat
        BY <2>1, <4>1, OrderTypes DEF OrdersInv
      <4>3. book[o].rmn <= Outstanding(o)
        BY <4>2 DEF OrderInv, Outstanding, NoBook
      <4> QED
        BY <4>2, <4>3
    <3> QED
      BY <2>2, <3>1 DEF Settled, Left
  <2>3. run.side = "BUY" => Settled("SELL")
    BY <2>1 DEF LeftInv
  <2>4. row = "COMPLETED" => run.side = "BUY" /\ Settled("BUY")
    BY <2>1 DEF LeftInv, StageInv, Sides
  <2> QED
    BY <2>2, <2>3, <2>4 DEF NothingLeftBehind, Sides
<1> QED
  BY <1>1, RebalanceInvariant, PTL

\* A COMPLETED run whose orders were all filled holds nothing outside the target,
\* exactly what it held of the stocks it kept, and has not overdrawn the account.
THEOREM CleanRunsReachTheirTarget == Spec => []CleanRunReachesTarget
<1>1. ASSUME RebalanceInv PROVE CleanRunReachesTarget
  <2> SUFFICES ASSUME row = "COMPLETED", \A o \in Orders : status[o] \in {"NONE", "FILLED"}
               PROVE  /\ Held(holding) \subseteq target
                      /\ \A s \in target \cap Held(run.held) : holding[s] = run.held[s]
                      /\ cash >= 0
    BY DEF CleanRunReachesTarget
  <2>1. /\ TypeOK /\ OrdersInv /\ StageInv /\ AimInv /\ CashInv
        /\ run.pc = "done" /\ run.side = "BUY"
        /\ holding \in [Stocks -> Int] /\ run.held \in [Stocks -> Nat]
    BY <1>1, RunTypes DEF RebalanceInv, StageInv, TypeOK
  <2>2. cash >= 0
    BY <2>1, CashIsNat
  <2>3. ASSUME NEW o \in Orders
        PROVE  Traded(o) = IF status[o] = "NONE" THEN 0 ELSE qty[o]
    <3>1. /\ status[o] \in {"NONE", "FILLED"} /\ OrderInv(o) /\ qty[o] \in Nat
          /\ book[o].rmn \in Nat /\ book[o].cncl \in Nat /\ book[o].rjct \in Nat
      BY <2>1, OrderTypes DEF OrdersInv
    <3>2. CASE status[o] = "NONE"
      BY <3>2 DEF Traded
    <3>3. CASE status[o] = "FILLED"
      <4>1. book[o].rmn + book[o].cncl + book[o].rjct = 0
        BY <3>1, <3>3 DEF OrderInv
      <4>2. \A a, b, c \in Nat : a + b + c = 0 => a = 0 /\ b = 0 /\ c = 0
        OBVIOUS
      <4>3. book[o].rmn = 0 /\ book[o].cncl = 0 /\ book[o].rjct = 0
        BY <3>1, <4>1, <4>2
      <4> QED
        BY <3>1, <3>3, <4>3 DEF Traded
    <3> QED
      BY <3>1, <3>2, <3>3
  <2>4. ASSUME NEW s \in Stocks
        PROVE  /\ s \notin target => holding[s] = 0
               /\ s \in target /\ run.held[s] > 0 => holding[s] = run.held[s]
    <3> DEFINE sell == <<"SELL", s>>
               buy == <<"BUY", s>>
    <3>1. sell \in Orders /\ buy \in Orders /\ run.held[s] \in Nat /\ holding[s] \in Int
      BY <2>1, OrderPairs DEF Sides
    <3>2. /\ status[sell] # "NONE" => Sold(s) /\ qty[sell] = run.held[s]
          /\ status[buy] # "NONE" => Bought(s)
          /\ Sold(s) => status[sell] # "NONE"
          /\ holding[s] = run.held[s] - Traded(sell) + Traded(buy)
      BY <2>1 DEF AimInv, ToSubmit
    <3>3. /\ Traded(sell) = IF Sold(s) THEN run.held[s] ELSE 0
          /\ ~ Bought(s) => Traded(buy) = 0
      BY <2>3, <3>1, <3>2
    <3> HIDE DEF sell, buy
    <3> QED
      BY <3>1, <3>2, <3>3 DEF Sold, Bought
  <2>5. Held(holding) \subseteq target
    BY <2>1, <2>4 DEF Held
  <2>6. \A s \in target \cap Held(run.held) : holding[s] = run.held[s]
    BY <2>1, <2>4 DEF Held
  <2> QED
    BY <2>2, <2>5, <2>6
<1> QED
  BY <1>1, RebalanceInvariant, PTL

\* With one worker-2 process a rebalance gets at most one snapshot, however often
\* the trigger fires (the idempotency check of capture).
THEOREM OneSnapshotOnly == Spec => []OneSnapshot
<1>1. ASSUME RebalanceInv PROVE OneSnapshot
  <2> SUFFICES ASSUME Cardinality(Trackers) = 1 PROVE Len(snapshots) <= 1
    BY DEF OneSnapshot
  <2>1. PICK w : Trackers = {w}
    BY FiniteSystem, FS_Singleton
  <2> QED
    BY <1>1, <2>1 DEF RebalanceInv, SnapshotInv
<1> QED
  BY <1>1, RebalanceInvariant, PTL
=============================================================================
