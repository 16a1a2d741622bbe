# autotrading: TLA+ models, checks and proofs

`autotrading` trades Korean stocks through the KIS broker API. A FastAPI server
writes order rows to PostgreSQL and queues Celery tasks in Redis; three workers
submit, track and recover orders; a monthly rebalance produces orders from a
strategy. This directory holds TLA+ models of that system, the TLC runs that
check them and TLAPS proofs about them. Paths are relative to the repository.

- `PROJECT.json` lists components, runs, mutants, the map from definitions to
  source lines, findings, hazards and theorems.
- `tlc -config NewOrders.cfg MCOrderPipeline` repeats a run (`PROJECT.json` names module and cfg of each),
  `tlapm OrderPipelineProofs.tla` the proofs of a module.

## 1. Inventory

| component | state it keeps | operations | interacts with |
|---|---|---|---|
| order API (`app/api/router_order.py`) | none | buy, sell, cancel, revise, each with `dry_run` | inserts a PENDING row, commits, then queues `process_order` |
| order state machine (`app/domain/order_state.py`) | none | `can_transition` | called by worker-1 and worker-2 on the status they have read |
| worker-1 (`app/worker/tasks_order.py`) | the row's status; task in hand | claim, vet, post, hand back on a rate limit, record, start tracking | orders table, kill switch, broker, both queues |
| worker-2 (`app/worker/tasks_order_status.py`) | the row's status and quantities; task with attempt and start of window | load, inquire, apply, time out, requeue | orders table, broker, tracking queue, snapshot task |
| worker-3 (`app/worker/recovery.py`) | a Redis lock | requeue PENDING and tracked rows when it starts | both queues |
| order repository (`app/repository/order_repository.py`) | orders table | insert, guarded updates, recovery queries | all of the above |
| KIS order client (`app/broker/kis/kis_order.py`) | none | POST with `HTTP_RETRY_COUNT` attempts, inquiries | broker |
| kill switch (`app/services/safety/`) | a Redis flag | set, read | API sets it, worker-1 reads it |
| distributed lock (`app/utils/distributed_lock.py`) | a Redis key with TTL | acquire, release, context manager | recovery, token refresh, rebalance |
| token cache (`app/services/kis/auth_service.py`) | a Redis entry with expiry and fingerprint | get, refresh under the lock, wait for another's refresh | both workers |
| rebalance run (`app/strategy/runtime/`, `app/services/rebalance/`, `app/worker/tasks_rebalance.py`) | rebalance row, lock | gates, diff, sells, wait, cancel unfilled, buys | orders table, worker-1, worker-2 |
| portfolio snapshot | snapshot rows | capture once per rebalance | triggered by worker-2 |
| position diff, market calendar | none | pure functions | rebalance run |
| realtime client (`app/market/realtime/`) | socket, subscriptions, retry counter | connect, subscribe, receive, reconnect | KIS websocket |
| order broadcast (`app/websocket/`) | client list | publish, subscribe, send | every writer of an order |
| strategies and screeners (`app/strategy/`), DART provider (`app/market/provider/`) | statement cache and negative cache | fetch, score, rank, select | rebalance run |
| backtest (`app/strategy/backtest/`) | position list, trade records, cash | daily exits and entries | reversal strategy |
| metrics, price downloads, Discord | data frames | numeric or I/O | - |

**What is hard.** Several processes work on the same row without a lock: the only
protection is the compare-and-set in the `WHERE` clause of each update. Between
a commit and the next enqueue, and between a status read and its use, other
processes run and a process may die. Tasks are acknowledged on receipt, so a
dying worker loses its task; recovery adds duplicates of tasks that still exist.
An answer of the broker may be lost after the order was taken. Tracking is a
chain of tasks, each of which must queue its successor.

**What makes the components correct.**

- pipeline: an order is submitted by one process at a time; the system learns at
  most one broker number for it; it is never sent back to the queue once it has
  one; a terminal status is final; rows never claim more fills than happened nor
  hide open quantity; every task chain is kept alive until the order is terminal.
- lock and token cache: mutual exclusion as long as work is shorter than the TTL;
  a token returned belongs to the current credentials and is not expired.
- rebalance run: one run at a time, buys only after sells, no order dropped
  because its row was not yet visible, one snapshot, taken after the last order.
- position diff and calendar: buys fit in the cash; every due date offers its days
  wherever the holidays fall.
- realtime client: the server sends what the client believes subscribed; the client gives up
  only after enough failures in a row.
- broadcast: one dead browser does not keep the others from the current row; a published change
  repairs what an unpublished one left outdated.
- screening and backtest: only what DART really lacks is excluded; half a statement never helps
  a stock; the ranking is monotone; no position is held twice, too long or within its cooldown.

The hazards, each at its line and with the properties aimed at it, are in
`PROJECT.json`.

## 2. Plan

Done, in the order of importance:

1. `OrderState`, `TrackingRules`, `OrderPipeline`, the abstract `OrderLifecycle`.
2. `PositionDiff` and `RebalanceRun`: what one rebalance does to the account, with the
   workers abstracted to what a rebalance sees of them.
3. `RebalanceSchedule` (when a rebalance runs), `TokenCache` with the distributed lock.
4. `RealtimeClient`, `OrderBroadcast`, `Screening`, `Backtest`.
5. Proofs of the pipeline, the lock and token cache, the realtime client and the schedule.
6. Proofs of the tracked part of the pipeline, of `RebalanceRun` with the sizing arithmetic of
   `PositionDiff`, of the calendar, of `OrderBroadcast`, `Screening` and `Backtest`. Every
   invariant and action property a passing run checks is now a theorem.

Left, for proofs: theorems beyond what the runs check, such as the order in which
`OrderBroadcast` delivers, or a `RebalanceRun` over changing prices. The liveness
properties stay with TLC (section 5).

## 3. Modules

| module | content |
|---|---|
| `OrderState` | statuses, `ALLOWED_TRANSITIONS`, `can_transition`, and the statuses a tracking result may overwrite |
| `TrackingRules` | how one row of the broker's inquiry becomes status and quantities |
| `OrderPipeline` | API, worker-1, worker-2, worker-3, kill switch and an external broker |
| `OrderLifecycle` | abstract specification of one order's life |
| `PositionDiff` | quantities to sell, keep and buy; the recalculation after the sells |
| `RebalanceRun` | one rebalance: executor, order generator, the workers and the broker as it sees them, the snapshot |
| `RebalanceSchedule` | beat, the gates and the lock of `execute_rebalance`, the calendar and window, `POST /run` |
| `TokenCache` | the shared KIS token and the distributed lock |
| `RealtimeClient` | the price feed's connect / resubscribe / receive loop, its callers, its shutdown |
| `OrderBroadcast` | what sessions commit, publish and still hold, Redis channel, subscriber, connection manager, browsers |
| `Screening` | DART statements with their cache and negative cache, F-Score, dual momentum |
| `Backtest` | the day loop of the direct-trade backtest with the reversal strategy's decisions |
| `MCOrderPipeline`, `MCRebalanceRun`, `MCComponents` | instances for TLC |
| `OrderPipelineProofs`, `OrderTrackingProofs` | theorems and proofs about `OrderPipeline`: submission and refinement; tracking, rows and queues |
| `PositionDiffProofs`, `RebalanceRunProofs` | induction, sums over finite sets and the sizing arithmetic; the invariants of a rebalance |
| `RebalanceScheduleProofs`, `TokenCacheProofs`, `RealtimeClientProofs` | theorems and proofs about one module each |
| `ComponentProofs` | theorems and proofs about `OrderBroadcast`, `Screening` and `Backtest` |

`RebalanceRun` builds on `PositionDiff` and `TrackingRules`; a run of `RebalanceSchedule`
(from *running* to *Leave*) is one `RebalanceRun`, and the two meet in the `rebalances` row.
The other components share no state with each other.

### State of OrderPipeline

- *orders table*: `status`, `req` (kind, original, quantity, dry run: written once),
  `filled`, `remaining`, `brokerNo` (NULL, empty, number). `dry` is a ghost: the
  code does not store it.
- *Redis*: `submitQ` counts the `process_order` tasks of each order, `trackQ` the
  `process_order_status` tasks by attempt. They are bags, since countdowns
  and several processes reorder tasks. `killSwitch` is the flag.
- `toEnqueue`: requests between commit and `process_order.delay`.
- *processes*: `sub[w]` and `trk[w]` are the program counter and local variables of
  the task a process is running; `recovery` is worker-3.
- *broker*: `book[o]` is its row for the order (remaining, cancelled, rejected,
  executed), `accepted[o]` how often it took the order, `orphans[o]` how many of
  these answers were lost.

### Actions and code

An action ends at a commit, an enqueue or an exchange with the broker, so other
processes, and a crash, come between any two of these.

- API: `CreateNew`, `CreateChild` (checks, insert, commit), `EnqueueNew`, `ApiCrash`,
  `SetKillSwitch`.
- worker-1, in the order of `_process_order`: `ClaimOrder` / `SkipOrder`; `VetOrder` /
  `RefuseOrder`; `PostAnswered`, `PostTimeout`, `PostServerError`, `PostRejected`,
  `PostLimited`; `BackOff`, `RequeueOrder`; `RecordSubmit`; `StartTracking`;
  `SubmitterCrash`. `GiveUp` is the failure handler as it behaves: the call of
  `update_order_failure_result` lacks an argument and raises.
- worker-2, in the order of `_process_order_status`: `LoadOrder` / `SkipTracking`;
  `QueryBroker`, `QueryFails`, `QueryRefused`; `ApplySnapshot`; `TimeOutOrder`;
  `RequeueTracking`; `TrackerCrash`.
- worker-3: `RecoverSubmitOrders`, then `RecoverTrackingOrders`.
- broker (external, from how the code reads its answers): `BrokerTakes` within the
  posts, `BrokerExecutes`, `BrokerConfirms`, `BrokerRejects`.

Choices worth knowing:

- Updates through the ORM also refresh the loaded object, so the "previous" child
  quantity worker-2 subtracts is the one just written. A modify child's delta is
  therefore always 0, and a cancel child's delta is positive exactly when its row
  reports the quantity as cancelled. In that case the parent update raises.
  The parent's row is brought up to date by the parent's own polling.
- An inquiry that does not list the order yet yields the loaded values.
- The inquiry and the following `exists_child_orders` are one step.
- Exceptions nobody expects (token refresh, an unreadable answer, the database)
  end the task; both workers' general handlers raise as well, so this
  is a failure of kind `crash`.
- An HTTP error answer is modelled as not taken; one that was taken is the same as
  a lost answer (`PostTimeout` with `taken`).
- Websocket publishing changes no order and is in `OrderBroadcast`; Discord messages are left out.
- The 30 minute window is a number of polls: the first poll opens the window,
  poll `MaxAttempts` finds it over, one in between may find either.
- A recovery reads its rows and queues them in one step per function; a task
  delivered later is the same as one queued later. A recovery that dies
  half-way is not modelled. Its lock is taken to work.
- Orders inserted by the rebalance run are new orders like any other; what is special
  about them (the flush before the commit, the snapshot trigger) is in `RebalanceRun`.

A comment at `tasks_order_status.py:67` says the TIMEOUT branch is dead code because
`_resolve_retracking_delay` never returns None. It does return None (line 75) and the
branch is reachable; the comment is out of date.

### RebalanceRun

State: the broker's account and order book (`cash`, `holding`, `book`, external); the
strategy's result (`target`, and `hint`, the prices it attached); the rebalance row; the
rows of the new orders (`status`, `qty`, `remaining`) and of their cancels (`cancel`); the
process running `submit()` (`run`: where it is, side, holdings read at the start, planned
buys, what is still to do); the worker-2 processes (`w2`); snapshot tasks and snapshots.

- `submit`: `Plan` / `PlanFails`, `RecordRun`, then per side `InsertAndQueue` / `QueueFails`,
  `AllQueued`, `PollSettled` / `WaitTimesOut`, `Recheck`, `FlushCancel` / `CancelQueueFails`,
  `CommitCancels` (status, quantity and broker number are those `Recheck` read, in one query for
  all orders); between the sides `SizeBuysWithCash` / `SizeBuysBlindly`; `CompleteRun`;
  `RunAborts` anywhere.
- A cancel row is *FLUSHED* before the commit that makes it visible. Its task is already
  queued: `DeliverTooEarly` is worker-1 not finding the row, after which nobody submits the
  cancel (*LOST*, after the commit *STRANDED*; a recovery would pick it up).
- worker-1 and worker-2 on the orders of the run: `SubmitOrder`, `SubmitCancel`, `TrackOrder`,
  `TrackingTimesOut`, `TrackingRefused`, `TrackCancel`, with the conversion of
  `TrackingRules`; the trigger and the task of the snapshot: `TriggerSnapshot`,
  `CheckSnapshot`, `ReadHoldings`, `StoreSnapshot`, `SnapshotFails`.
- Everything trades at `Price`. The code floors float quotients; exact integer division
  gives the same floors for amounts far below 2^53.

### RebalanceSchedule

Time is unbounded: `today` is the day of a periodic month, `slot` its part before, in or
after the time window, and rows carry their *age*, which stops growing once every window it
could open is over (`Cap`). Days are offsets from today, so the window is the code's
arithmetic on dates. `auto`, `gap`, `missed` and `overran` are history variables.

- gates in the order of `execute_rebalance`: kill switch (`Enter`), lock (`AcquireLock`,
  `LockRefused`), last completed row, window and month check (`PassGates`, `StopAtGate`); the
  run (`RecordRunning`, `DryRunEnds`, `TaskCompletes`, `TaskFails`); `WorkerCrash`, `LockExpires`,
  `LockOverrun`.
- around it: `OpenWindow` with beat's message, `OpenWithoutBeat`, `CloseWindow`, `CloseEarly`,
  `NextDay`, `EngageKill`, `ReleaseKill`, `OperatorCalls`, and `Manual*` for `POST /run`.
- A run is taken to end on the day it began, and a day's tasks to be handled within
  the hour of the window unless a trouble `slow` happens.

### TokenCache

Keys with a TTL carry the time they have left; `Tick` takes one unit of each. A call of
`get_valid_access_token` is `Call`, `acquire_lock` or `StartWaiting`, `DoubleCheck`, `Issue` /
`IssueFails`, `release_lock` / `ReleaseFails`, `Retry`. The release deletes the key whoever
owns it, as in the code. `Restart` gives a process other credentials, `Corrupt` and
`Invalidate` change the cached entry.

### RealtimeClient

`loop` is where `start()` is; the API's `subscribe` and `unsubscribe` and the lifespan's
`disconnect` come between its awaits. `feed` is what the server sends, `refused` the codes whose
request it refused (the client remembers them as subscribed all the same). A
cancelled task ends through its `finally`.

### OrderBroadcast

A cancel or modify order (*child*), the order it is about (*parent*) and the database sessions that
change them. Rows change without bound, so what was read, sent or shown is only *current* or not: a commit
makes it outdated. A session publishes a row as its identity map has it: `expire_on_commit=False` and the plain
select of `get_order_by_id` leave a row that was read once as it is, while `update(Order)` changes it
in the session too (`Loaded`, `Written`, `AgedView`).

- sessions of requests: `ReadOriginal`, `RefuseRequest`, `CreateOrder`; of worker-1: `Claim`, `VetOriginal`,
  `RecordSubmission`, `HandBack`, `SubmissionFails`; of worker-2: `Poll`, `StopTracking`, `RecordTracking`, `SettleParent`,
  `ParentUpdateRaises`, `InquiryRefused`, `TimeOut`, `EndTracking`; of the order generator: `GenerateOrder`. Their
  guards are the place in the code only: which status leads where is in `OrderPipeline`.
- `publish_order_update`: `ReadRow`, `Publish`, `PublishFails`, for the order and then its parent.
- *Not every commit is published.* The claim (`tasks_order.py:157`), the hand-back (`:317`), a child's change when the
  update of its parent raises (`tasks_order_status.py:541`) and the orders and cancels of a rebalance are not; the
  handler of a failed submission raises before it would publish. `unheard` has the orders whose last change is of
  this kind, was made while another session held the row (which may publish the old one later), or whose
  message was lost. `BrowsersCatchUp` is about all other orders: the next published change that nobody else's
  row can overtake brings every browser up to date, whatever is still in the channel.
- So a browser shows PENDING while an order is PROCESSING, although `README.md:310` of the repository says
  that every change a worker makes is delivered to all clients.

### Screening, Backtest

`Screening`: `BeginScreen`, `Fetch`, `FetchFails`, `MarkUnavailable`, `NothingScored`, `Select`, with concurrent runs
on one cache and companies that file meanwhile. The cache has, of each stock, the statement each *sheet* (BS, IS, CF, CIS)
comes from. `Fetch` is the four requests for the consolidated statement and, if none of them brought a sheet, the four for
the separate one. It is one step, but not one moment: sheets that DART refuses (`refused`) or whose report
is filed between two requests (`FiledFor`) are missing from the answer, and what came is stored. As in the code,
consolidated and separate rows have the same keys, so that concurrent runs can leave rows of both.
`FoundOn` is `_get_amount` with its fallback from IS to CIS: a statement without one of the two
is scored with the accounts it has. The F-Score's nine tests are `RawScores`; a missing account makes the tests that read it fail or the stock incomputable.
An account that is on both IS and CIS is taken to have the same amount on both.
Ranks are doubled to keep pandas' average rank of ties an integer.

`Backtest`: a day is `Exits`, then `Entries` or `NoEntries`. Prices appear as what decisions
read of them: which stocks trade, which hit take profit or stop loss, returns and volume spikes.
Indices are popped in the code's order.

## 4. Runs

| run | instance | shows |
|---|---|---|
| `new_orders` | 1 order of quantity 2, 2+2 processes, all failures (2 in a behaviour), 1 recovery | `TypeOK`, `SubmissionExclusive`, `OneAnsweredSubmission`, `LedgerSound`, `TerminalIsFinal`, `RefinesLifecycle`; 76 thousand states |
| `child_orders` | 2 orders (a new one and a modify or cancel of it), quantities 1 and 2, 1+1 processes | `LedgerSound`, `NoHiddenRemainder`; 210 thousand states |
| `live_orders` | 1 order, 1+2 processes, rate limits, lost answers, refused inquiries, 1 recovery, fairness | `PendingOrderIsQueued`, `LiveOrderIsTracked`, `QueuedOrderIsClaimed`, `LiveOrderSettles`; 66 thousand states |
| `status_machine` | 2 trackers, 1 recovery | violated: `LegalTransitions` |
| `dry_run` | 1 recovery | violated: `DryRunStaysHome` |
| `failed_submission` | no failure, only a refusal | violated: `ProcessingHasWorker` |
| `timeout_cancel` | fairness | violated: `TimeoutCancelsRemainder` |
| `rebalance` | 3 stocks (sell, keep, buy), invested or empty account, 1 worker-2 process, 1 failure of any kind, fairness | `TypeOK`, `BuysCovered`, `NothingLeftBehind`, `CleanRunReachesTarget`, `OneSnapshot`, `RunEnds`; 530 thousand states |
| `components` | the six components that share no state, one of them per behaviour | 16 properties, below; 179 thousand states |
| `snapshot_timing` | no failure | violated: `NoOrderAfterSnapshot` |
| `missed_window` | 1 worker, week of 7 days, kill switch once, fairness | violated: `DueIsDone` |
| `foreign_token` | 2 processes, 2 credentials | violated: `ReturnsOwnToken` |

The run `components` is a disjoint sum: the variable `active` of `MCComponents` picks the component whose steps
a behaviour takes, and the others stay in their initial state, so the states
are the sum, not the product, and each property is checked of its component as if alone. It shows

- schedule: `OneScheduledRun`, `ScheduledSpacing`, `GoneOnlyAfterAllChances`,
  `DueIsDoneWithoutTrouble`;
- token cache: `OneIssuer`, `NoNeedlessIssue`;
- realtime client: `FeedFollowsCodes`, `GivesUpOnlyWhenDown`, `ShutdownEnds`;
- broadcast: `BrowsersCatchUp`, `GoneAreRemoved`;
- screening: `OnlyRefusalExcludes`, `SelectionSound`, `BoughtOnMerit`;
- backtest: `BookSound`, `NeverOverheld`.

`rebalance` and `components` do not check deadlock: a rebalance, a client that has been shut down and
a broadcast whose connections have all been used really stop.

**Bounds.** Exclusion needs two submitters, and stale writes two trackers: the second
chain comes from a recovery while the first is alive. Quantity 2 is the smallest with a
partial fill. `HttpRetryCount` 2 (3 in the code) has a first and a last attempt.
`MaxAttempts` is 1 or 2: with 2 there is a poll that may or may not be the last. Two
failures allow, for instance, a lost answer followed by a rate limit. The containers
run every worker with `--concurrency=1`; the commands the README gives for local use set
no limit, hence two processes each. Orders interact only through modify and cancel, so two
orders suffice for those. The symmetry sets permute orders and processes and are used
only for safety.

- `rebalance`: with three stocks there is one of each kind, and from the empty account two
  to buy; quantity 2 has partial fills; prices and cash are chosen so that every division
  leaves a remainder and the buys depend on which sells were filled. One worker-2 process, as in `docker-compose`;
  with two, the snapshot's check and insert race (a listed hazard).
- schedule: a month of 5 days with a weekend that due dates and delays fall on; an interval of 3 and
  a delay of 1 business day, so that windows cross the weekend; 2 workers contend for the
  lock; one trouble, since two runs past each other need only one.
- token cache: TTL 2 and hold 1 are the smallest with hold < TTL; life 3 and buffer 1 give a
  valid, an expiring and an expired token.
- realtime client: 2 codes, so that a resubscription is interrupted half-way; 2 reconnections.
- broadcast: 2 browsers (one dies while the other is served) and 2 sessions, 3 of these four in a behaviour
  (`MaxActors`): two browsers and a publisher, or two sessions that hold the same row and a browser. A session
  ends for good, so that repair by a third one is left to the proof. One message waits for the subscriber, one is in its hands.
- screening: 1 stock, whose consolidated statement misses the threshold and whose separate one reaches it, with revenue and
  gross profit on the income statement only, so that it matters which sheets came; 2 runs on one cache; rankings of
  up to 4 stocks with 3 returns, which gives ties at, above and below `TopN` = 2. Companies that have no consolidated
  statement are left to the proof.
- backtest: 3 stocks for 2 slots, so that slots run out and two positions close on one day; gaps of
  1 and 3 days around a cooldown of 1 and a lookback of 3.

**Fairness** (`FairSpec`). A running process takes its next step, a request that has
committed reaches its enqueue, a recovery that has begun ends. That is what an operating
system and Celery's consumer loop give to processes that do not die. Nothing is assumed
of clients, the broker's executions, the kill switch, failures or restarts. `QueuedOrderIsClaimed` and
`LiveOrderSettles` hold because failures are finite in a behaviour (`MaxFaults`), which
for the rate limit is the assumption that it does not last for ever.
For a rebalance (`FairSpec` of `RebalanceRun`) only the process running
`submit()` goes on, its clock with it; nothing is assumed of the broker and the
workers. For the schedule: time passes, a task and a request that has begun go on, a lock whose holder is
dead expires, and somebody releases the kill switch in the end. For the realtime client and
the broadcast: the event loop runs coroutines that can go on, so the 30-second ping finds a browser
that has gone. `live_orders` leaves out crashes and retryable inquiry errors: with either, an order
really can be left untracked until a recovery.

**Findings** (the violation runs; details in `PROJECT.json`).

1. A slower tracking chain writes ACCEPTED over PARTIAL_FILLED: the set of statuses it
   may overwrite is computed from the status it read, and contains those the order may
   have moved to since.
2. A dry-run order is submitted by the next recovery.
3. A refused or failed submission leaves the row PROCESSING for ever.
4. The remainder of a timed-out order is never cancelled.
5. The snapshot task is queued when the last sell closes, before the buys exist, and the
   snapshot it stores keeps the later one out.
6. A rebalance that misses all days of its window is never due again.
7. A process that waits for another's token refresh returns a token exactly when its
   fingerprint does *not* match, hence one of other credentials.

Every property of a passing run has a mutant in `PROJECT.json`: a plausible change of
the code (operators marked `Mutant` in the modules) under which TLC finds it violated.

## 5. Proofs

`OrderPipelineProofs` proves, for any sets of orders, processes and quantities and any
bounds, from the assumptions named in `OrderPipeline` (`NoOrder` is not an order,
quantities are positive, bounds are naturals and `HttpRetryCount`, `MaxAttempts` positive):

| theorem | statement |
|---|---|
| `TypeCorrect` | `Spec => []TypeOK` |
| `SubmissionIsExclusive` | `Spec => []SubmissionExclusive` |
| `AnsweredAtMostOnce` | `Spec => []OneAnsweredSubmission` |
| `TerminalStatusIsFinal` | `Spec => TerminalIsFinal` |
| `PipelineRefinesLifecycle` | `Spec => RefinesLifecycle` |

*Type correctness* has one lemma per process and one step per action. The conjuncts that
are not immediate: the broker's book stays non-negative (`BrokerTakesType`), the retry
counter stays below `HttpRetryCount`, and a requeued attempt stays within `MaxAttempts`,
because a task is requeued only while its window is open.

*Exclusion and single answer* are not inductive. `SubmissionInv` adds what is needed: a
process in one of the four holding stages has a PROCESSING row and no rival; a row that
does not exist or is PENDING has no broker number; a process that has claimed, vetted or
been limited holds an order without a number, one that has been answered holds an
order with one; and `orphans <= accepted <= orphans + 1`. The argument: only a process in
stage *vetted* posts, its order has no number, and nobody but the holder moves a
PROCESSING row (`OthersMove`), so the row cannot return to PENDING, and be claimed again,
once a number is known.

*Terminal statuses and refinement* follow from that invariant and a classification of
steps: `OthersMove` and `SubmitterMoves` list what a step may do to `status` and to the set
of numbered orders, and each case is a step of `OrderLifecycle` or a stutter.

`OrderTrackingProofs` builds on these, under the same assumptions:

| theorem | statement |
|---|---|
| `LedgerIsSound` | `Spec => []LedgerSound` |
| `RemainderIsNeverHidden` | `Spec => []NoHiddenRemainder` |
| `PendingOrdersAreQueued` | `Spec => []PendingOrderIsQueued` |
| `LiveOrdersAreTracked` | `Spec => []LiveOrderIsTracked` |

What the rows say is not inductive because trackers carry answers that are old when they are
written. `TrackingInv` therefore says of every answer in a tracker's hands what
`LedgerSound` and `NoHiddenRemainder` say of the row (`LedgerInv`, `OpenInv`); that
holds on because the broker's row goes one way (`RowAdvances`: less is open, more is executed),
so what bounded it yesterday bounds it today, whichever tracker writes last. `RowInv` and `TaskInv` tie tasks
to rows: only a submitted order is tracked, and the last attempt finds its window over.

`LiveOrderIsTracked` needs more: a tracker that loses the race of its compare-and-set drops its task.
`ChainInv` counts only trackers that will go on (`WillGoOn`: the row still has a status they may
overwrite). When somebody moves the row from under another tracker, the mover itself goes
on. `PartialInv` excludes the remaining way for a chain to end: a poll that finds ACCEPTED after
PARTIAL_FILLED would be refused by `can_transition`, but an order of which something
is done never looks untouched again.

`TokenCacheProofs`, for any processes, credentials, TTL, life and buffer, from
`LockAssumption` (the work under the lock is shorter than the TTL) and `TokenAssumption`:

| theorem | statement |
|---|---|
| `TokenTypes` | `TokenSpec => []TokenTypeOK` |
| `OneIssuerHolds` | `TokenSpec => []OneIssuer` |
| `NoNeedlessIssueHolds` | `TokenSpec => []NoNeedlessIssue` |

`TokenInv` adds `LockOutlivesHolder`: a process under the lock has held it for `held` and the key has at
least `LockTTL - held` left. That is why the ownerless release is harmless under the assumption: as long
as somebody is under the lock the key exists, so nobody else is, and the key
deleted is one's own. The second part of the argument is that only a holder writes a token into the
cache, so what `DoubleCheck` saw still holds when `Issue` runs.

`RealtimeClientProofs`, for any codes and any limit: `FeedFollowsCodesHolds`
(`RealtimeSpec => []FeedFollowsCodes`) and `GivesUpOnlyWhenDownHolds`
(`RealtimeSpec => []GivesUpOnlyWhenDown`). `RealtimeInv` adds that a loop that is not
connected has no open socket, that *during* a resubscription every code that is
neither sent nor refused is still to do (`FeedPartial`), and that the counter equals the failures in a row.

`RebalanceScheduleProofs`, for any calendar, interval, delay and workers, from
`CalendarAssumption` and `WindowAssumption`:

| theorem | statement |
|---|---|
| `OneScheduledRunHolds` | `ScheduleSpec => []OneScheduledRun` |
| `ScheduledSpacingHolds` | `ScheduleSpec => []ScheduledSpacing` |
| `GoneOnlyAfterAllChancesHolds` | `ScheduleSpec => []GoneOnlyAfterAllChances` |

`ScheduleInv` adds that a task past the lock has its key
(`LockKept`), that the latest row a task completed is no younger than the latest of all (`AutoIsOlder`), and that a
task past the gates found the interval over since the latest *task's* row (`IntervalOver`),
which a manual run that completes meanwhile cannot undo.

For the window, `ChancesInv` says that `missed` has counted every business day from the due date to
yesterday, or is full. The step is `NextDay`: if today is a business day and not in the delay any more, the
business days after the adjusted due date up to today exceed the delay, hence so do those from it up to yesterday
(`CountFromDue`), and the count was full already. Ages stop growing at `Cap`; there it is full because each
of `MaxDelay + 2` months has a business day (`MonthsHaveBusinessDays`, by induction). Shifting
the calendar by a day is a bijection on the days counted (`CountTomorrow`), which rests on a few facts about
`%` that are proved from the definition of quotient and remainder.

`PositionDiffProofs` and `RebalanceRunProofs`, for any finite set of stocks, any prices,
portfolios, cash and targets, from `FiniteSystem` (a portfolio is a list), `PricesArePositive`,
`StartingPoints` and `RunFaults`:

| theorem | statement |
|---|---|
| `BuysFitTheBudget` | the value of `BuyShares` is at most the budget |
| `RebalanceInvariant` | `Spec => []RebalanceInv` |
| `RunTypeCorrect` | `Spec => []TypeOK` |
| `BuysAreCovered` | `Spec => []BuysCovered` |
| `NothingIsLeftBehind` | `Spec => []NothingLeftBehind` |
| `CleanRunsReachTheirTarget` | `Spec => []CleanRunReachesTarget` |
| `OneSnapshotOnly` | `Spec => []OneSnapshot` |

`BuysFitTheBudget` assumes that a hint is 0 or the price of the stock (`hint[s] \in {0, price[s]}`), which `HintInv`
establishes for the run: it is about the prices the strategy attached, not about later ones.
Each new stock gets at most budget / (number of new stocks), floored, so the sum over the new stocks fits.

The parts of `RebalanceInv`: the broker's row of an order never has more open than the database's
(`OrdersInv`); what may exist at each stage of `submit()` (`StageInv`); a side that is over is
settled, and while its cancels are being written, those still to be written will cover what is open
(`LeftInv`), which holds although orders go on trading, because what is open only shrinks;
the cash covers the open buys *and* those that are still to be submitted (`CashInv`), which is what makes
`BuysCovered` inductive; holdings are those read at the start minus what was sold plus what
was bought (`AimInv`); a snapshot task that has checked has seen none (`SnapshotInv`).

`ComponentProofs`, for any values of the constants of the three modules:

| theorem | statement |
|---|---|
| `BrowsersDoCatchUp` | `BroadcastSpec => []BrowsersCatchUp` |
| `OnlyRefusalsExclude` | `ScreeningSpec => []OnlyRefusalExcludes` |
| `SelectionIsSound` | `ScreeningSpec => []SelectionSound` |
| `BoughtIsMerited` | `ScreeningSpec => []BoughtOnMerit` |
| `BookIsSound` | `BacktestSpec => []BookSound` |
| `NobodyIsOverheld` | `BacktestSpec => []NeverOverheld` |

- *Broadcast* (from `BroadcastAssumption`): `DeliveryInv` says, of an order that is not `unheard`, where its current row is. No
  session holds an old row of it; a message in the channel or in the subscriber's hands that has become outdated is
  followed by a current one, or the session that committed the change has still to publish it; and the row a browser
  lacks is with that session, in the channel, or in the broadcast that has not reached this browser yet. A commit that is
  not announced, or made while another session holds the row, takes the order out of the claim; the next one that is
  announced and overtaken by nobody puts it back, and the proof is that `DeliveryInv` then holds again whatever was
  sent before (`CommitEffect`).
- *Screening* (from `ScreeningAssumption`: finitely many stocks, and every company reports something): `ScreeningInv` adds
  what the runs carry: until DART has answered with an error status, every stock on a run's no-data list was absent
  when DART was asked. The ranking is a count: a stock of higher return has all the stocks of its own return above
  the lower one (`h(t) + e(t) <= h(s)`), so its average rank is better; the worst of those bought bounds their number
  (`RankingOf`). `BoughtIsMerited` rests on `WholePassesToo`: part of a statement has some of the accounts of the whole, with the
  same amounts, and those of the balance sheet all or none (`PartOfWhole`); so what can be computed of the part can be of the
  whole, and a missing account makes both of its ratios 0, which is no rise (`LessScoresLess`). It is needed in this
  form because other runs may go on inserting sheets after the purchase.
- *Backtest* (from `BacktestAssumption`, with a finite universe): popping is characterised by `Kept`, by induction from the last
  index down: those before the index are where they were, of the others those that are not closed are
  left. `BookInv` adds that a position was held at least as long as it could have been sold,
  so that `max_holding_days` come first.

**Induction.** The provers cannot instantiate an induction rule for an arbitrary predicate. `PositionDiffProofs`
states induction for a *set* of numbers, or of subsets of a finite set, that contains the successors of its
elements (`Induction`, `SetInduction`, from the well-foundedness of `<`). Sums (`Total`), `PopClosed` and the counting of
business days use it; that the recursive functions exist is proved first, the same way (`TotalExists`, `PopExists`).
The inductive invariants were checked by TLC on the instances of the runs before they were proved.

**Only model-checked**: the liveness properties (`QueuedOrderIsClaimed`, `LiveOrderSettles`, `RunEnds`,
`DueIsDoneWithoutTrouble`, `ShutdownEnds`, `GoneAreRemoved`), since fairness and ENABLED are out of the
prover's reach, and the seven violations.

## 6. Not modelled

- Performance metrics (`app/strategy/metrics/`, `performance_service`) and the backtest's
  rebalance mode: floating-point statistics over one series, without state or control.
- Universe and valuation filters: column filters over a data frame.
- The other strategies' numeric indicators beyond the decisions in `Screening` and `Backtest`.
- Price downloads, account inquiries as such and Discord: pure I/O; failing inquiries appear where
  a component handles them. Read-only listings of the repositories and the API.
- Settings, logging, CORS, router registration: wiring. Of start-up, the realtime client's start and
  shutdown and beat's schedule are modelled.
- Statement amounts that DART leaves empty: they become NULL and then NaN, which passes the check for missing accounts and makes
  comparisons false. In `Screening` an account that is on a sheet has its amounts.
- Holdings of quantity zero: `PositionDiff` takes the broker's list to name stocks that are held, the code tests for
  the name only.
- A recovery that dies half-way, and a rebalance over two prices: prices are constant in `RebalanceRun`,
  so `BuysCovered` is about the prices the buys were sized with.
