--------------------------- MODULE OrderPipeline ---------------------------
(***************************************************************************)
(* The order pipeline: the API writes an order row and queues it, worker-1 *)
(* submits it to the broker, worker-2 polls the broker until the order is  *)
(* terminal, worker-3 re-queues unfinished orders when it starts.          *)
(*                                                                         *)
(* Every commit to the database, every enqueue and every exchange with the *)
(* broker is a step of its own, so a worker can die, and other workers can *)
(* run, between any two of them.                                           *)
(***************************************************************************)
EXTENDS TrackingRules

CONSTANTS
  Orders,          \* the order ids that may be created
  NoOrder,         \* the null id (original_order_id of a new order)
  Submitters,      \* process slots of worker-1 (orders.submit)
  Trackers,        \* process slots of worker-2 (orders.track)
  Quantities,      \* order quantities a client may ask for
  HttpRetryCount,  \* HTTP_RETRY_COUNT of the broker client
  MaxAttempts,     \* polls after which the 30 minute window is surely over
  FaultKinds,      \* the kinds of failure that may happen
  MaxFaults,       \* bound: failures in one behaviour
  MaxRecoveries    \* bound: starts of worker-3 in one behaviour

AllFaultKinds == {"crash", "timeout", "server_error", "rate_limit",
                  "query_error", "query_refused"}

ASSUME OrdersAssumption == NoOrder \notin Orders
ASSUME QuantitiesAssumption == Quantities \subseteq Nat \ {0}
ASSUME BoundsAssumption ==
  /\ HttpRetryCount \in Nat \ {0}
  /\ MaxAttempts \in Nat \ {0}
  /\ MaxFaults \in Nat
  /\ MaxRecoveries \in Nat
ASSUME FaultsAssumption == FaultKinds \subseteq AllFaultKinds

VARIABLES
  \* the orders table; a row that does not exist has status "NONE"
  status, req, filled, remaining, brokerNo,
  \* Redis: the Celery queues (as bags: countdowns reorder tasks), kill switch
  submitQ, trackQ, killSwitch,
  \* API requests that have committed their row and not yet queued it
  toEnqueue,
  \* worker processes
  sub, trk, recovery,
  \* the broker (external)
  accepted, orphans, book,
  \* bounds
  faults, recoveries

dbVars     == <<status, req, filled, remaining, brokerNo>>
queueVars  == <<submitQ, trackQ>>
brokerVars == <<accepted, orphans, book>>
boundVars  == <<faults, recoveries>>
vars == <<dbVars, queueVars, killSwitch, toEnqueue, sub, trk, recovery,
          brokerVars, boundVars>>

\* broker_order_no: NULL until submission; ODNO may come back empty.
BrokerNos == {"null", "empty", "number"}

\* The columns written once, by the request that creates the row.
Request == [kind: {"NEW"}, parent: {NoOrder}, qty: Nat, dry: BOOLEAN]
      \cup [kind: {"MODIFY", "CANCEL"}, parent: Orders, qty: Nat, dry: BOOLEAN]
NoRequest == [kind |-> "NEW", parent |-> NoOrder, qty |-> 0, dry |-> FALSE]

\* A row of the broker's order book, with the quantity really executed.
Row == [rmn: Nat, cncl: Nat, rjct: Nat, exec: Nat]
NoTicket == [rmn |-> 0, cncl |-> 0, rjct |-> 0, exec |-> 0]

SubmitterState == [pc: {"idle", "claimed", "vetted", "answered", "limited",
                        "requeue", "recorded"},
                   order: Orders \cup {NoOrder},
                   tries: 0..(HttpRetryCount - 1), no: BrokerNos]
IdleSubmitter == [pc |-> "idle", order |-> NoOrder, tries |-> 0, no |-> "null"]

\* seen: the status loaded at the start of the task; next, filled and
\* remaining: the snapshot; raises: applying it to the parent raises.
TrackerState == [pc: {"idle", "loaded", "answered", "expired", "requeue"},
                 order: Orders \cup {NoOrder}, attempt: 0..MaxAttempts,
                 expired: BOOLEAN, seen: TRACKING_TARGET_STATUSES,
                 next: TRACKING_TARGET_STATUSES \cup TERMINAL_STATES,
                 filled: Nat, remaining: Nat, raises: BOOLEAN]
IdleTracker == [pc |-> "idle", order |-> NoOrder, attempt |-> 0,
                expired |-> FALSE, seen |-> "REQUESTED", next |-> "REQUESTED",
                filled |-> 0, remaining |-> 0, raises |-> FALSE]

TypeOK ==
  /\ status \in [Orders -> ORDER_STATUS \cup {"NONE"}]
  /\ req \in [Orders -> Request]
  /\ filled \in [Orders -> Nat]
  /\ remaining \in [Orders -> Nat]
  /\ brokerNo \in [Orders -> BrokerNos]
  /\ submitQ \in [Orders -> Nat]
  /\ trackQ \in [Orders -> [0..MaxAttempts -> Nat]]
  /\ killSwitch \in BOOLEAN
  /\ toEnqueue \subseteq Orders
  /\ sub \in [Submitters -> SubmitterState]
  /\ trk \in [Trackers -> TrackerState]
  /\ \A w \in Submitters : sub[w].pc # "idle" => sub[w].order \in Orders
  /\ \A w \in Trackers : trk[w].pc # "idle" => trk[w].order \in Orders
  /\ recovery \in {"idle", "tracking"}
  /\ accepted \in [Orders -> Nat]
  /\ orphans \in [Orders -> Nat]
  /\ book \in [Orders -> Row]
  /\ faults \in 0..MaxFaults
  /\ recoveries \in 0..MaxRecoveries

Init ==
  /\ status = [o \in Orders |-> "NONE"]
  /\ req = [o \in Orders |-> NoRequest]
  /\ filled = [o \in Orders |-> 0]
  /\ remaining = [o \in Orders |-> 0]
  /\ brokerNo = [o \in Orders |-> "null"]
  /\ submitQ = [o \in Orders |-> 0]
  /\ trackQ = [o \in Orders |-> [a \in 0..MaxAttempts |-> 0]]
  /\ killSwitch = FALSE
  /\ toEnqueue = {}
  /\ sub = [w \in Submitters |-> IdleSubmitter]
  /\ trk = [w \in Trackers |-> IdleTracker]
  /\ recovery = "idle"
  /\ accepted = [o \in Orders |-> 0]
  /\ orphans = [o \in Orders |-> 0]
  /\ book = [o \in Orders |-> NoTicket]
  /\ faults = 0
  /\ recoveries = 0

Fault(kind) ==
  /\ kind \in FaultKinds
  /\ faults < MaxFaults
  /\ faults' = faults + 1
  /\ UNCHANGED recoveries

-----------------------------------------------------------------------------
(* The API (app/api/router_order.py, router_safety.py).                     *)

\* create_order and the commit: a PENDING row.  A dry run is never queued.
CreateRow(o, r) ==
  /\ status[o] = "NONE"
  /\ status' = [status EXCEPT ![o] = "PENDING"]
  /\ req' = [req EXCEPT ![o] = r]
  /\ remaining' = [remaining EXCEPT ![o] = r.qty]
  /\ toEnqueue' = IF r.dry THEN toEnqueue ELSE toEnqueue \cup {o}
  /\ UNCHANGED <<filled, brokerNo, queueVars, killSwitch, sub, trk, recovery,
                 brokerVars, boundVars>>

\* buy_domestic_stock and sell_domestic_stock
CreateNew(o, q, dry) ==
  CreateRow(o, [kind |-> "NEW", parent |-> NoOrder, qty |-> q, dry |-> dry])

\* validate_original_order_for_modify_cancel
CanModifyOrCancel(p) ==
  /\ req[p].kind \in {"NEW", "MODIFY"}
  /\ status[p] \in {"ACCEPTED", "PARTIAL_FILLED"}
  /\ brokerNo[p] = "number"
  /\ remaining[p] > 0

\* cancel_domestic_stock_order and revise_domestic_stock_order; the quantity is
\* compared with the original's remainder only by worker-1.
CreateChild(o, p, kind, q, dry) ==
  /\ CanModifyOrCancel(p)
  /\ CreateRow(o, [kind |-> kind, parent |-> p, qty |-> q, dry |-> dry])

\* Mutant: an order that arrives while the kill switch is on is not queued.
EnqueueUnlessKilled(o) ==
  /\ o \in toEnqueue
  /\ toEnqueue' = toEnqueue \ {o}
  /\ submitQ' = [submitQ EXCEPT ![o] = IF killSwitch THEN @ ELSE @ + 1]
  /\ UNCHANGED <<dbVars, trackQ, killSwitch, sub, trk, recovery, brokerVars, boundVars>>

\* process_order.delay after the commit
EnqueueNew(o) ==
  /\ o \in toEnqueue
  /\ toEnqueue' = toEnqueue \ {o}
  /\ submitQ' = [submitQ EXCEPT ![o] = @ + 1]
  /\ UNCHANGED <<dbVars, trackQ, killSwitch, sub, trk, recovery, brokerVars, boundVars>>

\* The API process dies between the commit and the enqueue.
ApiCrash ==
  /\ toEnqueue # {}
  /\ Fault("crash")
  /\ toEnqueue' = {}
  /\ UNCHANGED <<dbVars, queueVars, killSwitch, sub, trk, recovery, brokerVars>>

SetKillSwitch(on) ==
  /\ killSwitch' = on
  /\ UNCHANGED <<dbVars, queueVars, toEnqueue, sub, trk, recovery, brokerVars, boundVars>>

-----------------------------------------------------------------------------
(* The broker (external): what the KIS order API may do.                    *)

\* The order got an order number somebody was told.
HasTicket(o) == accepted[o] > orphans[o]

\* A modify or cancel is taken only if the original still has that remainder.
BrokerCanTake(o) ==
  req[o].kind # "NEW" => book[req[o].parent].rmn >= req[o].qty

\* What accepting o does to the book: a new ticket if the caller learns its
\* number, and a modify or cancel takes its quantity out of the original's row,
\* which a modify may or may not report as cancelled.
BookAfter(o, answered, reported) ==
  LET q == req[o].qty IN
  [x \in Orders |->
     IF x = o
     THEN IF answered THEN [rmn |-> q, cncl |-> 0, rjct |-> 0, exec |-> 0] ELSE book[x]
     ELSE IF x = req[o].parent
     THEN [book[x] EXCEPT !.rmn = @ - q, !.cncl = IF reported THEN @ + q ELSE @]
     ELSE book[x]]

BrokerTakes(o, answered, reported) ==
  /\ BrokerCanTake(o)
  /\ req[o].kind \in {"NEW", "CANCEL"} => reported
  /\ accepted' = [accepted EXCEPT ![o] = @ + 1]
  /\ orphans' = [orphans EXCEPT ![o] = IF answered THEN @ ELSE @ + 1]
  /\ book' = BookAfter(o, answered, reported)

BrokerExecutes(o) ==
  /\ HasTicket(o) /\ req[o].kind # "CANCEL"
  /\ book[o].rmn > 0
  /\ book' = [book EXCEPT ![o].rmn = @ - 1, ![o].exec = @ + 1]
  /\ UNCHANGED <<dbVars, queueVars, killSwitch, toEnqueue, sub, trk, recovery,
                 accepted, orphans, boundVars>>

\* The row of a cancel order: confirmed, reported as cancelled or as done.
BrokerConfirms(o, k, reported) ==
  /\ HasTicket(o) /\ req[o].kind = "CANCEL"
  /\ k <= book[o].rmn
  /\ book' = [book EXCEPT ![o].rmn = @ - k,
                          ![o].cncl = IF reported THEN @ + k ELSE @,
                          ![o].exec = IF reported THEN @ ELSE @ + k]
  /\ UNCHANGED <<dbVars, queueVars, killSwitch, toEnqueue, sub, trk, recovery,
                 accepted, orphans, boundVars>>

\* The exchange rejects what is left of an order.
BrokerRejects(o) ==
  /\ HasTicket(o) /\ req[o].kind # "CANCEL"
  /\ book[o].rmn > 0
  /\ book' = [book EXCEPT ![o].rmn = 0, ![o].rjct = @ + book[o].rmn]
  /\ UNCHANGED <<dbVars, queueVars, killSwitch, toEnqueue, sub, trk, recovery,
                 accepted, orphans, boundVars>>

-----------------------------------------------------------------------------
(* worker-1: process_order (app/worker/tasks_order.py).                      *)

Release(w) == sub' = [sub EXCEPT ![w] = IdleSubmitter]

\* Mutant: the compare-and-set also takes an order somebody is working on.
ClaimableIfUnsent(o) == status[o] \in {"PENDING", "PROCESSING"}

\* update_order_status with expected_current_statuses=[PENDING] matches.
Claimable(o) == status[o] = "PENDING"

\* The PENDING -> PROCESSING compare-and-set and its commit.
ClaimOrder(w, o) ==
  /\ sub[w].pc = "idle" /\ submitQ[o] > 0
  /\ Claimable(o)
  /\ submitQ' = [submitQ EXCEPT ![o] = @ - 1]
  /\ status' = [status EXCEPT ![o] = "PROCESSING"]
  /\ sub' = [sub EXCEPT ![w] = [IdleSubmitter EXCEPT !.pc = "claimed", !.order = o]]
  /\ UNCHANGED <<req, filled, remaining, brokerNo, trackQ, killSwitch, toEnqueue,
                 trk, recovery, brokerVars, boundVars>>

\* The compare-and-set matches no row: somebody else has the order.
SkipOrder(w, o) ==
  /\ sub[w].pc = "idle" /\ submitQ[o] > 0
  /\ ~Claimable(o)
  /\ submitQ' = [submitQ EXCEPT ![o] = @ - 1]
  /\ UNCHANGED <<dbVars, trackQ, killSwitch, toEnqueue, sub, trk, recovery,
                 brokerVars, boundVars>>

\* Worker-1's own checks of a modify or cancel against its original.
ChildFits(o) ==
  req[o].kind # "NEW" =>
    /\ remaining[req[o].parent] > 0
    /\ req[o].qty <= remaining[req[o].parent]

\* _check_kill_switch and the checks before the broker call all pass.
VetOrder(w) ==
  /\ sub[w].pc = "claimed"
  /\ ~killSwitch /\ ChildFits(sub[w].order)
  /\ sub' = [sub EXCEPT ![w].pc = "vetted"]
  /\ UNCHANGED <<dbVars, queueVars, killSwitch, toEnqueue, trk, recovery,
                 brokerVars, boundVars>>

\* Mutant: a failed order goes back to PENDING for another try.
GiveUpToPending(w) ==
  /\ Release(w)
  /\ status' = [status EXCEPT ![sub[w].order] = "PENDING"]
  /\ UNCHANGED <<req, filled, remaining, brokerNo, queueVars, killSwitch, toEnqueue,
                 trk, recovery>>

\* Every failure that is not a rate limit ends in a call of
\* update_order_failure_result without its expected_current_statuses: the
\* TypeError leaves the handler and the row stays PROCESSING.
GiveUp(w) ==
  /\ Release(w)
  /\ UNCHANGED <<dbVars, queueVars, killSwitch, toEnqueue, trk, recovery>>

RefuseOrder(w) ==
  /\ sub[w].pc = "claimed"
  /\ killSwitch \/ ~ChildFits(sub[w].order)
  /\ GiveUp(w)
  /\ UNCHANGED <<brokerVars, boundVars>>

\* The broker takes the order and the answer arrives (rt_cd "0").
PostAnswered(w, no, reported) ==
  /\ sub[w].pc = "vetted"
  /\ BrokerTakes(sub[w].order, TRUE, reported)
  /\ sub' = [sub EXCEPT ![w].pc = "answered", ![w].no = no]
  /\ UNCHANGED <<dbVars, queueVars, killSwitch, toEnqueue, trk, recovery, boundVars>>

\* Mutant: one post more than HTTP_RETRY_COUNT.
MayPostOnceMore(w) == sub[w].tries < HttpRetryCount

\* The retry loop has an attempt left after this one.
MayPostAgain(w) == sub[w].tries + 1 < HttpRetryCount

\* The answer is lost; the broker may have taken the order all the same.  The
\* client posts again until HTTP_RETRY_COUNT is used up.
PostTimeout(w, taken, reported) ==
  /\ sub[w].pc = "vetted"
  /\ Fault("timeout")
  /\ IF taken THEN BrokerTakes(sub[w].order, FALSE, reported)
              ELSE reported /\ UNCHANGED brokerVars
  /\ IF MayPostAgain(w)
     THEN /\ sub' = [sub EXCEPT ![w].tries = @ + 1]
          /\ UNCHANGED <<dbVars, queueVars, killSwitch, toEnqueue, trk, recovery>>
     ELSE GiveUp(w)

\* An HTTP error status.  A new order is posted again and a rate limit is
\* recognised in the last error; modify_order_by_cash raises an error without
\* payload after the first one, which is not recognised as a rate limit.
PostServerError(w, limited) ==
  /\ sub[w].pc = "vetted"
  /\ Fault("server_error")
  /\ LET last == ~MayPostAgain(w)
         new  == req[sub[w].order].kind = "NEW"
     IN  IF last /\ limited
         THEN /\ sub' = [sub EXCEPT ![w].pc = "limited"]
              /\ UNCHANGED <<dbVars, queueVars, killSwitch, toEnqueue, trk, recovery>>
         ELSE IF ~last /\ new
         THEN /\ sub' = [sub EXCEPT ![w].tries = @ + 1]
              /\ UNCHANGED <<dbVars, queueVars, killSwitch, toEnqueue, trk, recovery>>
         ELSE GiveUp(w)
  /\ UNCHANGED brokerVars

\* rt_cd # "0": the broker refuses the order.
PostRejected(w) ==
  /\ sub[w].pc = "vetted"
  /\ GiveUp(w)
  /\ UNCHANGED <<brokerVars, boundVars>>

\* rt_cd # "0" with the rate limit message.
PostLimited(w) ==
  /\ sub[w].pc = "vetted"
  /\ Fault("rate_limit")
  /\ sub' = [sub EXCEPT ![w].pc = "limited"]
  /\ UNCHANGED <<dbVars, queueVars, killSwitch, toEnqueue, trk, recovery, brokerVars>>

\* Mutant: handed back, and the retry left to somebody else.
BackOffWithoutRetry(w) ==
  /\ sub[w].pc = "limited"
  /\ GiveUpToPending(w)
  /\ UNCHANGED <<brokerVars, boundVars>>

\* PROCESSING -> PENDING and its commit; the result is not looked at.
BackOff(w) ==
  /\ sub[w].pc = "limited"
  /\ status' = [status EXCEPT ![sub[w].order] = IF @ = "PROCESSING" THEN "PENDING" ELSE @]
  /\ sub' = [sub EXCEPT ![w].pc = "requeue"]
  /\ UNCHANGED <<req, filled, remaining, brokerNo, queueVars, killSwitch, toEnqueue,
                 trk, recovery, brokerVars, boundVars>>

\* process_order.apply_async(countdown=60)
RequeueOrder(w) ==
  /\ sub[w].pc = "requeue"
  /\ submitQ' = [submitQ EXCEPT ![sub[w].order] = @ + 1]
  /\ Release(w)
  /\ UNCHANGED <<dbVars, trackQ, killSwitch, toEnqueue, trk, recovery,
                 brokerVars, boundVars>>

\* _extract_order_snapshot, the can_transition check against the status this
\* session has (PROCESSING) and update_order_submit_result, guarded by the row
\* still being PROCESSING.
RecordSubmit(w) ==
  /\ sub[w].pc = "answered"
  /\ LET o == sub[w].order
         next == IF sub[w].no = "number" THEN "ACCEPTED" ELSE "REQUESTED"
     IN  IF can_transition("PROCESSING", next) /\ status[o] = "PROCESSING"
         THEN /\ status' = [status EXCEPT ![o] = next]
              /\ brokerNo' = [brokerNo EXCEPT ![o] = sub[w].no]
              /\ remaining' = [remaining EXCEPT ![o] = req[o].qty]
              /\ sub' = [sub EXCEPT ![w].pc = "recorded"]
         ELSE Release(w) /\ UNCHANGED <<status, brokerNo, remaining>>
  /\ UNCHANGED <<req, filled, queueVars, killSwitch, toEnqueue, trk, recovery,
                 brokerVars, boundVars>>

\* process_order_status.delay
StartTracking(w) ==
  /\ sub[w].pc = "recorded"
  /\ trackQ' = [trackQ EXCEPT ![sub[w].order][0] = @ + 1]
  /\ Release(w)
  /\ UNCHANGED <<dbVars, submitQ, killSwitch, toEnqueue, trk, recovery,
                 brokerVars, boundVars>>

\* The process dies, or an unexpected exception ends the task: Celery has
\* acknowledged the message on receipt, so it is not delivered again.
SubmitterCrash(w) ==
  /\ sub[w].pc # "idle"
  /\ Fault("crash")
  /\ GiveUp(w)
  /\ UNCHANGED brokerVars

-----------------------------------------------------------------------------
(* worker-2: process_order_status (app/worker/tasks_order_status.py).        *)

Forget(w) == trk' = [trk EXCEPT ![w] = IdleTracker]

Trackable(o) == status[o] \in TRACKING_TARGET_STATUSES /\ brokerNo[o] = "number"

\* _resolve_retracking_delay: whether a poll finds the window of
\* ORDER_TRACKING_MAX_WINDOW_SECONDS over.  The first poll starts the window.
WindowOver(a) ==
  IF a = 0 THEN {FALSE} ELSE IF a = MaxAttempts THEN {TRUE} ELSE BOOLEAN

\* Take a task and load the order.
LoadOrder(w, o, a, over) ==
  /\ trk[w].pc = "idle" /\ trackQ[o][a] > 0
  /\ Trackable(o)
  /\ trackQ' = [trackQ EXCEPT ![o][a] = @ - 1]
  /\ trk' = [trk EXCEPT ![w] =
       [pc |-> "loaded", order |-> o, attempt |-> a, expired |-> over,
        seen |-> status[o], next |-> status[o], filled |-> filled[o],
        remaining |-> remaining[o], raises |-> FALSE]]
  /\ UNCHANGED <<dbVars, submitQ, killSwitch, toEnqueue, sub, recovery,
                 brokerVars, boundVars>>

\* Early returns: not a tracking target, or no broker order number.
SkipTracking(w, o, a) ==
  /\ trk[w].pc = "idle" /\ trackQ[o][a] > 0
  /\ ~Trackable(o)
  /\ trackQ' = [trackQ EXCEPT ![o][a] = @ - 1]
  /\ UNCHANGED <<dbVars, submitQ, killSwitch, toEnqueue, sub, trk, recovery,
                 brokerVars, boundVars>>

\* exists_child_orders
HasChild(o) == \E c \in Orders : status[c] # "NONE" /\ req[c].parent = o

\* The snapshot: of the matching row, or of the loaded order when the inquiry
\* does not list the order yet.  Only a CANCEL child in one of three statuses
\* goes on to its parent: without a row it misses the key order_qty, with a
\* positive delta it passes an argument update_parent_order_after_child does
\* not have.  (A MODIFY child's delta is always 0.)
Snapshot(t, listed) ==
  LET o    == t.order
      ord  == req[o].qty
      fill == RowFilled(ord, book[o])
      next == RowStatus(req[o].kind, HasChild(o), ord, book[o])
      toParent(s) == req[o].kind = "CANCEL" /\ s \in {"CANCELED", "FILLED", "PARTIAL_FILLED"}
  IN  IF listed
      THEN [t EXCEPT !.pc = "answered", !.next = next, !.filled = fill,
                     !.remaining = book[o].rmn,
                     !.raises = toParent(next)
                       /\ DeltaCancelQty(ord, book[o].rmn, book[o].rjct, fill) > 0]
      ELSE [t EXCEPT !.pc = "answered", !.raises = toParent(t.next)]

\* get_daily_order_executions and the can_transition check on its result.
QueryBroker(w, listed) ==
  /\ trk[w].pc = "loaded"
  /\ LET t == Snapshot(trk[w], listed)
     IN  trk' = [trk EXCEPT ![w] = IF can_transition(t.seen, t.next) THEN t ELSE IdleTracker]
  /\ UNCHANGED <<dbVars, queueVars, killSwitch, toEnqueue, sub, recovery,
                 brokerVars, boundVars>>

\* _is_retryable_tracking_error: _requeue_order_tracking, which drops the task
\* when the window is over.
QueryFails(w) ==
  /\ trk[w].pc = "loaded"
  /\ Fault("query_error")
  /\ IF trk[w].expired THEN Forget(w) ELSE trk' = [trk EXCEPT ![w].pc = "requeue"]
  /\ UNCHANGED <<dbVars, queueVars, killSwitch, toEnqueue, sub, recovery, brokerVars>>

\* Any other KISOrderError: update_order_failure_result.
QueryRefused(w) ==
  /\ trk[w].pc = "loaded"
  /\ Fault("query_refused")
  /\ status' = [status EXCEPT ![trk[w].order] =
                  IF @ \in TRACKING_TARGET_STATUSES THEN "FAILED" ELSE @]
  /\ Forget(w)
  /\ UNCHANGED <<req, filled, remaining, brokerNo, queueVars, killSwitch, toEnqueue,
                 sub, recovery, brokerVars>>

\* Mutant: tracking just stops when the window is over.
AfterApplyStops(t) ==
  IF t.raises \/ t.next \in TERMINAL_STATES \/ t.expired THEN IdleTracker
  ELSE [t EXCEPT !.pc = "requeue"]

\* What is left to do once the snapshot is committed.
AfterApply(t) ==
  IF t.raises \/ t.next \in TERMINAL_STATES THEN IdleTracker
  ELSE [t EXCEPT !.pc = IF t.expired THEN "expired" ELSE "requeue"]

\* update_order_tracking_result guarded by expected, and its commit.
WriteSnapshot(t, expected, next) ==
  IF status[t.order] \in expected
  THEN /\ status' = [status EXCEPT ![t.order] = next]
       /\ filled' = [filled EXCEPT ![t.order] = t.filled]
       /\ remaining' = [remaining EXCEPT ![t.order] = t.remaining]
  ELSE UNCHANGED <<status, filled, remaining>>

ApplySnapshot(w) ==
  /\ trk[w].pc = "answered"
  /\ LET t == trk[w]
         expected == ExpectedStatuses(t.seen)
     IN  /\ WriteSnapshot(t, expected, t.next)
         /\ trk' = [trk EXCEPT ![w] =
                      IF status[t.order] \in expected THEN AfterApply(t) ELSE IdleTracker]
  /\ UNCHANGED <<req, brokerNo, queueVars, killSwitch, toEnqueue, sub, recovery,
                 brokerVars, boundVars>>

\* Mutant: TIMEOUT is written whatever the row says by now.
TimeOutAnyway(w) ==
  /\ trk[w].pc = "expired"
  /\ WriteSnapshot(trk[w], ORDER_STATUS, "TIMEOUT")
  /\ Forget(w)
  /\ UNCHANGED <<req, brokerNo, queueVars, killSwitch, toEnqueue, sub, recovery,
                 brokerVars, boundVars>>

\* The window is over: TIMEOUT.  The cancel order for the remainder is never
\* created: `uuid' is celery's function, uuid.uuid4 raises, the error is logged.
TimeOutOrder(w) ==
  /\ trk[w].pc = "expired"
  /\ WriteSnapshot(trk[w], TRACKING_TARGET_STATUSES, "TIMEOUT")
  /\ Forget(w)
  /\ UNCHANGED <<req, brokerNo, queueVars, killSwitch, toEnqueue, sub, recovery,
                 brokerVars, boundVars>>

\* Mutant: attempt and first_tracked_at are not passed on.
RequeueAfresh(w) ==
  /\ trk[w].pc = "requeue"
  /\ trackQ' = [trackQ EXCEPT ![trk[w].order][0] = @ + 1]
  /\ Forget(w)
  /\ UNCHANGED <<dbVars, submitQ, killSwitch, toEnqueue, sub, recovery,
                 brokerVars, boundVars>>

\* process_order_status.apply_async with attempt + 1
RequeueTracking(w) ==
  /\ trk[w].pc = "requeue"
  /\ trackQ' = [trackQ EXCEPT ![trk[w].order][trk[w].attempt + 1] = @ + 1]
  /\ Forget(w)
  /\ UNCHANGED <<dbVars, submitQ, killSwitch, toEnqueue, sub, recovery,
                 brokerVars, boundVars>>

TrackerCrash(w) ==
  /\ trk[w].pc # "idle"
  /\ Fault("crash")
  /\ Forget(w)
  /\ UNCHANGED <<dbVars, queueVars, killSwitch, toEnqueue, sub, recovery, brokerVars>>

-----------------------------------------------------------------------------
(* worker-3: recover_all_orders (app/worker/recovery.py), one at a time      *)
(* under its lock.                                                           *)

\* get_recoverable_submit_orders: every PENDING row.
RecoverSubmitOrders ==
  /\ recovery = "idle"
  /\ recoveries < MaxRecoveries
  /\ recoveries' = recoveries + 1
  /\ submitQ' = [o \in Orders |-> submitQ[o] + IF status[o] = "PENDING" THEN 1 ELSE 0]
  /\ recovery' = "tracking"
  /\ UNCHANGED <<dbVars, trackQ, killSwitch, toEnqueue, sub, trk, brokerVars, faults>>

\* get_recoverable_tracking_orders: tracking statuses with a non-NULL number.
RecoverTrackingOrders ==
  /\ recovery = "tracking"
  /\ trackQ' = [o \in Orders |-> [a \in 0..MaxAttempts |-> trackQ[o][a] +
       IF a = 0 /\ status[o] \in TRACKING_TARGET_STATUSES /\ brokerNo[o] # "null"
       THEN 1 ELSE 0]]
  /\ recovery' = "idle"
  /\ UNCHANGED <<dbVars, submitQ, killSwitch, toEnqueue, sub, trk, brokerVars, boundVars>>

-----------------------------------------------------------------------------
Api ==
  \/ \E o \in Orders, q \in Quantities, dry \in BOOLEAN : CreateNew(o, q, dry)
  \/ \E o, p \in Orders, kind \in {"MODIFY", "CANCEL"}, q \in Quantities, dry \in BOOLEAN :
       CreateChild(o, p, kind, q, dry)
  \/ \E o \in Orders : EnqueueNew(o)
  \/ \E on \in BOOLEAN : SetKillSwitch(on)
  \/ ApiCrash

Broker ==
  \E o \in Orders :
    \/ BrokerExecutes(o)
    \/ \E k \in 1..book[o].rmn, reported \in BOOLEAN : BrokerConfirms(o, k, reported)
    \/ BrokerRejects(o)

\* The steps a running worker-1 process takes by itself.
SubmitterStep(w) ==
  \/ \E o \in Orders : ClaimOrder(w, o) \/ SkipOrder(w, o)
  \/ VetOrder(w) \/ RefuseOrder(w)
  \/ \E no \in {"empty", "number"}, reported \in BOOLEAN : PostAnswered(w, no, reported)
  \/ PostRejected(w)
  \/ BackOff(w) \/ RequeueOrder(w)
  \/ RecordSubmit(w) \/ StartTracking(w)

SubmitterFault(w) ==
  \/ \E taken, reported \in BOOLEAN : PostTimeout(w, taken, reported)
  \/ \E limited \in BOOLEAN : PostServerError(w, limited)
  \/ PostLimited(w)
  \/ SubmitterCrash(w)

\* The steps a running worker-2 process takes by itself.
TrackerStep(w) ==
  \/ \E o \in Orders, a \in 0..MaxAttempts :
       \/ \E over \in WindowOver(a) : LoadOrder(w, o, a, over)
       \/ SkipTracking(w, o, a)
  \/ \E listed \in BOOLEAN : QueryBroker(w, listed)
  \/ ApplySnapshot(w) \/ TimeOutOrder(w) \/ RequeueTracking(w)

TrackerFault(w) == QueryFails(w) \/ QueryRefused(w) \/ TrackerCrash(w)

Recovery == RecoverSubmitOrders \/ RecoverTrackingOrders

Next ==
  \/ Api
  \/ Broker
  \/ \E w \in Submitters : SubmitterStep(w) \/ SubmitterFault(w)
  \/ \E w \in Trackers : TrackerStep(w) \/ TrackerFault(w)
  \/ Recovery

Spec == Init /\ [][Next]_vars

\* A running worker takes its next step, a request that has committed queues
\* its order, and a recovery that has begun is finished.  Nothing is assumed of
\* clients, the broker's book, the kill switch, failures or restarts.
Fairness ==
  /\ \A w \in Submitters : WF_vars(SubmitterStep(w))
  /\ \A w \in Trackers : WF_vars(TrackerStep(w))
  /\ \A o \in Orders : WF_vars(EnqueueNew(o))
  /\ WF_vars(RecoverTrackingOrders)

FairSpec == Spec /\ Fairness

-----------------------------------------------------------------------------
(* Properties.                                                               *)

\* The stages of process_order between its two compare-and-sets.
Holding == {"claimed", "vetted", "answered", "limited"}

\* At most one worker-1 process is between claiming an order and recording or
\* handing it back, and meanwhile nobody else moves its row: duplicated tasks,
\* rate-limit retries and recoveries are all caught by the compare-and-set on
\* PENDING (update_order_status).
SubmissionExclusive ==
  /\ \A w \in Submitters : sub[w].pc \in Holding => status[sub[w].order] = "PROCESSING"
  /\ \A v, w \in Submitters :
       v # w /\ sub[v].pc \in Holding /\ sub[w].pc \in Holding => sub[v].order # sub[w].order

\* The broker tells the system at most one number per order: an order posted
\* again after a rate limit, a crash or a recovery never ends up with two
\* tickets, except through answers lost on the way (orphans).
OneAnsweredSubmission == \A o \in Orders : accepted[o] <= orphans[o] + 1

\* No step changes the status of a FILLED, CANCELED, FAILED or TIMEOUT order:
\* the guarded updates of worker-2 hold against trackers with stale snapshots.
TerminalIsFinal ==
  [][\A o \in Orders : status[o] \in TERMINAL_STATES => status'[o] = status[o]]_vars

\* The row of a new order whose quantity no modify has moved never claims more
\* than the broker executed, is FILLED only if all of it was, and its filled
\* and remaining quantities never add up to more than was ordered.
NotMoved(o) == \A c \in Orders : req[c].parent = o => req[c].kind # "MODIFY"
LedgerSound ==
  \A o \in Orders : req[o].kind = "NEW" /\ NotMoved(o) =>
    /\ filled[o] <= book[o].exec
    /\ status[o] = "FILLED" => book[o].exec = req[o].qty
    /\ filled[o] + remaining[o] <= req[o].qty

\* No row hides quantity that can still trade: remaining_qty is at least what is
\* open at the broker, and an order recorded as FILLED or CANCELED has nothing
\* open there.  The rows of originals with modify or cancel children, and of
\* the children themselves, are read by different rules of worker-2.
NoHiddenRemainder ==
  \A o \in Orders : HasTicket(o) =>
    /\ book[o].rmn <= remaining[o]
    /\ status[o] \in {"FILLED", "CANCELED"} => book[o].rmn = 0

\* If no process dies, a PENDING order that is not a dry run has a task, or
\* somebody about to queue one: no path between commit and enqueue loses it.
PendingOrderIsQueued ==
  "crash" \notin FaultKinds =>
    \A o \in Orders : status[o] = "PENDING" /\ ~req[o].dry =>
      \/ o \in toEnqueue
      \/ submitQ[o] > 0
      \/ \E w \in Submitters : sub[w].pc = "requeue" /\ sub[w].order = o

\* If no process dies and no inquiry fails, an open order with a number has a
\* tracking chain: a queued task or a worker that will queue one or close the
\* order.  Trackers whose compare-and-set fails may drop theirs, because the
\* one that moved the row keeps its own.  (A CANCEL order's chain can raise.)
LiveOrderIsTracked ==
  FaultKinds \cap {"crash", "query_error"} = {} =>
    \A o \in Orders : Trackable(o) /\ req[o].kind # "CANCEL" =>
      \/ \E w \in Submitters : sub[w].pc = "recorded" /\ sub[w].order = o
      \/ \E a \in 0..MaxAttempts : trackQ[o][a] > 0
      \/ \E w \in Trackers : trk[w].order = o

\* Without crashes every order that is not a dry run leaves PENDING, however
\* often the broker's rate limit hands it back.
QueuedOrderIsClaimed ==
  \A o \in Orders : status[o] = "PENDING" /\ ~req[o].dry ~> status[o] = "PROCESSING"

\* Without crashes and failing inquiries every open new or modify order reaches
\* a terminal status, at the latest when the 30 minute window is over.
LiveOrderSettles ==
  \A o \in Orders : Trackable(o) /\ req[o].kind # "CANCEL" ~> status[o] \in TERMINAL_STATES

\* The pipeline implements OrderLifecycle: REQUESTED, ACCEPTED and
\* PARTIAL_FILLED are one phase, and a number is one the system was told.
Phase(s) ==
  CASE s = "NONE"                       -> "absent"
    [] s = "PENDING"                    -> "queued"
    [] s = "PROCESSING"                 -> "claimed"
    [] s \in TRACKING_TARGET_STATUSES   -> "working"
    [] s \in TERMINAL_STATES            -> "closed"

Lifecycle == INSTANCE OrderLifecycle WITH
  phase    <- [o \in Orders |-> Phase(status[o])],
  numbered <- [o \in Orders |-> HasTicket(o)]

RefinesLifecycle == Lifecycle!Spec

-----------------------------------------------------------------------------
(* What the documentation or a comment says and the code does not do.        *)

\* README.md: the status machine is followed strictly and a wrong transition is
\* blocked.  Every change of a status is one ALLOWED_TRANSITIONS lists.
LegalTransitions ==
  [][\A o \in Orders : status'[o] # status[o] /\ status[o] # "NONE"
       => can_transition(status[o], status'[o])]_vars

\* router_order.py: a dry run creates the row and is not submitted.
DryRunStaysHome == \A o \in Orders : req[o].dry => accepted[o] = 0

\* tasks_order.py: a failed submission is recorded as FAILED.  So unless a
\* process dies an order is PROCESSING only while a submitter works on it.
ProcessingHasWorker ==
  "crash" \notin FaultKinds =>
    \A o \in Orders : status[o] = "PROCESSING" =>
      \E w \in Submitters : sub[w].pc \in Holding /\ sub[w].order = o

\* tasks_order_status.py: a timed out order's remainder is cancelled.
TimeoutCancelsRemainder ==
  \A o \in Orders : status[o] = "TIMEOUT" /\ remaining[o] > 0 ~>
    \E c \in Orders : req[c].parent = o /\ req[c].kind = "CANCEL"
=============================================================================
