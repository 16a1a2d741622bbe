------------------------ MODULE OrderPipelineProofs ------------------------
(***************************************************************************)
(* Proofs about OrderPipeline for any number of orders, worker processes,  *)
(* failures and restarts.                                                  *)
(***************************************************************************)
EXTENDS OrderPipeline, TLAPS

-----------------------------------------------------------------------------
(* The operators of TrackingRules.                                          *)

\* The statuses worker-2 can read off a row of the inquiry.
BrokerStatuses == TRACKING_TARGET_STATUSES \cup TERMINAL_STATES

\* _extract_order_tracking_snapshot computes a status of an order the broker has
\* and a filled quantity that is never negative, for any row of the inquiry.
LEMMA RowTypes ==
  ASSUME NEW ord \in Nat, NEW row \in Row
  PROVE  /\ RowFilled(ord, row) \in Nat
         /\ \A kind, child : RowStatus(kind, child, ord, row) \in BrokerStatuses
<1>1. RowFilled(ord, row) \in Nat
  BY DEF RowFilled, AtLeastZero, Row
<1>2. LeafStatus(ord, row) \in BrokerStatuses
  <2>1. row.rmn \in Nat
    BY DEF Row
  <2>2. CASE row.rmn > 0
    BY <2>1, <2>2 DEF LeafStatus, BrokerStatuses, TRACKING_TARGET_STATUSES, TERMINAL_STATES
  <2>3. CASE row.rmn = 0
    BY <2>3 DEF LeafStatus, BrokerStatuses, TRACKING_TARGET_STATUSES, TERMINAL_STATES
  <2> QED
    BY <2>1, <2>2, <2>3
<1>3. ParentStatus(ord, RowFilled(ord, row), row.rmn) \in BrokerStatuses
  BY DEF ParentStatus, BrokerStatuses, TRACKING_TARGET_STATUSES, TERMINAL_STATES
<1> QED
  BY <1>1, <1>2, <1>3 DEF RowStatus

\* The quantity of a request is a natural number, positive once it has a parent,
\* and only a modify or cancel order has one.
LEMMA RequestTypes ==
  ASSUME NEW r \in Request
  PROVE  /\ r.qty \in Nat
         /\ r.kind \in {"NEW", "MODIFY", "CANCEL"}
         /\ r.kind = "NEW" => r.parent = NoOrder
         /\ r.kind # "NEW" => r.parent \in Orders
  BY DEF Request

-----------------------------------------------------------------------------
(* Type correctness.                                                        *)

\* The idle records are well typed.
LEMMA IdleTypes == IdleSubmitter \in SubmitterState /\ IdleTracker \in TrackerState
  BY BoundsAssumption
  DEF IdleSubmitter, SubmitterState, IdleTracker, TrackerState, BrokerNos, ORDER_STATUS,
      TRACKING_TARGET_STATUSES, TERMINAL_STATES, BoundsAssumption

\* The initial state is well typed: empty tables, empty queues, idle workers.
LEMMA TypeInit == Init => TypeOK
<1> SUFFICES ASSUME Init PROVE TypeOK
  OBVIOUS
<1>1. sub \in [Submitters -> SubmitterState] /\ trk \in [Trackers -> TrackerState]
  BY IdleTypes DEF Init
<1>2. req \in [Orders -> Request]
  BY DEF Init, NoRequest, Request
<1>3. book \in [Orders -> Row]
  BY DEF Init, NoTicket, Row
<1>4. faults \in 0..MaxFaults /\ recoveries \in 0..MaxRecoveries
  BY BoundsAssumption DEF Init, BoundsAssumption
<1>5. brokerNo \in [Orders -> BrokerNos]
  BY DEF Init, BrokerNos
<1> QED
  BY <1>1, <1>2, <1>3, <1>4, <1>5 DEF Init, TypeOK, IdleSubmitter, IdleTracker

\* One more failure stays within the bound.
LEMMA FaultType ==
  ASSUME TypeOK, NEW kind, Fault(kind)
  PROVE  faults' \in 0..MaxFaults /\ recoveries' \in 0..MaxRecoveries
  BY BoundsAssumption DEF TypeOK, Fault, BoundsAssumption

\* The API keeps the types: a created row is a PENDING row with a request.
LEMMA ApiType == TypeOK /\ Api => TypeOK'
<1> SUFFICES ASSUME TypeOK, Api PROVE TypeOK'
  OBVIOUS
<1>1. ASSUME NEW o \in Orders, NEW r \in Request, CreateRow(o, r) PROVE TypeOK'
  BY <1>1, RequestTypes
  DEF TypeOK, CreateRow, ORDER_STATUS, queueVars, brokerVars, boundVars
<1>2. ASSUME NEW o \in Orders, NEW q \in Quantities, NEW dry \in BOOLEAN,
             CreateNew(o, q, dry)
      PROVE  TypeOK'
  <2>1. [kind |-> "NEW", parent |-> NoOrder, qty |-> q, dry |-> dry] \in Request
    BY QuantitiesAssumption DEF Request, QuantitiesAssumption
  <2> QED
    BY <1>1, <1>2, <2>1 DEF CreateNew
<1>3. ASSUME NEW o \in Orders, NEW p \in Orders, NEW kind \in {"MODIFY", "CANCEL"},
             NEW q \in Quantities, NEW dry \in BOOLEAN, CreateChild(o, p, kind, q, dry)
      PROVE  TypeOK'
  <2>1. [kind |-> kind, parent |-> p, qty |-> q, dry |-> dry] \in Request
    BY QuantitiesAssumption DEF Request, QuantitiesAssumption
  <2> QED
    BY <1>1, <1>3, <2>1 DEF CreateChild
<1>4. ASSUME NEW o \in Orders, EnqueueNew(o) PROVE TypeOK'
  BY <1>4 DEF TypeOK, EnqueueNew, dbVars, brokerVars, boundVars
<1>5. ASSUME NEW on \in BOOLEAN, SetKillSwitch(on) PROVE TypeOK'
  BY <1>5 DEF TypeOK, SetKillSwitch, dbVars, queueVars, brokerVars, boundVars
<1>6. CASE ApiCrash
  BY <1>6, FaultType DEF TypeOK, ApiCrash, dbVars, queueVars, brokerVars
<1> QED
  BY <1>2, <1>3, <1>4, <1>5, <1>6 DEF Api

\* The broker moves quantity it has: no row of its book becomes negative.
LEMMA BrokerType == TypeOK /\ Broker => TypeOK'
<1> SUFFICES ASSUME TypeOK, Broker PROVE TypeOK'
  OBVIOUS
<1>1. ASSUME NEW o \in Orders, BrokerExecutes(o) PROVE TypeOK'
  <2>1. book[o] \in Row /\ book[o].rmn - 1 \in Nat /\ book[o].exec + 1 \in Nat
    BY <1>1 DEF TypeOK, Row, BrokerExecutes
  <2>2. [book[o] EXCEPT !.rmn = @ - 1, !.exec = @ + 1] \in Row
    BY <2>1 DEF Row
  <2>3. book' = [book EXCEPT ![o] = [book[o] EXCEPT !.rmn = @ - 1, !.exec = @ + 1]]
    BY <1>1 DEF BrokerExecutes, TypeOK
  <2>4. book' \in [Orders -> Row]
    BY <2>2, <2>3 DEF TypeOK
  <2> QED
    BY <1>1, <2>4 DEF TypeOK, BrokerExecutes, dbVars, queueVars, boundVars
<1>2. ASSUME NEW o \in Orders, NEW k \in 1..book[o].rmn, NEW reported \in BOOLEAN,
             BrokerConfirms(o, k, reported)
      PROVE  TypeOK'
  <2> DEFINE cncl == IF reported THEN book[o].cncl + k ELSE book[o].cncl
             exec == IF reported THEN book[o].exec ELSE book[o].exec + k
             row == [book[o] EXCEPT !.rmn = book[o].rmn - k, !.cncl = cncl, !.exec = exec]
  <2>1. /\ book[o] \in Row /\ book[o].rmn - k \in Nat
        /\ cncl \in Nat /\ exec \in Nat
    <3>1. book[o] \in Row
      BY DEF TypeOK
    <3>2. book[o].rmn \in Nat /\ book[o].cncl \in Nat /\ book[o].exec \in Nat /\ k \in Nat
      BY <3>1 DEF Row
    <3> QED
      BY <1>2, <3>1, <3>2 DEF BrokerConfirms
  <2>2. row \in Row
    <3> HIDE DEF cncl, exec
    <3> QED BY <2>1 DEF Row
  <2>3. book' = [book EXCEPT ![o] = row]
    BY <1>2 DEF BrokerConfirms, TypeOK
  <2>4. book' \in [Orders -> Row]
    BY <2>2, <2>3 DEF TypeOK
  <2> QED
    BY <1>2, <2>4 DEF TypeOK, BrokerConfirms, dbVars, queueVars, boundVars
<1>3. ASSUME NEW o \in Orders, BrokerRejects(o) PROVE TypeOK'
  <2>1. book[o] \in Row /\ book[o].rjct + book[o].rmn \in Nat
    BY DEF TypeOK, Row
  <2>2. [book[o] EXCEPT !.rmn = 0, !.rjct = @ + book[o].rmn] \in Row
    BY <2>1 DEF Row
  <2>3. book' = [book EXCEPT ![o] = [book[o] EXCEPT !.rmn = 0, !.rjct = @ + book[o].rmn]]
    BY <1>3 DEF BrokerRejects, TypeOK
  <2>4. book' \in [Orders -> Row]
    BY <2>2, <2>3 DEF TypeOK
  <2> QED
    BY <1>3, <2>4 DEF TypeOK, BrokerRejects, dbVars, queueVars, boundVars
<1> QED
  BY <1>1, <1>2, <1>3 DEF Broker

\* Whatever the broker takes out of the original's row was in it.
LEMMA BrokerTakesType ==
  ASSUME TypeOK, NEW o \in Orders, NEW answered \in BOOLEAN, NEW reported \in BOOLEAN,
         BrokerTakes(o, answered, reported)
  PROVE  /\ accepted' \in [Orders -> Nat]
         /\ orphans' \in [Orders -> Nat]
         /\ book' \in [Orders -> Row]
<1>1. req[o] \in Request
  BY DEF TypeOK
<1>2. ASSUME NEW x \in Orders PROVE book'[x] \in Row
  <2>1. /\ book[x] \in Row /\ book[x].rmn \in Nat /\ book[x].cncl \in Nat
        /\ req[o].qty \in Nat
    BY <1>1, RequestTypes DEF TypeOK, Row
  <2>2. x = req[o].parent => book[x].rmn >= req[o].qty
    BY <1>1, RequestTypes, OrdersAssumption DEF OrdersAssumption, BrokerTakes, BrokerCanTake
  <2>3. CASE x = o
    BY <2>1, <2>3 DEF BrokerTakes, BookAfter, Row
  <2>4. CASE x # o /\ x = req[o].parent
    <3> DEFINE cncl == IF reported THEN book[x].cncl + req[o].qty ELSE book[x].cncl
    <3>1. book[x].rmn - req[o].qty \in Nat /\ cncl \in Nat
      BY <2>1, <2>2, <2>4
    <3>2. [book[x] EXCEPT !.rmn = book[x].rmn - req[o].qty, !.cncl = cncl] \in Row
      <4> HIDE DEF cncl
      <4> QED BY <2>1, <3>1 DEF Row
    <3> QED
      BY <2>4, <3>2 DEF BrokerTakes, BookAfter
  <2>5. CASE x # o /\ x # req[o].parent
    BY <2>1, <2>5 DEF BrokerTakes, BookAfter
  <2> QED
    BY <2>3, <2>4, <2>5
<1>3. book' = BookAfter(o, answered, reported)
  BY DEF BrokerTakes
<1>4. book' \in [Orders -> Row]
  BY <1>2, <1>3 DEF BookAfter
<1>5. accepted' \in [Orders -> Nat]
  BY DEF TypeOK, BrokerTakes
<1>6. orphans' \in [Orders -> Nat]
  BY DEF TypeOK, BrokerTakes
<1> QED
  BY <1>4, <1>5, <1>6

\* Putting a tracking task in the queue, and taking one out of it.
LEMMA TrackQType ==
  ASSUME TypeOK, NEW o \in Orders, NEW a \in Int
  PROVE  /\ [trackQ EXCEPT ![o][a] = @ + 1] \in [Orders -> [0..MaxAttempts -> Nat]]
         /\ a \in 0..MaxAttempts /\ trackQ[o][a] > 0 =>
              [trackQ EXCEPT ![o][a] = @ - 1] \in [Orders -> [0..MaxAttempts -> Nat]]
<1>1. trackQ[o] \in [0..MaxAttempts -> Nat]
  BY DEF TypeOK
<1>2. [trackQ[o] EXCEPT ![a] = @ + 1] \in [0..MaxAttempts -> Nat]
  <2>1. CASE a \in 0..MaxAttempts
    <3>1. trackQ[o][a] \in Nat
      BY <1>1, <2>1
    <3>2. trackQ[o][a] + 1 \in Nat
      BY <3>1
    <3> QED
      BY <1>1, <3>2
  <2>2. CASE a \notin 0..MaxAttempts
    BY <1>1, <2>2
  <2> QED
    BY <2>1, <2>2
<1>3. ASSUME a \in 0..MaxAttempts, trackQ[o][a] > 0
      PROVE  [trackQ[o] EXCEPT ![a] = @ - 1] \in [0..MaxAttempts -> Nat]
  <2>1. trackQ[o][a] - 1 \in Nat
    <3>1. trackQ[o][a] \in Nat
      BY <1>1, <1>3
    <3> QED
      BY <1>3, <3>1
  <2> QED
    BY <1>1, <2>1
<1> QED
  BY <1>2, <1>3 DEF TypeOK

\* The part of TypeOK about worker-1 processes, and how their steps keep it: a
\* process is released, moves on with its order, or takes one.
SubTypeOK ==
  /\ sub \in [Submitters -> SubmitterState]
  /\ \A w \in Submitters : sub[w].pc # "idle" => sub[w].order \in Orders

\* A worker-1 process takes on a well-typed record, with an order unless it is idle.
LEMMA SubTypes ==
  ASSUME SubTypeOK, NEW w \in Submitters
  PROVE  /\ Release(w) => SubTypeOK'
         /\ \A o \in Orders :
              sub' = [sub EXCEPT ![w] = [IdleSubmitter EXCEPT !.pc = "claimed", !.order = o]]
              => SubTypeOK'
         /\ \A pc \in {"vetted", "limited", "requeue", "recorded"} :
              sub[w].pc # "idle" /\ sub' = [sub EXCEPT ![w].pc = pc] => SubTypeOK'
         /\ \A no \in {"empty", "number"} :
              sub[w].pc # "idle" /\ sub' = [sub EXCEPT ![w].pc = "answered", ![w].no = no]
              => SubTypeOK'
         /\ MayPostAgain(w) /\ sub' = [sub EXCEPT ![w].tries = @ + 1] => SubTypeOK'
<1>1. sub[w] \in SubmitterState /\ IdleSubmitter \in SubmitterState
  BY IdleTypes DEF SubTypeOK
<1>2. Release(w) => SubTypeOK'
  BY <1>1 DEF SubTypeOK, Release, IdleSubmitter
<1>3. ASSUME NEW o \in Orders,
             sub' = [sub EXCEPT ![w] = [IdleSubmitter EXCEPT !.pc = "claimed", !.order = o]]
      PROVE  SubTypeOK'
  <2>1. [IdleSubmitter EXCEPT !.pc = "claimed", !.order = o] \in SubmitterState
    BY <1>1 DEF SubmitterState
  <2> QED
    BY <1>3, <2>1 DEF SubTypeOK, IdleSubmitter
<1>4. ASSUME NEW pc \in {"vetted", "limited", "requeue", "recorded"},
             sub[w].pc # "idle", sub' = [sub EXCEPT ![w].pc = pc]
      PROVE  SubTypeOK'
  BY <1>1, <1>4 DEF SubTypeOK, SubmitterState
<1>5. ASSUME NEW no \in {"empty", "number"}, sub[w].pc # "idle",
             sub' = [sub EXCEPT ![w].pc = "answered", ![w].no = no]
      PROVE  SubTypeOK'
  BY <1>1, <1>5 DEF SubTypeOK, SubmitterState, BrokerNos
<1>6. ASSUME MayPostAgain(w), sub' = [sub EXCEPT ![w].tries = @ + 1]
      PROVE  SubTypeOK'
  <2>1. sub[w].tries + 1 \in 0..(HttpRetryCount - 1)
    BY <1>1, <1>6, BoundsAssumption DEF MayPostAgain, SubmitterState, BoundsAssumption
  <2> QED
    BY <1>1, <1>6, <2>1 DEF SubTypeOK, SubmitterState
<1> QED
  BY <1>2, <1>3, <1>4, <1>5, <1>6

\* Worker-1 keeps the types; the retry loop stays below HTTP_RETRY_COUNT.
LEMMA SubmitterType ==
  ASSUME TypeOK, NEW w \in Submitters, SubmitterStep(w) \/ SubmitterFault(w)
  PROVE  TypeOK'
<1>1. SubTypeOK /\ (sub[w].pc # "idle" => sub[w].order \in Orders)
  BY DEF TypeOK, SubTypeOK
<1>2. ASSUME NEW o \in Orders, ClaimOrder(w, o) PROVE TypeOK'
  <2>1. SubTypeOK'
    BY <1>1, <1>2, SubTypes DEF ClaimOrder
  <2>2. submitQ' \in [Orders -> Nat] /\ status' \in [Orders -> ORDER_STATUS \cup {"NONE"}]
    BY <1>2 DEF ClaimOrder, TypeOK, ORDER_STATUS
  <2> QED
    BY <1>2, <2>1, <2>2 DEF TypeOK, SubTypeOK, ClaimOrder, brokerVars, boundVars
<1>3. ASSUME NEW o \in Orders, SkipOrder(w, o) PROVE TypeOK'
  BY <1>3 DEF TypeOK, SkipOrder, dbVars, brokerVars, boundVars
<1>4. CASE VetOrder(w)
  <2>1. SubTypeOK'
    BY <1>1, <1>4, SubTypes DEF VetOrder
  <2> QED
    BY <1>4, <2>1 DEF TypeOK, SubTypeOK, VetOrder, dbVars, queueVars, brokerVars, boundVars
<1>5. ASSUME GiveUp(w), UNCHANGED brokerVars,
             faults' \in 0..MaxFaults, recoveries' \in 0..MaxRecoveries
      PROVE  TypeOK'
  <2>1. SubTypeOK'
    BY <1>1, <1>5, SubTypes DEF GiveUp
  <2> QED
    BY <1>5, <2>1 DEF TypeOK, SubTypeOK, GiveUp, dbVars, queueVars, brokerVars
<1>6. CASE RefuseOrder(w) \/ PostRejected(w)
  BY <1>5, <1>6 DEF RefuseOrder, PostRejected, TypeOK, boundVars
<1>7. CASE SubmitterCrash(w)
  BY <1>5, <1>7, FaultType DEF SubmitterCrash
<1>8. ASSUME NEW no \in {"empty", "number"}, NEW reported \in BOOLEAN,
             PostAnswered(w, no, reported)
      PROVE  TypeOK'
  <2>1. SubTypeOK'
    BY <1>1, <1>8, SubTypes DEF PostAnswered
  <2>2. sub[w].order \in Orders /\ BrokerTakes(sub[w].order, TRUE, reported)
    BY <1>1, <1>8 DEF PostAnswered
  <2>3. accepted' \in [Orders -> Nat] /\ orphans' \in [Orders -> Nat] /\ book' \in [Orders -> Row]
    BY <2>2, BrokerTakesType
  <2> QED
    BY <1>8, <2>1, <2>3 DEF TypeOK, SubTypeOK, PostAnswered, dbVars, queueVars, boundVars
<1>9. ASSUME NEW taken \in BOOLEAN, NEW reported \in BOOLEAN, PostTimeout(w, taken, reported)
      PROVE  TypeOK'
  <2>1. accepted' \in [Orders -> Nat] /\ orphans' \in [Orders -> Nat] /\ book' \in [Orders -> Row]
    <3>1. CASE taken
      <4>1. sub[w].order \in Orders /\ BrokerTakes(sub[w].order, FALSE, reported)
        BY <1>1, <1>9, <3>1 DEF PostTimeout
      <4> QED
        BY <4>1, BrokerTakesType
    <3>2. CASE ~taken
      BY <1>9, <3>2 DEF PostTimeout, TypeOK, brokerVars
    <3> QED
      BY <3>1, <3>2
  <2>2. SubTypeOK'
    BY <1>1, <1>9, SubTypes DEF PostTimeout, GiveUp
  <2>3. faults' \in 0..MaxFaults /\ recoveries' \in 0..MaxRecoveries
    BY <1>9, FaultType DEF PostTimeout
  <2>4. UNCHANGED <<dbVars, queueVars, killSwitch, toEnqueue, trk, recovery>>
    BY <1>9 DEF PostTimeout, GiveUp
  <2> QED
    BY <2>1, <2>2, <2>3, <2>4 DEF TypeOK, SubTypeOK, dbVars, queueVars
<1>10. ASSUME NEW limited \in BOOLEAN, PostServerError(w, limited) PROVE TypeOK'
  <2>1. SubTypeOK'
    BY <1>1, <1>10, SubTypes DEF PostServerError, GiveUp
  <2>2. faults' \in 0..MaxFaults /\ recoveries' \in 0..MaxRecoveries
    BY <1>10, FaultType DEF PostServerError
  <2>3. UNCHANGED <<dbVars, queueVars, killSwitch, toEnqueue, trk, recovery, brokerVars>>
    BY <1>10 DEF PostServerError, GiveUp
  <2> QED
    BY <2>1, <2>2, <2>3 DEF TypeOK, SubTypeOK, dbVars, queueVars, brokerVars
<1>11. CASE PostLimited(w)
  <2>1. SubTypeOK'
    BY <1>1, <1>11, SubTypes DEF PostLimited
  <2>2. faults' \in 0..MaxFaults /\ recoveries' \in 0..MaxRecoveries
    BY <1>11, FaultType DEF PostLimited
  <2> QED
    BY <1>11, <2>1, <2>2 DEF TypeOK, SubTypeOK, PostLimited, dbVars, queueVars, brokerVars
<1>12. CASE BackOff(w)
  <2>1. SubTypeOK'
    BY <1>1, <1>12, SubTypes DEF BackOff
  <2>2. status' \in [Orders -> ORDER_STATUS \cup {"NONE"}]
    BY <1>12 DEF BackOff, TypeOK, ORDER_STATUS
  <2> QED
    BY <1>12, <2>1, <2>2 DEF TypeOK, SubTypeOK, BackOff, queueVars, brokerVars, boundVars
<1>13. CASE RequeueOrder(w)
  <2>1. SubTypeOK'
    BY <1>1, <1>13, SubTypes DEF RequeueOrder
  <2>2. submitQ' \in [Orders -> Nat]
    BY <1>13 DEF RequeueOrder, TypeOK
  <2> QED
    BY <1>13, <2>1, <2>2 DEF TypeOK, SubTypeOK, RequeueOrder, dbVars, brokerVars, boundVars
<1>14. CASE RecordSubmit(w)
  <2>1. SubTypeOK'
    BY <1>1, <1>14, SubTypes DEF RecordSubmit
  <2>2. status' \in [Orders -> ORDER_STATUS \cup {"NONE"}]
    BY <1>14 DEF RecordSubmit, TypeOK, ORDER_STATUS, TRACKING_TARGET_STATUSES
  <2>3. brokerNo' \in [Orders -> BrokerNos]
    BY <1>14 DEF RecordSubmit, TypeOK, SubmitterState
  <2>4. remaining' \in [Orders -> Nat]
    <3>1. sub[w].order \in Orders /\ req[sub[w].order] \in Request
      BY <1>1, <1>14 DEF RecordSubmit, TypeOK
    <3>2. req[sub[w].order].qty \in Nat
      BY <3>1, RequestTypes
    <3> QED
      BY <1>14, <3>2 DEF RecordSubmit, TypeOK
  <2> QED
    BY <1>14, <2>1, <2>2, <2>3, <2>4
    DEF TypeOK, SubTypeOK, RecordSubmit, queueVars, brokerVars, boundVars
<1>15. CASE StartTracking(w)
  <2>1. SubTypeOK'
    BY <1>1, <1>15, SubTypes DEF StartTracking
  <2>2. trackQ' \in [Orders -> [0..MaxAttempts -> Nat]]
    BY <1>1, <1>15, TrackQType, BoundsAssumption DEF StartTracking, BoundsAssumption
  <2> QED
    BY <1>15, <2>1, <2>2 DEF TypeOK, SubTypeOK, StartTracking, dbVars, brokerVars, boundVars
<1> QED
  BY <1>2, <1>3, <1>4, <1>6, <1>7, <1>8, <1>9, <1>10, <1>11, <1>12, <1>13, <1>14, <1>15
  DEF SubmitterStep, SubmitterFault

\* The same for worker-2 processes.
TrkTypeOK ==
  /\ trk \in [Trackers -> TrackerState]
  /\ \A w \in Trackers : trk[w].pc # "idle" => trk[w].order \in Orders

\* A process takes on a well-typed record, with an order unless it is idle.
LEMMA TrkTypes ==
  ASSUME TrkTypeOK, NEW w \in Trackers, NEW t \in TrackerState,
         t.pc # "idle" => t.order \in Orders,
         trk' = [trk EXCEPT ![w] = t]
  PROVE  TrkTypeOK'
  BY DEF TrkTypeOK

\* A worker-2 process that drops its task is idle again.
LEMMA ForgetTypes ==
  ASSUME TrkTypeOK, NEW w \in Trackers, Forget(w)
  PROVE  TrkTypeOK'
  BY TrkTypes, IdleTypes DEF Forget, IdleTracker

\* The snapshot of an order is well typed, with or without a row.
LEMMA SnapshotType ==
  ASSUME TypeOK, NEW t \in TrackerState, t.order \in Orders, NEW listed \in BOOLEAN
  PROVE  /\ Snapshot(t, listed) \in TrackerState
         /\ Snapshot(t, listed).order \in Orders
<1> DEFINE o == t.order
           ord == req[o].qty
           row == book[o]
           next == RowStatus(req[o].kind, HasChild(o), ord, row)
           fill == RowFilled(ord, row)
           toParent(s) == req[o].kind = "CANCEL" /\ s \in {"CANCELED", "FILLED", "PARTIAL_FILLED"}
           raises == toParent(next) /\ DeltaCancelQty(ord, row.rmn, row.rjct, fill) > 0
<1>1. row \in Row /\ row.rmn \in Nat /\ ord \in Nat
  <2>1. req[o] \in Request /\ row \in Row
    BY DEF TypeOK
  <2> QED
    BY <2>1, RequestTypes DEF Row
<1>2. next \in BrokerStatuses /\ fill \in Nat
  BY <1>1, RowTypes
<1>3. raises \in BOOLEAN /\ toParent(t.next) \in BOOLEAN
  OBVIOUS
<1>4. CASE listed
  <2>1. Snapshot(t, listed) =
          [t EXCEPT !.pc = "answered", !.next = next, !.filled = fill,
                    !.remaining = row.rmn, !.raises = raises]
    BY <1>4 DEF Snapshot
  <2> HIDE DEF next, fill, raises
  <2> QED
    BY <1>1, <1>2, <1>3, <2>1 DEF TrackerState, BrokerStatuses
<1>5. CASE ~listed
  <2>1. Snapshot(t, listed) = [t EXCEPT !.pc = "answered", !.raises = toParent(t.next)]
    BY <1>5 DEF Snapshot
  <2> HIDE DEF toParent
  <2> QED
    BY <1>3, <2>1 DEF TrackerState, BrokerStatuses
<1> QED
  BY <1>4, <1>5

\* Worker-2 keeps the types; a task is requeued only while the window is open,
\* so its attempt stays within MaxAttempts.
LEMMA TrackerType ==
  ASSUME TypeOK, NEW w \in Trackers, TrackerStep(w) \/ TrackerFault(w)
  PROVE  TypeOK'
<1>1. /\ TrkTypeOK
      /\ trk[w] \in TrackerState
      /\ trk[w].pc # "idle" => trk[w].order \in Orders
  BY DEF TypeOK, TrkTypeOK
<1>2. ASSUME NEW o \in Orders, NEW a \in 0..MaxAttempts, NEW over \in WindowOver(a),
             LoadOrder(w, o, a, over)
      PROVE  TypeOK'
  <2> DEFINE t == [pc |-> "loaded", order |-> o, attempt |-> a, expired |-> over,
                   seen |-> status[o], next |-> status[o], filled |-> filled[o],
                   remaining |-> remaining[o], raises |-> FALSE]
  <2>1. over \in BOOLEAN
    BY DEF WindowOver
  <2>2. status[o] \in TRACKING_TARGET_STATUSES
    BY <1>2 DEF LoadOrder, Trackable
  <2>3. filled[o] \in Nat /\ remaining[o] \in Nat
    BY DEF TypeOK
  <2>4. t \in TrackerState /\ t.order \in Orders
    BY <2>1, <2>2, <2>3 DEF TrackerState
  <2>5. trk' = [trk EXCEPT ![w] = t]
    BY <1>2 DEF LoadOrder
  <2>6. TrkTypeOK'
    <3> HIDE DEF t
    <3> QED BY <1>1, <2>4, <2>5, TrkTypes
  <2>7. trackQ' \in [Orders -> [0..MaxAttempts -> Nat]]
    BY <1>2, TrackQType DEF LoadOrder
  <2> QED
    BY <1>2, <2>6, <2>7 DEF TypeOK, TrkTypeOK, LoadOrder, dbVars, brokerVars, boundVars
<1>3. ASSUME NEW o \in Orders, NEW a \in 0..MaxAttempts, SkipTracking(w, o, a)
      PROVE  TypeOK'
  <2>1. trackQ' \in [Orders -> [0..MaxAttempts -> Nat]]
    BY <1>3, TrackQType DEF SkipTracking
  <2> QED
    BY <1>3, <2>1 DEF TypeOK, SkipTracking, dbVars, brokerVars, boundVars
<1>4. ASSUME NEW listed \in BOOLEAN, QueryBroker(w, listed) PROVE TypeOK'
  <2> DEFINE t == Snapshot(trk[w], listed)
  <2>1. t \in TrackerState /\ t.order \in Orders
    BY <1>1, <1>4, SnapshotType DEF QueryBroker
  <2>2. trk' = [trk EXCEPT ![w] = t] \/ Forget(w)
    BY <1>4 DEF QueryBroker, Forget
  <2>3. TrkTypeOK'
    <3> HIDE DEF t
    <3> QED BY <1>1, <2>1, <2>2, TrkTypes, ForgetTypes
  <2> QED
    BY <1>4, <2>3 DEF TypeOK, TrkTypeOK, QueryBroker, dbVars, queueVars, brokerVars, boundVars
<1>5. ASSUME NEW pc \in {"requeue", "expired"}, trk[w].pc # "idle"
      PROVE  [trk[w] EXCEPT !.pc = pc] \in TrackerState /\ [trk[w] EXCEPT !.pc = pc].order \in Orders
  BY <1>1, <1>5 DEF TrackerState
<1>6. CASE QueryFails(w)
  <2>1. Forget(w) \/ trk' = [trk EXCEPT ![w] = [trk[w] EXCEPT !.pc = "requeue"]]
    BY <1>1, <1>6 DEF QueryFails, TrkTypeOK
  <2>2. TrkTypeOK'
    BY <1>1, <1>5, <1>6, <2>1, TrkTypes, ForgetTypes DEF QueryFails
  <2>3. faults' \in 0..MaxFaults /\ recoveries' \in 0..MaxRecoveries
    BY <1>6, FaultType DEF QueryFails
  <2> QED
    BY <1>6, <2>2, <2>3 DEF TypeOK, TrkTypeOK, QueryFails, dbVars, queueVars, brokerVars
<1>7. CASE QueryRefused(w)
  <2>1. TrkTypeOK'
    BY <1>1, <1>7, ForgetTypes DEF QueryRefused
  <2>2. faults' \in 0..MaxFaults /\ recoveries' \in 0..MaxRecoveries
    BY <1>7, FaultType DEF QueryRefused
  <2>3. status' \in [Orders -> ORDER_STATUS \cup {"NONE"}]
    BY <1>7 DEF QueryRefused, TypeOK, ORDER_STATUS, TERMINAL_STATES
  <2> QED
    BY <1>7, <2>1, <2>2, <2>3 DEF TypeOK, TrkTypeOK, QueryRefused, queueVars, brokerVars
<1>8. ASSUME NEW expected, NEW next \in ORDER_STATUS, WriteSnapshot(trk[w], expected, next)
      PROVE  /\ status' \in [Orders -> ORDER_STATUS \cup {"NONE"}]
             /\ filled' \in [Orders -> Nat]
             /\ remaining' \in [Orders -> Nat]
  <2>1. trk[w].filled \in Nat /\ trk[w].remaining \in Nat
    BY <1>1 DEF TrackerState
  <2> QED
    <3>1. CASE status[trk[w].order] \in expected
      <4>1. status' = [status EXCEPT ![trk[w].order] = next]
        BY <1>8, <3>1 DEF WriteSnapshot
      <4>2. filled' = [filled EXCEPT ![trk[w].order] = trk[w].filled]
        BY <1>8, <3>1 DEF WriteSnapshot
      <4>3. remaining' = [remaining EXCEPT ![trk[w].order] = trk[w].remaining]
        BY <1>8, <3>1 DEF WriteSnapshot
      <4> QED
        BY <2>1, <4>1, <4>2, <4>3 DEF TypeOK
    <3>2. CASE status[trk[w].order] \notin expected
      BY <1>8, <3>2 DEF WriteSnapshot, TypeOK
    <3> QED
      BY <3>1, <3>2
<1>9. CASE ApplySnapshot(w)
  <2>1. trk[w].next \in ORDER_STATUS /\ WriteSnapshot(trk[w], ExpectedStatuses(trk[w].seen), trk[w].next)
    BY <1>1, <1>9 DEF ApplySnapshot, TrackerState, ORDER_STATUS
  <2>2. \/ Forget(w)
        \/ \E pc \in {"requeue", "expired"} : trk' = [trk EXCEPT ![w] = [trk[w] EXCEPT !.pc = pc]]
    BY <1>9 DEF ApplySnapshot, AfterApply, Forget
  <2>3. TrkTypeOK'
    BY <1>1, <1>5, <1>9, <2>2, TrkTypes, ForgetTypes DEF ApplySnapshot
  <2> QED
    BY <1>8, <1>9, <2>1, <2>3
    DEF TypeOK, TrkTypeOK, ApplySnapshot, queueVars, brokerVars, boundVars
<1>10. CASE TimeOutOrder(w)
  <2>1. TrkTypeOK'
    BY <1>1, <1>10, ForgetTypes DEF TimeOutOrder
  <2>2. "TIMEOUT" \in ORDER_STATUS
    BY DEF ORDER_STATUS, TERMINAL_STATES
  <2> QED
    BY <1>8, <1>10, <2>1, <2>2
    DEF TypeOK, TrkTypeOK, TimeOutOrder, queueVars, brokerVars, boundVars
<1>11. CASE RequeueTracking(w)
  <2>1. TrkTypeOK'
    BY <1>1, <1>11, ForgetTypes DEF RequeueTracking
  <2>2. trackQ' \in [Orders -> [0..MaxAttempts -> Nat]]
    <3>1. trk[w].order \in Orders /\ trk[w].attempt + 1 \in Int
      BY <1>1, <1>11, BoundsAssumption DEF RequeueTracking, TrackerState, BoundsAssumption
    <3> QED
      BY <1>11, <3>1, TrackQType DEF RequeueTracking
  <2> QED
    BY <1>11, <2>1, <2>2 DEF TypeOK, TrkTypeOK, RequeueTracking, dbVars, brokerVars, boundVars
<1>12. CASE TrackerCrash(w)
  <2>1. TrkTypeOK'
    BY <1>1, <1>12, ForgetTypes DEF TrackerCrash
  <2>2. faults' \in 0..MaxFaults /\ recoveries' \in 0..MaxRecoveries
    BY <1>12, FaultType DEF TrackerCrash
  <2> QED
    BY <1>12, <2>1, <2>2 DEF TypeOK, TrkTypeOK, TrackerCrash, dbVars, queueVars, brokerVars
<1> QED
  BY <1>2, <1>3, <1>4, <1>6, <1>7, <1>9, <1>10, <1>11, <1>12 DEF TrackerStep, TrackerFault

\* Worker-3 keeps the types: it only adds tasks to the queues.
LEMMA RecoveryType == TypeOK /\ Recovery => TypeOK'
<1> SUFFICES ASSUME TypeOK, Recovery PROVE TypeOK'
  OBVIOUS
<1>1. CASE RecoverSubmitOrders
  <2>1. recoveries' \in 0..MaxRecoveries
    BY <1>1, BoundsAssumption DEF TypeOK, RecoverSubmitOrders, BoundsAssumption
  <2>2. submitQ' \in [Orders -> Nat]
    BY <1>1 DEF TypeOK, RecoverSubmitOrders
  <2> QED
    BY <1>1, <2>1, <2>2 DEF TypeOK, RecoverSubmitOrders, dbVars, brokerVars
<1>2. CASE RecoverTrackingOrders
  <2>1. ASSUME NEW o \in Orders
        PROVE  trackQ'[o] \in [0..MaxAttempts -> Nat]
    <3>1. ASSUME NEW a \in 0..MaxAttempts, NEW n \in {0, 1}
          PROVE  trackQ[o][a] + n \in Nat
      <4>1. trackQ[o] \in [0..MaxAttempts -> Nat]
        BY DEF TypeOK
      <4>2. trackQ[o][a] \in Nat
        BY <4>1
      <4> QED
        BY <4>2
    <3> QED
      BY <1>2, <3>1 DEF RecoverTrackingOrders
  <2>2. trackQ' \in [Orders -> [0..MaxAttempts -> Nat]]
    BY <1>2, <2>1 DEF RecoverTrackingOrders
  <2> QED
    BY <1>2, <2>2 DEF TypeOK, RecoverTrackingOrders, dbVars, brokerVars, boundVars
<1> QED
  BY <1>1, <1>2 DEF Recovery

\* Every step keeps the types.
LEMMA TypeStep == TypeOK /\ [Next]_vars => TypeOK'
<1>1. TypeOK /\ UNCHANGED vars => TypeOK'
  BY DEF TypeOK, vars, dbVars, queueVars, brokerVars, boundVars
<1> QED
  BY <1>1, ApiType, BrokerType, SubmitterType, TrackerType, RecoveryType DEF Next

\* Every reachable state is well typed: statuses stay within the enumeration,
\* filled and remaining quantities and queue counts never become negative, and
\* a busy worker always has an order.
THEOREM TypeCorrect == Spec => []TypeOK
  BY TypeInit, TypeStep, PTL DEF Spec

-----------------------------------------------------------------------------
(* Submission.                                                              *)

\* The inductive invariant.  Exclusion alone is not inductive for the number of
\* tickets: that a claimed order has none yet must follow from the stage of its
\* holder and from the status of the row.
CountInv ==
  \A o \in Orders : orphans[o] <= accepted[o] /\ accepted[o] <= orphans[o] + 1

Numbered == {o \in Orders : HasTicket(o)}

StageInv ==
  /\ \A w \in Submitters : sub[w].pc \in Holding => status[sub[w].order] = "PROCESSING"
  /\ \A v, w \in Submitters :
       v # w /\ sub[v].pc \in Holding /\ sub[w].pc \in Holding => sub[v].order # sub[w].order
  /\ \A o \in Orders : status[o] \in {"NONE", "PENDING"} => o \notin Numbered
  /\ \A w \in Submitters : sub[w].pc \in {"claimed", "vetted", "limited"} => sub[w].order \notin Numbered
  /\ \A w \in Submitters : sub[w].pc = "answered" => sub[w].order \in Numbered

SubmissionInv == CountInv /\ StageInv

\* What everybody but worker-1 does to statuses: a row is created, or one that
\* is being tracked moves on to another status of an order the broker has.
OthersMoveStatus ==
  \/ UNCHANGED status
  \/ \E o \in Orders :
       \/ status[o] = "NONE" /\ status' = [status EXCEPT ![o] = "PENDING"]
       \/ \E s \in BrokerStatuses :
            status[o] \in TRACKING_TARGET_STATUSES /\ status' = [status EXCEPT ![o] = s]

\* A guarded write of worker-2 moves one row out of a tracking status, or none.
LEMMA WriteMoves ==
  ASSUME TypeOK, NEW w \in Trackers, NEW expected \in SUBSET TRACKING_TARGET_STATUSES,
         NEW next \in BrokerStatuses, WriteSnapshot(trk[w], expected, next),
         trk[w].pc # "idle"
  PROVE  OthersMoveStatus
<1>1. trk[w].order \in Orders
  BY DEF TypeOK
<1>2. CASE status[trk[w].order] \in expected
  BY <1>1, <1>2 DEF WriteSnapshot, OthersMoveStatus
<1>3. CASE status[trk[w].order] \notin expected
  BY <1>3 DEF WriteSnapshot, OthersMoveStatus
<1> QED
  BY <1>2, <1>3

\* What anybody but worker-1 can do to a status: create a row, or move one that is
\* already being tracked.
LEMMA OthersMove ==
  ASSUME TypeOK, \/ Api \/ Broker \/ Recovery
                 \/ \E w \in Trackers : TrackerStep(w) \/ TrackerFault(w)
  PROVE  OthersMoveStatus /\ UNCHANGED <<sub, accepted, orphans>>
<1>1. CASE Api
  <2>1. ASSUME NEW o \in Orders, NEW r, CreateRow(o, r) PROVE OthersMoveStatus
    BY <2>1 DEF TypeOK, CreateRow, OthersMoveStatus
  <2>2. OthersMoveStatus
    BY <1>1, <2>1
    DEF Api, CreateNew, CreateChild, EnqueueNew, ApiCrash, SetKillSwitch, dbVars, OthersMoveStatus
  <2>3. UNCHANGED <<sub, accepted, orphans>>
    BY <1>1
    DEF Api, CreateNew, CreateChild, CreateRow, EnqueueNew, ApiCrash, SetKillSwitch, brokerVars
  <2> QED
    BY <2>2, <2>3
<1>2. CASE Broker
  <2>1. UNCHANGED <<status, sub, accepted, orphans>>
    <3>1. ASSUME NEW o \in Orders, BrokerExecutes(o) PROVE UNCHANGED <<status, sub, accepted, orphans>>
      BY <3>1 DEF BrokerExecutes, dbVars
    <3>2. ASSUME NEW o \in Orders, NEW k, NEW reported, BrokerConfirms(o, k, reported)
          PROVE  UNCHANGED <<status, sub, accepted, orphans>>
      BY <3>2 DEF BrokerConfirms, dbVars
    <3>3. ASSUME NEW o \in Orders, BrokerRejects(o) PROVE UNCHANGED <<status, sub, accepted, orphans>>
      BY <3>3 DEF BrokerRejects, dbVars
    <3> QED
      BY <1>2, <3>1, <3>2, <3>3 DEF Broker
  <2> QED
    BY <2>1 DEF OthersMoveStatus
<1>3. CASE Recovery
  BY <1>3
  DEF Recovery, RecoverSubmitOrders, RecoverTrackingOrders, dbVars, brokerVars, OthersMoveStatus
<1>4. ASSUME NEW w \in Trackers, TrackerStep(w) \/ TrackerFault(w)
      PROVE  OthersMoveStatus /\ UNCHANGED <<sub, accepted, orphans>>
  <2>1. UNCHANGED <<sub, accepted, orphans>>
    BY <1>4
    DEF TrackerStep, TrackerFault, LoadOrder, SkipTracking, QueryBroker, ApplySnapshot,
        TimeOutOrder, RequeueTracking, QueryFails, QueryRefused, TrackerCrash, brokerVars
  <2>2. trk[w].next \in BrokerStatuses
    BY DEF TypeOK, TrackerState, BrokerStatuses
  <2>3. CASE ApplySnapshot(w)
    <3>1. ExpectedStatuses(trk[w].seen) \in SUBSET TRACKING_TARGET_STATUSES
      BY DEF ExpectedStatuses
    <3> QED
      BY <2>1, <2>2, <2>3, <3>1, WriteMoves DEF ApplySnapshot
  <2>4. CASE TimeOutOrder(w)
    <3>1. "TIMEOUT" \in BrokerStatuses
      BY DEF BrokerStatuses, TERMINAL_STATES
    <3> QED
      BY <2>1, <2>4, <3>1, WriteMoves DEF TimeOutOrder
  <2>5. CASE QueryRefused(w)
    <3>1. trk[w].order \in Orders /\ "FAILED" \in BrokerStatuses
      BY <2>5 DEF QueryRefused, TypeOK, BrokerStatuses, TERMINAL_STATES
    <3>2. CASE status[trk[w].order] \in TRACKING_TARGET_STATUSES
      <4>1. status' = [status EXCEPT ![trk[w].order] = "FAILED"]
        BY <2>5, <3>2 DEF QueryRefused
      <4> QED
        BY <2>1, <3>1, <3>2, <4>1 DEF OthersMoveStatus
    <3>3. CASE status[trk[w].order] \notin TRACKING_TARGET_STATUSES
      <4>1. status' = status
        BY <2>5, <3>1, <3>3 DEF QueryRefused, TypeOK
      <4> QED
        BY <2>1, <4>1 DEF OthersMoveStatus
    <3> QED
      BY <3>2, <3>3
  <2>6. CASE ~ApplySnapshot(w) /\ ~TimeOutOrder(w) /\ ~QueryRefused(w)
    BY <1>4, <2>1, <2>6
    DEF TrackerStep, TrackerFault, LoadOrder, SkipTracking, QueryBroker, RequeueTracking,
        QueryFails, TrackerCrash, dbVars, OthersMoveStatus
  <2> QED
    BY <2>3, <2>4, <2>5, <2>6
<1> QED
  BY <1>1, <1>2, <1>3, <1>4

\* An answered post gives an order without a number its number; an unanswered
\* one, taken or not, changes for no order whether it has one.
LEMMA TicketCounts ==
  ASSUME TypeOK, CountInv, NEW o \in Orders
  PROVE  /\ UNCHANGED <<accepted, orphans>> =>
              CountInv' /\ \A x \in Orders : x \in Numbered' <=> x \in Numbered
         /\ accepted' = [accepted EXCEPT ![o] = @ + 1] /\ orphans' = [orphans EXCEPT ![o] = @ + 1] =>
              CountInv' /\ \A x \in Orders : x \in Numbered' <=> x \in Numbered
         /\ accepted' = [accepted EXCEPT ![o] = @ + 1] /\ UNCHANGED orphans /\ o \notin Numbered =>
              CountInv' /\ \A x \in Orders : x \in Numbered' <=> x \in Numbered \/ x = o
<1>1. \A x \in Orders : accepted[x] \in Nat /\ orphans[x] \in Nat
  BY DEF TypeOK
<1>2. ASSUME UNCHANGED <<accepted, orphans>>
      PROVE  CountInv' /\ \A x \in Orders : x \in Numbered' <=> x \in Numbered
  BY <1>2 DEF CountInv, Numbered, HasTicket
<1>3. ASSUME accepted' = [accepted EXCEPT ![o] = @ + 1], orphans' = [orphans EXCEPT ![o] = @ + 1]
      PROVE  CountInv' /\ \A x \in Orders : x \in Numbered' <=> x \in Numbered
  <2>1. ASSUME NEW x \in Orders
        PROVE  \/ accepted'[x] = accepted[x] /\ orphans'[x] = orphans[x]
               \/ accepted'[x] = accepted[x] + 1 /\ orphans'[x] = orphans[x] + 1
    BY <1>3 DEF TypeOK
  <2> QED
    BY <1>1, <2>1 DEF CountInv, Numbered, HasTicket
<1>4. ASSUME accepted' = [accepted EXCEPT ![o] = @ + 1], UNCHANGED orphans, o \notin Numbered
      PROVE  CountInv' /\ \A x \in Orders : x \in Numbered' <=> x \in Numbered \/ x = o
  <2>1. accepted[o] = orphans[o]
    BY <1>1, <1>4 DEF CountInv, Numbered, HasTicket
  <2>2. ASSUME NEW x \in Orders
        PROVE  /\ orphans'[x] = orphans[x]
               /\ accepted'[x] = IF x = o THEN accepted[x] + 1 ELSE accepted[x]
    BY <1>4 DEF TypeOK
  <2> QED
    BY <1>1, <2>1, <2>2 DEF CountInv, Numbered, HasTicket
<1> QED
  BY <1>2, <1>3, <1>4

\* Nobody but worker-1 disturbs the submission invariant.
LEMMA SubmissionKeptByOthers ==
  ASSUME TypeOK, SubmissionInv, OthersMoveStatus, UNCHANGED <<sub, accepted, orphans>>
  PROVE  SubmissionInv'
<1>1. \A w \in Submitters : sub[w].pc \in Holding => sub[w].order \in Orders
  BY DEF TypeOK, Holding
<1>2. CountInv' /\ \A x \in Orders : x \in Numbered' <=> x \in Numbered
  BY DEF SubmissionInv, CountInv, Numbered, HasTicket
<1>3. \A o \in Orders : /\ status[o] = "PROCESSING" => status'[o] = "PROCESSING"
                        /\ status'[o] \in {"NONE", "PENDING"} => status[o] \in {"NONE", "PENDING"}
  BY DEF TypeOK, OthersMoveStatus, BrokerStatuses, TRACKING_TARGET_STATUSES, TERMINAL_STATES
<1> QED
  BY <1>1, <1>2, <1>3 DEF SubmissionInv, StageInv, Holding

\* A submitter w that keeps its order in a stage justified by the same facts, or
\* lets go of it, while every row but that order's stays as it is.
LEMMA StageKept ==
  ASSUME TypeOK, TypeOK', StageInv, NEW w \in Submitters, sub[w].pc # "idle",
         \A v \in Submitters : v # w => sub'[v] = sub[v],
         \A x \in Orders : x # sub[w].order => status'[x] = status[x],
         \A x \in Orders : x # sub[w].order => (x \in Numbered' <=> x \in Numbered),
         sub[w].pc \notin Holding => status' = status /\ (sub[w].order \in Numbered' <=> sub[w].order \in Numbered),
         status'[sub[w].order] \in {"NONE", "PENDING"} => sub[w].order \notin Numbered',
         sub'[w].pc \in Holding =>
           /\ sub[w].pc \in Holding /\ sub'[w].order = sub[w].order
           /\ status'[sub[w].order] = "PROCESSING"
           /\ sub'[w].pc = "answered" <=> sub[w].order \in Numbered'
  PROVE  StageInv'
<1> DEFINE o == sub[w].order
<1>1. o \in Orders /\ \A v \in Submitters : sub[v].pc \in Holding => sub[v].order \in Orders
  BY DEF TypeOK, Holding
<1>2. ASSUME NEW v \in Submitters, v # w, sub[v].pc \in Holding
      PROVE  /\ status'[sub[v].order] = status[sub[v].order]
             /\ sub[v].order \in Numbered' <=> sub[v].order \in Numbered
  BY <1>1, <1>2 DEF StageInv
<1>3. \A v \in Submitters : sub'[v].pc \in Holding => status'[sub'[v].order] = "PROCESSING"
  BY <1>2 DEF StageInv
<1>4. \A u, v \in Submitters :
        u # v /\ sub'[u].pc \in Holding /\ sub'[v].pc \in Holding => sub'[u].order # sub'[v].order
  BY DEF StageInv
<1>5. \A x \in Orders : status'[x] \in {"NONE", "PENDING"} => x \notin Numbered'
  BY DEF StageInv
<1>6. ASSUME NEW v \in Submitters
      PROVE  /\ sub'[v].pc \in {"claimed", "vetted", "limited"} => sub'[v].order \notin Numbered'
             /\ sub'[v].pc = "answered" => sub'[v].order \in Numbered'
  <2>1. CASE v = w
    BY <2>1 DEF Holding
  <2>2. CASE v # w
    BY <1>2, <2>2 DEF StageInv, Holding
  <2> QED
    BY <2>1, <2>2
<1> QED
  BY <1>3, <1>4, <1>5, <1>6 DEF StageInv

\* Every step of worker-1, failures and crashes included, keeps the submission
\* invariant.
LEMMA SubmissionKeptBySubmitter ==
  ASSUME TypeOK, TypeOK', SubmissionInv, NEW w \in Submitters,
         SubmitterStep(w) \/ SubmitterFault(w)
  PROVE  SubmissionInv'
<1> DEFINE o == sub[w].order
<1>1. /\ sub \in [Submitters -> SubmitterState] /\ sub[w] \in SubmitterState
      /\ sub[w].pc # "idle" => o \in Orders
      /\ CountInv /\ StageInv
  BY DEF TypeOK, SubmissionInv
<1>2. UNCHANGED <<accepted, orphans>> => CountInv' /\ \A x \in Orders : x \in Numbered' <=> x \in Numbered
  BY <1>1 DEF CountInv, Numbered, HasTicket
<1>3. ASSUME Release(w), sub[w].pc # "idle", UNCHANGED <<status, accepted, orphans>>
      PROVE  SubmissionInv'
  <2>1. sub'[w].pc \notin Holding /\ \A v \in Submitters : v # w => sub'[v] = sub[v]
    BY <1>1, <1>3 DEF Release, IdleSubmitter, Holding
  <2>2. status[o] \in {"NONE", "PENDING"} => o \notin Numbered'
    BY <1>1, <1>2, <1>3 DEF StageInv
  <2>3. StageInv'
    BY <1>1, <1>2, <1>3, <2>1, <2>2, StageKept
  <2> QED
    BY <1>2, <1>3, <2>3 DEF SubmissionInv
<1>4. ASSUME NEW pc \in {"vetted", "limited"}, sub[w].pc \in {"claimed", "vetted"},
             sub'[w].pc = pc, sub'[w].order = o,
             \A v \in Submitters : v # w => sub'[v] = sub[v],
             UNCHANGED status, CountInv',
             \A x \in Orders : x \in Numbered' <=> x \in Numbered
      PROVE  SubmissionInv'
  <2>1. status[o] = "PROCESSING" /\ o \notin Numbered' /\ sub[w].pc \in Holding /\ o \in Orders
    BY <1>1, <1>4 DEF StageInv, Holding
  <2>2. StageInv'
    BY <1>1, <1>4, <2>1, StageKept
  <2> QED
    BY <1>4, <2>2 DEF SubmissionInv
<1>5. ASSUME NEW x \in Orders, ClaimOrder(w, x) PROVE SubmissionInv'
  <2>1. /\ status[x] = "PENDING" /\ status' = [status EXCEPT ![x] = "PROCESSING"]
        /\ UNCHANGED <<accepted, orphans>>
    BY <1>5 DEF ClaimOrder, Claimable, brokerVars
  <2>2. /\ sub'[w].pc = "claimed" /\ sub'[w].order = x
        /\ \A v \in Submitters : v # w => sub'[v] = sub[v]
    BY <1>1, <1>5 DEF ClaimOrder, IdleSubmitter
  <2>3. x \notin Numbered' /\ \A v \in Submitters : sub[v].pc \in Holding => sub[v].order # x
    BY <1>1, <1>2, <2>1 DEF StageInv
  <2>4. /\ status'[x] = "PROCESSING"
        /\ \A y \in Orders : y # x => status'[y] = status[y]
    BY <2>1 DEF TypeOK
  <2>5. \A v \in Submitters : sub[v].pc \in Holding => sub[v].order \in Orders
    BY DEF TypeOK, Holding
  <2>6. StageInv'
    BY <1>1, <1>2, <2>1, <2>2, <2>3, <2>4, <2>5 DEF StageInv, Holding
  <2> QED
    BY <1>2, <2>1, <2>6 DEF SubmissionInv
<1>6. ASSUME NEW x \in Orders, SkipOrder(w, x) PROVE SubmissionInv'
  <2>1. UNCHANGED <<status, sub, accepted, orphans>>
    BY <1>6 DEF SkipOrder, dbVars, brokerVars
  <2>2. OthersMoveStatus
    BY <2>1 DEF OthersMoveStatus
  <2> QED
    BY <2>1, <2>2, SubmissionKeptByOthers
<1>7. CASE VetOrder(w)
  <2>1. /\ sub[w].pc = "claimed" /\ sub'[w].pc = "vetted" /\ sub'[w].order = o
        /\ \A v \in Submitters : v # w => sub'[v] = sub[v]
        /\ UNCHANGED <<status, accepted, orphans>>
    BY <1>1, <1>7 DEF VetOrder, dbVars, brokerVars, SubmitterState
  <2> QED
    BY <1>2, <1>4, <2>1
<1>8. CASE RefuseOrder(w) \/ PostRejected(w) \/ SubmitterCrash(w)
  BY <1>3, <1>8 DEF RefuseOrder, PostRejected, SubmitterCrash, GiveUp, dbVars, brokerVars
<1>9. ASSUME NEW no \in {"empty", "number"}, NEW reported \in BOOLEAN,
             PostAnswered(w, no, reported)
      PROVE  SubmissionInv'
  <2>1. /\ sub[w].pc = "vetted" /\ o \in Orders
        /\ sub'[w].pc = "answered" /\ sub'[w].order = o
        /\ \A v \in Submitters : v # w => sub'[v] = sub[v]
    BY <1>1, <1>9 DEF PostAnswered, SubmitterState
  <2>2. /\ UNCHANGED <<status, orphans>>
        /\ accepted' = [accepted EXCEPT ![o] = @ + 1]
    BY <1>9 DEF PostAnswered, BrokerTakes, dbVars, TypeOK
  <2>3. o \notin Numbered /\ status[o] = "PROCESSING"
    BY <1>1, <2>1 DEF StageInv, Holding
  <2>4. CountInv' /\ \A x \in Orders : x \in Numbered' <=> x \in Numbered \/ x = o
    BY <1>1, <2>1, <2>2, <2>3, TicketCounts
  <2>5. StageInv'
    BY <1>1, <2>1, <2>2, <2>3, <2>4, StageKept DEF Holding
  <2> QED
    BY <2>4, <2>5 DEF SubmissionInv
<1>10. ASSUME NEW taken \in BOOLEAN, NEW reported \in BOOLEAN, PostTimeout(w, taken, reported)
       PROVE  SubmissionInv'
  <2>1. sub[w].pc = "vetted" /\ o \in Orders /\ UNCHANGED status
    BY <1>1, <1>10 DEF PostTimeout, GiveUp, dbVars
  <2>2. \/ UNCHANGED <<accepted, orphans>>
        \/ /\ accepted' = [accepted EXCEPT ![o] = @ + 1]
           /\ orphans' = [orphans EXCEPT ![o] = @ + 1]
    BY <1>10 DEF PostTimeout, BrokerTakes, brokerVars
  <2>3. CountInv' /\ \A x \in Orders : x \in Numbered' <=> x \in Numbered
    BY <1>1, <2>1, <2>2, TicketCounts
  <2>4. CASE MayPostAgain(w)
    <3>1. /\ sub'[w].pc = "vetted" /\ sub'[w].order = o
          /\ \A v \in Submitters : v # w => sub'[v] = sub[v]
      BY <1>1, <1>10, <2>4 DEF PostTimeout, SubmitterState
    <3> QED
      BY <1>4, <2>1, <2>3, <3>1
  <2>5. CASE ~MayPostAgain(w)
    <3>1. sub'[w].pc \notin Holding /\ \A v \in Submitters : v # w => sub'[v] = sub[v]
      BY <1>1, <1>10, <2>5 DEF PostTimeout, GiveUp, Release, IdleSubmitter, Holding
    <3>2. status[o] \in {"NONE", "PENDING"} => o \notin Numbered'
      BY <1>1, <2>1, <2>3 DEF StageInv
    <3>3. StageInv'
      BY <1>1, <2>1, <2>3, <3>1, <3>2, StageKept
    <3> QED
      BY <2>3, <3>3 DEF SubmissionInv
  <2> QED
    BY <2>4, <2>5
<1>11. ASSUME NEW limited \in BOOLEAN, PostServerError(w, limited) PROVE SubmissionInv'
  <2>1. sub[w].pc = "vetted" /\ UNCHANGED <<status, accepted, orphans>>
    BY <1>11 DEF PostServerError, GiveUp, dbVars, brokerVars
  <2>2. \/ Release(w)
        \/ sub' = [sub EXCEPT ![w].pc = "limited"]
        \/ sub' = [sub EXCEPT ![w].tries = @ + 1]
    BY <1>11 DEF PostServerError, GiveUp
  <2>3. CASE ~Release(w)
    <3>1. /\ sub'[w].pc \in {"vetted", "limited"} /\ sub'[w].order = o
          /\ \A v \in Submitters : v # w => sub'[v] = sub[v]
      BY <1>1, <2>1, <2>2, <2>3 DEF SubmitterState
    <3> QED
      BY <1>2, <1>4, <2>1, <3>1
  <2> QED
    BY <1>3, <2>1, <2>3
<1>12. CASE PostLimited(w)
  <2>1. /\ sub[w].pc = "vetted" /\ sub'[w].pc = "limited" /\ sub'[w].order = o
        /\ \A v \in Submitters : v # w => sub'[v] = sub[v]
        /\ UNCHANGED <<status, accepted, orphans>>
    BY <1>1, <1>12 DEF PostLimited, dbVars, brokerVars, SubmitterState
  <2> QED
    BY <1>2, <1>4, <2>1
<1>13. CASE BackOff(w)
  <2>1. /\ sub[w].pc = "limited" /\ sub'[w].pc = "requeue" /\ o \in Orders
        /\ \A v \in Submitters : v # w => sub'[v] = sub[v]
        /\ UNCHANGED <<accepted, orphans>>
    BY <1>1, <1>13 DEF BackOff, brokerVars, SubmitterState
  <2>2. o \notin Numbered' /\ \A x \in Orders : x # o => status'[x] = status[x]
    BY <1>1, <1>2, <1>13, <2>1 DEF BackOff, StageInv, TypeOK
  <2>3. StageInv'
    BY <1>1, <1>2, <2>1, <2>2, StageKept DEF Holding
  <2> QED
    BY <1>2, <2>1, <2>3 DEF SubmissionInv
<1>14. CASE RequeueOrder(w) \/ StartTracking(w)
  BY <1>3, <1>14 DEF RequeueOrder, StartTracking, dbVars, brokerVars
<1>15. CASE RecordSubmit(w)
  <2>1. /\ sub[w].pc = "answered" /\ sub'[w].pc \in {"recorded", "idle"} /\ o \in Orders
        /\ \A v \in Submitters : v # w => sub'[v] = sub[v]
        /\ UNCHANGED <<accepted, orphans>>
    BY <1>1, <1>15 DEF RecordSubmit, Release, IdleSubmitter, brokerVars, SubmitterState
  <2>2. \/ UNCHANGED status
        \/ status' = [status EXCEPT ![o] = "ACCEPTED"]
        \/ status' = [status EXCEPT ![o] = "REQUESTED"]
    BY <1>15 DEF RecordSubmit
  <2>3. status[o] = "PROCESSING"
    BY <1>1, <2>1 DEF StageInv, Holding
  <2>4. status'[o] \notin {"NONE", "PENDING"} /\ \A x \in Orders : x # o => status'[x] = status[x]
    BY <2>1, <2>2, <2>3 DEF TypeOK
  <2>5. StageInv'
    BY <1>1, <1>2, <2>1, <2>4, StageKept DEF Holding
  <2> QED
    BY <1>2, <2>1, <2>5 DEF SubmissionInv
<1> QED
  BY <1>5, <1>6, <1>7, <1>8, <1>9, <1>10, <1>11, <1>12, <1>13, <1>14, <1>15
  DEF SubmitterStep, SubmitterFault

\* The submission invariant holds in every reachable state.
LEMMA SubmissionInvariant == Spec => []SubmissionInv
<1>1. Init => SubmissionInv
  BY DEF Init, SubmissionInv, CountInv, StageInv, Numbered, HasTicket, Holding, IdleSubmitter
<1>2. TypeOK /\ TypeOK' /\ SubmissionInv /\ [Next]_vars => SubmissionInv'
  <2>1. TypeOK /\ SubmissionInv /\ UNCHANGED vars => SubmissionInv'
    BY SubmissionKeptByOthers DEF OthersMoveStatus, vars, dbVars, brokerVars
  <2> QED
    BY <2>1, OthersMove, SubmissionKeptByOthers, SubmissionKeptBySubmitter DEF Next
<1> QED
  BY <1>1, <1>2, TypeCorrect, PTL DEF Spec

\* At most one worker-1 process holds an order between its two compare-and-sets,
\* and nobody else moves the row meanwhile, for any number of processes,
\* duplicated tasks, crashes and recoveries.
THEOREM SubmissionIsExclusive == Spec => []SubmissionExclusive
<1>1. SubmissionInv => SubmissionExclusive
  BY DEF SubmissionInv, StageInv, SubmissionExclusive
<1> QED
  BY <1>1, SubmissionInvariant, PTL

\* The broker tells the system at most one number per order, however often the
\* order is posted: no rate-limit retry, crash or recovery submits it again once
\* a number has been received.
THEOREM AnsweredAtMostOnce == Spec => []OneAnsweredSubmission
<1>1. SubmissionInv => OneAnsweredSubmission
  BY DEF SubmissionInv, CountInv, OneAnsweredSubmission
<1> QED
  BY <1>1, SubmissionInvariant, PTL

-----------------------------------------------------------------------------
(* Terminal statuses, and the refinement of OrderLifecycle.                 *)

\* What a worker-1 process does to rows and tickets.
Claims(o) ==
  status[o] = "PENDING" /\ status' = [status EXCEPT ![o] = "PROCESSING"] /\ UNCHANGED Numbered
HandsBack(o) ==
  /\ status[o] = "PROCESSING" /\ o \notin Numbered
  /\ status' = [status EXCEPT ![o] = "PENDING"] /\ UNCHANGED Numbered
GetsNumber(o) ==
  /\ status[o] = "PROCESSING" /\ o \notin Numbered
  /\ UNCHANGED status /\ Numbered' = Numbered \cup {o}
Records(o) ==
  /\ status[o] = "PROCESSING" /\ o \in Numbered /\ UNCHANGED Numbered
  /\ \E s \in {"ACCEPTED", "REQUESTED"} : status' = [status EXCEPT ![o] = s]

\* An order has a number as long as the broker's counters do not change.
LEMMA NumberedSame ==
  ASSUME UNCHANGED <<accepted, orphans>>
  PROVE  Numbered' = Numbered
  BY DEF Numbered, HasTicket

\* What a step of worker-1 does to statuses and numbers: claim, hand back, number
\* or record one order, or nothing.
LEMMA SubmitterMoves ==
  ASSUME TypeOK, SubmissionInv, NEW w \in Submitters, SubmitterStep(w) \/ SubmitterFault(w)
  PROVE  \/ UNCHANGED status /\ UNCHANGED Numbered
         \/ \E o \in Orders : Claims(o) \/ HandsBack(o) \/ GetsNumber(o) \/ Records(o)
<1> DEFINE o == sub[w].order
<1>1. /\ sub[w].pc # "idle" => o \in Orders
      /\ CountInv /\ StageInv
  BY DEF TypeOK, SubmissionInv
<1>2. ASSUME NEW x \in Orders, ClaimOrder(w, x) PROVE Claims(x)
  BY <1>2, NumberedSame DEF ClaimOrder, Claimable, Claims, brokerVars
<1>3. CASE \/ \E x \in Orders : SkipOrder(w, x)
           \/ VetOrder(w) \/ RefuseOrder(w) \/ PostRejected(w) \/ PostLimited(w)
           \/ SubmitterCrash(w) \/ RequeueOrder(w) \/ StartTracking(w)
           \/ \E limited \in BOOLEAN : PostServerError(w, limited)
  <2>1. UNCHANGED <<status, accepted, orphans>>
    BY <1>3
    DEF SkipOrder, VetOrder, RefuseOrder, PostRejected, PostLimited, SubmitterCrash,
        RequeueOrder, StartTracking, PostServerError, GiveUp, dbVars, brokerVars
  <2> QED
    BY <2>1, NumberedSame
<1>4. ASSUME NEW no \in {"empty", "number"}, NEW reported \in BOOLEAN,
             PostAnswered(w, no, reported)
      PROVE  o \in Orders /\ GetsNumber(o)
  <2>1. /\ o \in Orders /\ o \notin Numbered /\ status[o] = "PROCESSING"
        /\ UNCHANGED <<status, orphans>>
        /\ accepted' = [accepted EXCEPT ![o] = @ + 1]
    BY <1>1, <1>4 DEF PostAnswered, BrokerTakes, dbVars, TypeOK, StageInv, Holding
  <2>2. \A x \in Orders : x \in Numbered' <=> x \in Numbered \/ x = o
    BY <1>1, <2>1, TicketCounts
  <2>3. Numbered' = Numbered \cup {o}
    BY <2>1, <2>2 DEF Numbered
  <2> QED
    BY <2>1, <2>3 DEF GetsNumber
<1>5. ASSUME NEW taken \in BOOLEAN, NEW reported \in BOOLEAN, PostTimeout(w, taken, reported)
      PROVE  UNCHANGED status /\ UNCHANGED Numbered
  <2>1. o \in Orders /\ UNCHANGED status
    BY <1>1, <1>5 DEF PostTimeout, GiveUp, dbVars
  <2>2. \/ UNCHANGED <<accepted, orphans>>
        \/ /\ accepted' = [accepted EXCEPT ![o] = @ + 1]
           /\ orphans' = [orphans EXCEPT ![o] = @ + 1]
    BY <1>5 DEF PostTimeout, BrokerTakes, brokerVars
  <2>3. \A x \in Orders : x \in Numbered' <=> x \in Numbered
    BY <1>1, <2>1, <2>2, TicketCounts
  <2> QED
    BY <2>1, <2>3 DEF Numbered
<1>6. CASE BackOff(w)
  <2>1. o \in Orders /\ o \notin Numbered /\ status[o] = "PROCESSING"
    BY <1>1, <1>6 DEF BackOff, StageInv, Holding
  <2>2. status' = [status EXCEPT ![o] = "PENDING"] /\ UNCHANGED <<accepted, orphans>>
    BY <1>6, <2>1 DEF BackOff, brokerVars
  <2>3. HandsBack(o)
    BY <2>1, <2>2, NumberedSame DEF HandsBack
  <2> QED
    BY <2>1, <2>3
<1>7. CASE RecordSubmit(w)
  <2>1. o \in Orders /\ o \in Numbered /\ status[o] = "PROCESSING"
    BY <1>1, <1>7 DEF RecordSubmit, StageInv, Holding
  <2>2. /\ UNCHANGED <<accepted, orphans>>
        /\ \/ UNCHANGED status
           \/ status' = [status EXCEPT ![o] = "ACCEPTED"]
           \/ status' = [status EXCEPT ![o] = "REQUESTED"]
    BY <1>7 DEF RecordSubmit, brokerVars
  <2>3. UNCHANGED status \/ Records(o)
    BY <2>1, <2>2, NumberedSame DEF Records
  <2> QED
    BY <2>1, <2>2, <2>3, NumberedSame
<1> QED
  BY <1>2, <1>3, <1>4, <1>5, <1>6, <1>7 DEF SubmitterStep, SubmitterFault

\* No step of any process changes a terminal status, whatever snapshot a stale
\* tracker still holds.
THEOREM TerminalStatusIsFinal == Spec => TerminalIsFinal
<1> DEFINE Final == \A o \in Orders : status[o] \in TERMINAL_STATES => status'[o] = status[o]
<1>1. TypeOK /\ SubmissionInv /\ [Next]_vars => Final
  <2> SUFFICES ASSUME TypeOK, SubmissionInv, [Next]_vars PROVE Final
    OBVIOUS
  <2>1. ASSUME NEW w \in Submitters, SubmitterStep(w) \/ SubmitterFault(w) PROVE Final
    BY <2>1, SubmitterMoves
    DEF TypeOK, Claims, HandsBack, GetsNumber, Records, TERMINAL_STATES
  <2>2. OthersMoveStatus => Final
    BY DEF TypeOK, OthersMoveStatus, TERMINAL_STATES, TRACKING_TARGET_STATUSES
  <2>3. UNCHANGED vars => Final
    BY DEF vars, dbVars
  <2> QED
    BY <2>1, <2>2, <2>3, OthersMove DEF Next
<1>2. TypeOK /\ SubmissionInv /\ [Next]_vars => [Final]_vars
  BY <1>1
<1> QED
  BY <1>2, TypeCorrect, SubmissionInvariant, PTL DEF Spec, TerminalIsFinal

\* The abstract state.
PhaseBar == [o \in Orders |-> Phase(status[o])]
NumberedBar == [o \in Orders |-> HasTicket(o)]

\* One row moves, or one order gets its number, and the abstract state follows.
LEMMA BarMoves ==
  ASSUME TypeOK
  PROVE  /\ UNCHANGED status => UNCHANGED PhaseBar
         /\ UNCHANGED Numbered => UNCHANGED NumberedBar
         /\ \A o \in Orders, s \in ORDER_STATUS :
              status' = [status EXCEPT ![o] = s] => PhaseBar' = [PhaseBar EXCEPT ![o] = Phase(s)]
         /\ \A o \in Orders :
              Numbered' = Numbered \cup {o} => NumberedBar' = [NumberedBar EXCEPT ![o] = TRUE]
         /\ \A o \in Orders : PhaseBar[o] = Phase(status[o]) /\ (NumberedBar[o] <=> o \in Numbered)
<1>1. ASSUME UNCHANGED Numbered PROVE UNCHANGED NumberedBar
  <2>1. \A o \in Orders : HasTicket(o)' = HasTicket(o)
    BY <1>1 DEF Numbered, HasTicket
  <2> QED
    BY <2>1 DEF NumberedBar
<1>2. ASSUME NEW o \in Orders, NEW s \in ORDER_STATUS, status' = [status EXCEPT ![o] = s]
      PROVE  PhaseBar' = [PhaseBar EXCEPT ![o] = Phase(s)]
  BY <1>2 DEF PhaseBar, TypeOK
<1>3. ASSUME NEW o \in Orders, Numbered' = Numbered \cup {o}
      PROVE  NumberedBar' = [NumberedBar EXCEPT ![o] = TRUE]
  <2>1. \A x \in Orders : x # o => HasTicket(x)' = HasTicket(x)
    BY <1>3 DEF Numbered, HasTicket
  <2>2. HasTicket(o)' = TRUE
    BY <1>3 DEF Numbered, HasTicket
  <2>3. NumberedBar' = [x \in Orders |-> IF x = o THEN TRUE ELSE HasTicket(x)]
    BY <2>1, <2>2, Zenon DEF NumberedBar
  <2>4. [NumberedBar EXCEPT ![o] = TRUE] = [x \in Orders |-> IF x = o THEN TRUE ELSE HasTicket(x)]
    BY Zenon DEF NumberedBar
  <2> QED
    BY <2>3, <2>4
<1> QED
  BY <1>1, <1>2, <1>3 DEF PhaseBar, NumberedBar, Numbered, HasTicket

\* The phase every status is mapped to.
LEMMA Phases ==
  /\ Phase("NONE") = "absent" /\ Phase("PENDING") = "queued" /\ Phase("PROCESSING") = "claimed"
  /\ \A s \in TRACKING_TARGET_STATUSES : Phase(s) = "working"
  /\ \A s \in TERMINAL_STATES : Phase(s) = "closed"
  BY DEF Phase, TRACKING_TARGET_STATUSES, TERMINAL_STATES

\* The pipeline implements the life of an order: an order without a number is
\* the only one handed back to the queue, it gets one number while claimed, it is
\* worked only once it has one, and a closed order stays closed.
THEOREM PipelineRefinesLifecycle == Spec => RefinesLifecycle
<1>1. Init => Lifecycle!Init
  <2> SUFFICES ASSUME Init PROVE Lifecycle!Init
    OBVIOUS
  <2>1. \A o \in Orders : Phase(status[o]) = "absent"
    BY Phases DEF Init
  <2>2. \A o \in Orders : HasTicket(o) = FALSE
    BY DEF Init, HasTicket
  <2> QED
    BY <2>1, <2>2, Zenon DEF Lifecycle!Init
<1>2. TypeOK /\ SubmissionInv /\ [Next]_vars => [Lifecycle!Next]_(Lifecycle!vars)
  <2> SUFFICES ASSUME TypeOK, SubmissionInv, [Next]_vars
               PROVE  Lifecycle!Next \/ UNCHANGED Lifecycle!vars
    OBVIOUS
  <2>1. /\ UNCHANGED PhaseBar /\ UNCHANGED NumberedBar => UNCHANGED Lifecycle!vars
        /\ \A o \in Orders : \A to :
             PhaseBar' = [PhaseBar EXCEPT ![o] = to] /\ UNCHANGED NumberedBar =>
               /\ PhaseBar[o] = "absent" /\ to = "queued" => Lifecycle!Create(o)
               /\ PhaseBar[o] = "queued" /\ to = "claimed" => Lifecycle!Claim(o)
               /\ PhaseBar[o] = "claimed" /\ to = "queued" /\ ~NumberedBar[o] => Lifecycle!HandBack(o)
               /\ PhaseBar[o] = "claimed" /\ to = "working" /\ NumberedBar[o] => Lifecycle!Work(o)
               /\ PhaseBar[o] = "working" /\ to = "closed" => Lifecycle!Close(o)
        /\ \A o \in Orders :
             /\ NumberedBar' = [NumberedBar EXCEPT ![o] = TRUE] /\ UNCHANGED PhaseBar
             /\ PhaseBar[o] = "claimed" /\ ~NumberedBar[o]
             => Lifecycle!Number(o)
    BY Zenon
    DEF PhaseBar, NumberedBar, Lifecycle!vars, Lifecycle!Move, Lifecycle!Create, Lifecycle!Claim,
        Lifecycle!HandBack, Lifecycle!Work, Lifecycle!Close, Lifecycle!Number
  <2>2. \A o \in Orders :
          \/ Lifecycle!Create(o) \/ Lifecycle!Claim(o) \/ Lifecycle!HandBack(o)
          \/ Lifecycle!Number(o) \/ Lifecycle!Work(o) \/ Lifecycle!Close(o)
          => Lifecycle!Next
    BY DEF Lifecycle!Next
  <2>3. ASSUME NEW w \in Submitters, SubmitterStep(w) \/ SubmitterFault(w)
        PROVE  Lifecycle!Next \/ UNCHANGED Lifecycle!vars
    <3>1. CASE UNCHANGED status /\ UNCHANGED Numbered
      BY <2>1, <3>1, BarMoves
    <3>2. ASSUME NEW o \in Orders, Claims(o) PROVE Lifecycle!Next
      <4>1. PhaseBar[o] = Phase("PENDING") /\ UNCHANGED NumberedBar
        BY <3>2, BarMoves DEF Claims
      <4>2. PhaseBar' = [PhaseBar EXCEPT ![o] = Phase("PROCESSING")]
        BY <3>2, BarMoves DEF Claims, ORDER_STATUS
      <4> QED
        BY <2>1, <2>2, <4>1, <4>2, Phases
    <3>3. ASSUME NEW o \in Orders, HandsBack(o) PROVE Lifecycle!Next
      <4>1. PhaseBar[o] = Phase("PROCESSING") /\ UNCHANGED NumberedBar /\ ~NumberedBar[o]
        BY <3>3, BarMoves DEF HandsBack
      <4>2. PhaseBar' = [PhaseBar EXCEPT ![o] = Phase("PENDING")]
        BY <3>3, BarMoves DEF HandsBack, ORDER_STATUS
      <4> QED
        BY <2>1, <2>2, <4>1, <4>2, Phases
    <3>4. ASSUME NEW o \in Orders, GetsNumber(o) PROVE Lifecycle!Next
      <4>1. PhaseBar[o] = "claimed" /\ UNCHANGED PhaseBar /\ ~NumberedBar[o]
            /\ NumberedBar' = [NumberedBar EXCEPT ![o] = TRUE]
        BY <3>4, BarMoves, Phases DEF GetsNumber
      <4> QED
        BY <2>1, <2>2, <4>1
    <3>5. ASSUME NEW o \in Orders, Records(o) PROVE Lifecycle!Next
      <4>1. PICK s \in {"ACCEPTED", "REQUESTED"} : status' = [status EXCEPT ![o] = s]
        BY <3>5 DEF Records
      <4>2. s \in ORDER_STATUS /\ Phase(s) = "working"
        BY <4>1, Phases DEF ORDER_STATUS, TRACKING_TARGET_STATUSES
      <4>3. PhaseBar[o] = Phase("PROCESSING") /\ UNCHANGED NumberedBar /\ NumberedBar[o]
        BY <3>5, BarMoves DEF Records
      <4>4. PhaseBar' = [PhaseBar EXCEPT ![o] = Phase(s)]
        BY <4>1, <4>2, BarMoves
      <4> QED
        BY <2>1, <2>2, <4>2, <4>3, <4>4, Phases
    <3> QED
      BY <2>3, <3>1, <3>2, <3>3, <3>4, <3>5, SubmitterMoves
  <2>4. ASSUME OthersMoveStatus, UNCHANGED <<accepted, orphans>>
        PROVE  Lifecycle!Next \/ UNCHANGED Lifecycle!vars
    <3>1. UNCHANGED NumberedBar
      BY <2>4, NumberedSame, BarMoves
    <3>2. CASE UNCHANGED status
      BY <2>1, <3>1, <3>2, BarMoves
    <3>3. ASSUME NEW o \in Orders, status[o] = "NONE", status' = [status EXCEPT ![o] = "PENDING"]
          PROVE  Lifecycle!Next
      <4>1. PhaseBar[o] = Phase("NONE")
        BY <3>3, BarMoves
      <4>2. PhaseBar' = [PhaseBar EXCEPT ![o] = Phase("PENDING")]
        BY <3>3, BarMoves DEF ORDER_STATUS
      <4> QED
        BY <2>1, <2>2, <3>1, <4>1, <4>2, Phases
    <3>4. ASSUME NEW o \in Orders, NEW s \in BrokerStatuses,
                 status[o] \in TRACKING_TARGET_STATUSES, status' = [status EXCEPT ![o] = s]
          PROVE  Lifecycle!Next \/ UNCHANGED Lifecycle!vars
      <4>1. PhaseBar[o] = "working" /\ PhaseBar' = [PhaseBar EXCEPT ![o] = Phase(s)]
        BY <3>4, BarMoves, Phases DEF ORDER_STATUS, BrokerStatuses
      <4>2. CASE s \in TERMINAL_STATES
        <5>1. Phase(s) = "closed"
          BY <4>2, Phases
        <5> QED
          BY <2>1, <2>2, <3>1, <4>1, <5>1
      <4>3. CASE s \in TRACKING_TARGET_STATUSES
        <5>1. Phase(s) = "working"
          BY <4>3, Phases
        <5>2. UNCHANGED PhaseBar
          BY <4>1, <5>1 DEF PhaseBar
        <5> QED
          BY <2>1, <3>1, <5>2
      <4> QED
        BY <4>2, <4>3 DEF BrokerStatuses
    <3> QED
      BY <2>4, <3>2, <3>3, <3>4 DEF OthersMoveStatus
  <2>5. CASE UNCHANGED vars
    BY <2>4, <2>5 DEF OthersMoveStatus, vars, dbVars, brokerVars
  <2> QED
    BY <2>3, <2>4, <2>5, OthersMove DEF Next
<1> QED
  BY <1>1, <1>2, TypeCorrect, SubmissionInvariant, PTL DEF Spec, RefinesLifecycle, Lifecycle!Spec

=============================================================================
