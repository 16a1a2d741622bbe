------------------------ MODULE OrderTrackingProofs ------------------------
(***************************************************************************)
(* Proofs about the tracked part of OrderPipeline: what the rows say       *)
(* against what the broker's book holds, and that no order loses the task  *)
(* that moves it on.                                                       *)
(***************************************************************************)
EXTENDS OrderPipelineProofs

-----------------------------------------------------------------------------
(* The inductive invariant.                                                 *)

\* The statuses of a row no tracking result has been written to.
Unsubmitted == {"NONE", "PENDING", "PROCESSING"}

Busy(w) == trk[w].pc # "idle"

\* Until its submission is recorded a row claims nothing, afterwards the order
\* has a number; only such an order is being tracked.
RowInv ==
  /\ \A o \in Orders :
       /\ status[o] = "NONE" => req[o] = NoRequest
       /\ status[o] \in Unsubmitted => filled[o] = 0 /\ remaining[o] = req[o].qty
       /\ status[o] \notin Unsubmitted => o \in Numbered
  /\ \A w \in Trackers : Busy(w) => status[trk[w].order] \notin Unsubmitted

\* LedgerSound is not inductive: a snapshot a tracker still holds must obey the
\* same bounds, and the broker's row of an order nobody modified must add up.
Sum(row) == row.rmn + row.cncl + row.rjct + row.exec
Sound(o, next, fill, rem) ==
  /\ fill <= book[o].exec
  /\ next = "FILLED" => book[o].exec = req[o].qty
  /\ fill + rem <= req[o].qty
LedgerInv ==
  \A o \in Orders : req[o].kind = "NEW" /\ NotMoved(o) =>
    /\ o \in Numbered => Sum(book[o]) = req[o].qty
    /\ Sound(o, status[o], filled[o], remaining[o])
    /\ \A w \in Trackers : Busy(w) /\ trk[w].order = o =>
         Sound(o, trk[w].next, trk[w].filled, trk[w].remaining)

\* The same for NoHiddenRemainder.
Covers(o, next, rem) ==
  /\ book[o].rmn <= rem
  /\ next \in {"FILLED", "CANCELED"} => book[o].rmn = 0
OpenInv ==
  \A o \in Orders : o \in Numbered =>
    /\ Covers(o, status[o], remaining[o])
    /\ \A w \in Trackers : Busy(w) /\ trk[w].order = o =>
         Covers(o, trk[w].next, trk[w].remaining)

\* PARTIAL_FILLED is only ever said of an order the broker's row shows something
\* done of, and that never goes back: so no poll finds such an order ACCEPTED,
\* a transition can_transition would refuse, which would end its chain.
Done(o) == book[o].rmn + book[o].cncl + book[o].rjct < req[o].qty
PartialInv ==
  /\ \A o \in Orders : status[o] = "PARTIAL_FILLED" => Done(o)
  /\ \A w \in Trackers : Busy(w) /\ "PARTIAL_FILLED" \in {trk[w].seen, trk[w].next}
       => Done(trk[w].order)

\* What a tracking task carries: a loaded order's own status until the broker
\* has answered, the end of its window at the latest with the last attempt.
TaskInv ==
  \A w \in Trackers : Busy(w) =>
    /\ trk[w].pc = "loaded" => trk[w].next = trk[w].seen
    /\ trk[w].attempt = MaxAttempts => trk[w].expired
    /\ trk[w].pc = "requeue" => ~trk[w].expired
    /\ trk[w].raises => req[trk[w].order].kind = "CANCEL"

TrackingInv == RowInv /\ LedgerInv /\ OpenInv /\ PartialInv /\ TaskInv

\* LiveOrderIsTracked is not inductive: a tracker whose compare-and-set will
\* fail drops its task, so it does not count.
WillGoOn(w) ==
  \/ trk[w].pc \in {"requeue", "expired"}
  \/ /\ trk[w].pc \in {"loaded", "answered"}
     /\ status[trk[w].order] \in ExpectedStatuses(trk[w].seen)
HasChain(o) ==
  \/ \E w \in Submitters : sub[w].pc = "recorded" /\ sub[w].order = o
  \/ \E a \in 0..MaxAttempts : trackQ[o][a] > 0
  \/ \E w \in Trackers : trk[w].order = o /\ WillGoOn(w)
ChainInv ==
  FaultKinds \cap {"crash", "query_error"} = {} =>
    \A o \in Orders : Trackable(o) /\ req[o].kind # "CANCEL" => HasChain(o)

-----------------------------------------------------------------------------
(* What a step does to the broker's book, to a row and to a tracking task.  *)

\* The broker's row of o goes one way: less is open, more is executed, and the
\* quantities of a new order nobody modified still add up to the same.
RowAdvances(o) ==
  /\ o \in Numbered' <=> o \in Numbered
  /\ book'[o].rmn <= book[o].rmn
  /\ book'[o].exec >= book[o].exec
  /\ book'[o].rmn + book'[o].cncl + book'[o].rjct <= book[o].rmn + book[o].cncl + book[o].rjct
  /\ req[o].kind = "NEW" /\ NotMoved(o) => Sum(book'[o]) = Sum(book[o])

\* The order gets its number, and a row with everything open.
RowOpens(o) ==
  /\ status[o] = "PROCESSING" /\ status'[o] = "PROCESSING" /\ req'[o] = req[o]
  /\ book'[o] = [rmn |-> req[o].qty, cncl |-> 0, rjct |-> 0, exec |-> 0]

\* The fields of a row of the book are natural numbers.
LEMMA BookTypes ==
  ASSUME TypeOK, NEW o \in Orders
  PROVE  /\ book[o] \in Row
         /\ book[o].rmn \in Nat /\ book[o].cncl \in Nat /\ book[o].rjct \in Nat
         /\ book[o].exec \in Nat
         /\ req[o] \in Request /\ req[o].qty \in Nat
<1>1. book[o] \in Row /\ req[o] \in Request
  BY DEF TypeOK
<1> QED
  BY <1>1, RequestTypes DEF Row

\* A row of the book that stays as it is.
LEMMA RowStays ==
  ASSUME TypeOK, NEW o \in Orders, book'[o] = book[o], o \in Numbered' <=> o \in Numbered
  PROVE  RowAdvances(o)
  BY BookTypes DEF RowAdvances, Sum

\* Whatever the broker takes for one order, every other row of the book only
\* advances: a cancel reports what it takes out of its original as cancelled.
LEMMA TakingAdvances ==
  ASSUME TypeOK, NEW o \in Orders, NEW answered \in BOOLEAN, NEW reported \in BOOLEAN,
         BrokerTakes(o, answered, reported), NEW x \in Orders, x # o \/ ~answered,
         x \in Numbered' <=> x \in Numbered
  PROVE  RowAdvances(x)
<1>1. /\ book[x] \in Row /\ book[x].rmn \in Nat /\ book[x].cncl \in Nat /\ book[x].rjct \in Nat
      /\ book[x].exec \in Nat
      /\ req[o] \in Request /\ req[o].qty \in Nat
  BY BookTypes
<1>2. CASE x = o \/ x # req[o].parent
  <2>1. book'[x] = book[x]
    BY <1>2 DEF BrokerTakes, BookAfter
  <2> QED
    BY <2>1, RowStays
<1>3. CASE x # o /\ x = req[o].parent
  <2> DEFINE q == req[o].qty
             cncl == IF reported THEN book[x].cncl + q ELSE book[x].cncl
             row == [book[x] EXCEPT !.rmn = book[x].rmn - q, !.cncl = cncl]
  <2>1. book'[x] = row
    BY <1>3 DEF BrokerTakes, BookAfter
  <2>2. cncl \in Nat /\ cncl <= book[x].cncl + q /\ (reported => cncl = book[x].cncl + q)
    BY <1>1
  <2>3. row.rmn = book[x].rmn - q /\ row.cncl = cncl /\ row.rjct = book[x].rjct
        /\ row.exec = book[x].exec
    <3> HIDE DEF cncl
    <3> QED BY <1>1 DEF Row
  <2>4. ASSUME NotMoved(x) PROVE reported
    <3>1. req[o].kind # "NEW" /\ req[o].kind # "MODIFY"
      BY <1>1, <1>3, <2>4, RequestTypes, OrdersAssumption DEF NotMoved, OrdersAssumption
    <3> QED
      BY <1>1, <3>1, RequestTypes DEF BrokerTakes
  <2> HIDE DEF row, cncl
  <2>5. /\ row.rmn <= book[x].rmn /\ row.exec >= book[x].exec
        /\ row.rmn + row.cncl + row.rjct <= book[x].rmn + book[x].cncl + book[x].rjct
    BY <1>1, <2>2, <2>3
  <2>6. NotMoved(x) => Sum(row) = Sum(book[x])
    BY <1>1, <2>2, <2>3, <2>4 DEF Sum
  <2> QED
    BY <2>1, <2>5, <2>6 DEF RowAdvances
<1> QED
  BY <1>2, <1>3

\* Every step of the system leaves a row of the broker's book alone, advances it
\* or opens it for the order that just got its number.
LEMMA BookMoves ==
  ASSUME TypeOK, SubmissionInv, [Next]_vars, NEW x \in Orders
  PROVE  RowAdvances(x) \/ RowOpens(x)
<1>1. /\ book[x] \in Row /\ book[x].rmn \in Nat /\ book[x].cncl \in Nat /\ book[x].rjct \in Nat
      /\ book[x].exec \in Nat
  BY BookTypes
<1>2. UNCHANGED <<book, accepted, orphans>> => RowAdvances(x)
  BY RowStays, NumberedSame
<1>3. ASSUME NEW o \in Orders, BrokerExecutes(o) PROVE RowAdvances(x)
  <2>1. (x \in Numbered' <=> x \in Numbered) /\ book[o].rmn > 0
    BY <1>3, NumberedSame DEF BrokerExecutes
  <2>2. CASE x # o
    <3>1. book'[x] = book[x]
      BY <1>3, <2>2 DEF BrokerExecutes, TypeOK
    <3> QED
      BY <2>1, <3>1, RowStays
  <2>3. CASE x = o
    <3>1. book'[x] = [book[x] EXCEPT !.rmn = @ - 1, !.exec = @ + 1]
      BY <1>3, <2>3 DEF BrokerExecutes, TypeOK
    <3>2. /\ book'[x].rmn = book[x].rmn - 1 /\ book'[x].exec = book[x].exec + 1
          /\ book'[x].cncl = book[x].cncl /\ book'[x].rjct = book[x].rjct
      BY <1>1, <3>1 DEF Row
    <3>3. Sum(book'[x]) = Sum(book[x])
      BY <1>1, <3>2 DEF Sum
    <3> QED
      BY <1>1, <2>1, <3>2, <3>3 DEF RowAdvances
  <2> QED
    BY <2>2, <2>3
<1>4. ASSUME NEW o \in Orders, NEW k \in 1..book[o].rmn, NEW reported \in BOOLEAN,
             BrokerConfirms(o, k, reported)
      PROVE  RowAdvances(x)
  <2>1. (x \in Numbered' <=> x \in Numbered) /\ req[o].kind = "CANCEL"
    BY <1>4, NumberedSame DEF BrokerConfirms
  <2>2. CASE x # o
    <3>1. book'[x] = book[x]
      BY <1>4, <2>2 DEF BrokerConfirms, TypeOK
    <3> QED
      BY <2>1, <3>1, RowStays
  <2>3. CASE x = o
    <3> DEFINE cncl == IF reported THEN book[x].cncl + k ELSE book[x].cncl
               exec == IF reported THEN book[x].exec ELSE book[x].exec + k
    <3>1. book'[x] = [book[x] EXCEPT !.rmn = @ - k, !.cncl = cncl, !.exec = exec]
      BY <1>4, <2>3 DEF BrokerConfirms, TypeOK
    <3>2. /\ cncl \in Nat /\ exec \in Nat /\ k \in Nat
          /\ cncl <= book[x].cncl + k /\ exec >= book[x].exec
      BY <1>1, <2>3
    <3> HIDE DEF cncl, exec
    <3>3. /\ book'[x].rmn = book[x].rmn - k /\ book'[x].exec = exec
          /\ book'[x].cncl = cncl /\ book'[x].rjct = book[x].rjct
      BY <1>1, <3>1 DEF Row
    <3> QED
      BY <1>1, <2>1, <2>3, <3>2, <3>3 DEF RowAdvances
  <2> QED
    BY <2>2, <2>3
<1>5. ASSUME NEW o \in Orders, BrokerRejects(o) PROVE RowAdvances(x)
  <2>1. (x \in Numbered' <=> x \in Numbered) /\ book[o].rmn > 0
    BY <1>5, NumberedSame DEF BrokerRejects
  <2>2. CASE x # o
    <3>1. book'[x] = book[x]
      BY <1>5, <2>2 DEF BrokerRejects, TypeOK
    <3> QED
      BY <2>1, <3>1, RowStays
  <2>3. CASE x = o
    <3>1. book'[x] = [book[x] EXCEPT !.rmn = 0, !.rjct = @ + book[x].rmn]
      BY <1>5, <2>3 DEF BrokerRejects, TypeOK
    <3>2. /\ book'[x].rmn = 0 /\ book'[x].exec = book[x].exec
          /\ book'[x].cncl = book[x].cncl /\ book'[x].rjct = book[x].rjct + book[x].rmn
      BY <1>1, <3>1 DEF Row
    <3> QED
      BY <1>1, <2>1, <3>2 DEF RowAdvances, Sum
  <2> QED
    BY <2>2, <2>3
<1>6. ASSUME NEW w \in Submitters, NEW no \in {"empty", "number"}, NEW reported \in BOOLEAN,
             PostAnswered(w, no, reported)
      PROVE  RowAdvances(x) \/ RowOpens(x)
  <2> DEFINE o == sub[w].order
  <2>1. /\ o \in Orders /\ o \notin Numbered /\ status[o] = "PROCESSING"
        /\ CountInv
        /\ UNCHANGED <<status, req>>
        /\ BrokerTakes(o, TRUE, reported)
    BY <1>6 DEF PostAnswered, TypeOK, SubmissionInv, StageInv, Holding, dbVars
  <2>2. UNCHANGED orphans /\ accepted' = [accepted EXCEPT ![o] = @ + 1]
    BY <2>1 DEF BrokerTakes, TypeOK
  <2>3. x \in Numbered' <=> x \in Numbered \/ x = o
    BY <2>1, <2>2, TicketCounts
  <2>4. CASE x = o
    BY <2>1, <2>4 DEF RowOpens, BrokerTakes, BookAfter
  <2>5. CASE x # o
    BY <2>1, <2>3, <2>5, TakingAdvances
  <2> QED
    BY <2>4, <2>5
<1>7. ASSUME NEW w \in Submitters, NEW taken \in BOOLEAN, NEW reported \in BOOLEAN,
             PostTimeout(w, taken, reported)
      PROVE  RowAdvances(x)
  <2> DEFINE o == sub[w].order
  <2>1. o \in Orders /\ CountInv
    BY <1>7 DEF PostTimeout, TypeOK, SubmissionInv
  <2>2. CASE taken
    <3>1. BrokerTakes(o, FALSE, reported)
      BY <1>7, <2>2 DEF PostTimeout
    <3>2. /\ accepted' = [accepted EXCEPT ![o] = @ + 1]
          /\ orphans' = [orphans EXCEPT ![o] = @ + 1]
      BY <3>1 DEF BrokerTakes
    <3>3. x \in Numbered' <=> x \in Numbered
      BY <2>1, <3>2, TicketCounts
    <3> QED
      BY <2>1, <3>1, <3>3, TakingAdvances
  <2>3. CASE ~taken
    BY <1>2, <1>7, <2>3 DEF PostTimeout, brokerVars
  <2> QED
    BY <2>2, <2>3
<1>8. ASSUME NEW w \in Submitters, SubmitterStep(w) \/ SubmitterFault(w),
             ~\E no \in {"empty", "number"}, reported \in BOOLEAN : PostAnswered(w, no, reported),
             ~\E taken, reported \in BOOLEAN : PostTimeout(w, taken, reported)
      PROVE  RowAdvances(x)
  <2>1. UNCHANGED <<book, accepted, orphans>>
    BY <1>8
    DEF SubmitterStep, SubmitterFault, ClaimOrder, SkipOrder, VetOrder, RefuseOrder, PostRejected,
        BackOff, RequeueOrder, RecordSubmit, StartTracking, PostServerError, PostLimited,
        SubmitterCrash, brokerVars
  <2> QED
    BY <1>2, <2>1
<1>9. CASE Api \/ Recovery \/ \E w \in Trackers : TrackerStep(w) \/ TrackerFault(w)
  <2>1. UNCHANGED <<book, accepted, orphans>>
    <3>1. CASE Api
      BY <3>1 DEF Api, CreateNew, CreateChild, CreateRow, EnqueueNew, ApiCrash, SetKillSwitch, brokerVars
    <3>2. CASE Recovery
      BY <3>2 DEF Recovery, RecoverSubmitOrders, RecoverTrackingOrders, brokerVars
    <3>3. ASSUME NEW w \in Trackers, TrackerStep(w) \/ TrackerFault(w)
          PROVE  UNCHANGED <<book, accepted, orphans>>
      BY <3>3
      DEF TrackerStep, TrackerFault, LoadOrder, SkipTracking, QueryBroker, ApplySnapshot,
          TimeOutOrder, RequeueTracking, QueryFails, QueryRefused, TrackerCrash, brokerVars
    <3> QED
      BY <1>9, <3>1, <3>2, <3>3
  <2> QED
    BY <1>2, <2>1
<1>10. CASE Broker
  BY <1>3, <1>4, <1>5, <1>10 DEF Broker
<1>11. CASE UNCHANGED vars
  BY <1>2, <1>11 DEF vars, brokerVars
<1> QED
  BY <1>6, <1>7, <1>8, <1>9, <1>10, <1>11 DEF Next

\* What a step does to the row of o in the orders table.
RowKept(o) ==
  /\ status'[o] = status[o] /\ req'[o] = req[o]
  /\ filled'[o] = filled[o] /\ remaining'[o] = remaining[o]
RowCreated(o) ==
  /\ status[o] = "NONE" /\ status'[o] = "PENDING"
  /\ filled'[o] = filled[o] /\ remaining'[o] = req'[o].qty
RowClaimed(o) ==
  /\ {status[o], status'[o]} = {"PENDING", "PROCESSING"}
  /\ req'[o] = req[o] /\ filled'[o] = filled[o] /\ remaining'[o] = remaining[o]
RowRecorded(o) ==
  /\ status[o] = "PROCESSING" /\ status'[o] \in {"ACCEPTED", "REQUESTED"}
  /\ o \in Numbered
  /\ req'[o] = req[o] /\ filled'[o] = filled[o] /\ remaining'[o] = req[o].qty
RowWritten(o) ==
  \E w \in Trackers :
    /\ Busy(w) /\ trk[w].order = o /\ status[o] \in TRACKING_TARGET_STATUSES
    /\ status'[o] \in {trk[w].next, "TIMEOUT"}
    /\ req'[o] = req[o] /\ filled'[o] = trk[w].filled /\ remaining'[o] = trk[w].remaining
RowFailed(o) ==
  /\ status[o] \in TRACKING_TARGET_STATUSES /\ status'[o] = "FAILED"
  /\ req'[o] = req[o] /\ filled'[o] = filled[o] /\ remaining'[o] = remaining[o]
RowMoves(o) ==
  RowKept(o) \/ RowCreated(o) \/ RowClaimed(o) \/ RowRecorded(o) \/ RowWritten(o) \/ RowFailed(o)

\* A guarded write of worker-2 puts its snapshot into the row of its order.
LEMMA WriteMovesRow ==
  ASSUME TypeOK, NEW w \in Trackers, Busy(w), NEW expected \in SUBSET TRACKING_TARGET_STATUSES,
         NEW next, next \in {trk[w].next, "TIMEOUT"}, WriteSnapshot(trk[w], expected, next),
         UNCHANGED req, NEW x \in Orders
  PROVE  RowMoves(x)
<1> DEFINE o == trk[w].order
<1>1. o \in Orders
  BY DEF TypeOK, Busy
<1>2. CASE status[o] \in expected
  <2>1. /\ status' = [status EXCEPT ![o] = next]
        /\ filled' = [filled EXCEPT ![o] = trk[w].filled]
        /\ remaining' = [remaining EXCEPT ![o] = trk[w].remaining]
    BY <1>2 DEF WriteSnapshot
  <2>2. CASE x = o
    <3>1. status'[x] = next /\ filled'[x] = trk[w].filled /\ remaining'[x] = trk[w].remaining
      BY <1>1, <2>1, <2>2 DEF TypeOK
    <3> QED
      BY <1>2, <2>2, <3>1 DEF RowMoves, RowWritten
  <2>3. CASE x # o
    BY <2>1, <2>3 DEF TypeOK, RowMoves, RowKept
  <2> QED
    BY <2>2, <2>3
<1>3. CASE status[o] \notin expected
  BY <1>3 DEF WriteSnapshot, RowMoves, RowKept
<1> QED
  BY <1>2, <1>3

\* Every step of the system leaves a row alone or moves it in one of these ways.
LEMMA StepMovesRow ==
  ASSUME TypeOK, SubmissionInv, [Next]_vars, NEW x \in Orders
  PROVE  RowMoves(x)
<1>1. UNCHANGED <<status, req, filled, remaining>> => RowMoves(x)
  BY DEF RowMoves, RowKept
<1>2. CASE Api
  <2>1. ASSUME NEW o \in Orders, NEW r, CreateRow(o, r) PROVE RowMoves(x)
    BY <2>1 DEF CreateRow, TypeOK, RowMoves, RowKept, RowCreated
  <2> QED
    BY <1>1, <1>2, <2>1
    DEF Api, CreateNew, CreateChild, EnqueueNew, ApiCrash, SetKillSwitch, dbVars
<1>3. CASE Broker
  <2>1. ASSUME NEW o \in Orders, BrokerExecutes(o) PROVE UNCHANGED dbVars
    BY <2>1 DEF BrokerExecutes
  <2>2. ASSUME NEW o \in Orders, NEW k, NEW reported, BrokerConfirms(o, k, reported)
        PROVE  UNCHANGED dbVars
    BY <2>2 DEF BrokerConfirms
  <2>3. ASSUME NEW o \in Orders, BrokerRejects(o) PROVE UNCHANGED dbVars
    BY <2>3 DEF BrokerRejects
  <2>4. UNCHANGED dbVars
    BY <1>3, <2>1, <2>2, <2>3 DEF Broker
  <2> QED
    BY <1>1, <2>4 DEF dbVars
<1>4. ASSUME NEW w \in Submitters, SubmitterStep(w) \/ SubmitterFault(w) PROVE RowMoves(x)
  <2> DEFINE o == sub[w].order
  <2>1. (sub[w].pc # "idle" => o \in Orders) /\ StageInv
    BY DEF TypeOK, SubmissionInv
  <2>2. ASSUME NEW y \in Orders, ClaimOrder(w, y) PROVE RowMoves(x)
    BY <2>2 DEF ClaimOrder, Claimable, TypeOK, RowMoves, RowKept, RowClaimed
  <2>3. CASE BackOff(w)
    <3>1. o \in Orders /\ status[o] = "PROCESSING"
      BY <2>1, <2>3 DEF BackOff, StageInv, Holding
    <3> QED
      BY <2>3, <3>1 DEF BackOff, TypeOK, RowMoves, RowKept, RowClaimed
  <2>4. CASE RecordSubmit(w)
    <3>1. o \in Orders /\ status[o] = "PROCESSING" /\ o \in Numbered
      BY <2>1, <2>4 DEF RecordSubmit, StageInv, Holding
    <3>2. \/ UNCHANGED <<status, remaining>>
          \/ /\ \E s \in {"ACCEPTED", "REQUESTED"} : status' = [status EXCEPT ![o] = s]
             /\ remaining' = [remaining EXCEPT ![o] = req[o].qty]
      BY <2>4 DEF RecordSubmit
    <3>3. UNCHANGED <<req, filled>>
      BY <2>4 DEF RecordSubmit
    <3> QED
      BY <1>1, <3>1, <3>2, <3>3 DEF TypeOK, RowMoves, RowKept, RowRecorded
  <2>5. CASE ~(\E y \in Orders : ClaimOrder(w, y)) /\ ~BackOff(w) /\ ~RecordSubmit(w)
    <3>1. UNCHANGED dbVars
      BY <1>4, <2>5
      DEF SubmitterStep, SubmitterFault, SkipOrder, VetOrder, RefuseOrder, PostAnswered,
          PostRejected, RequeueOrder, StartTracking, PostTimeout, PostServerError, PostLimited,
          SubmitterCrash, GiveUp
    <3> QED
      BY <1>1, <3>1 DEF dbVars
  <2> QED
    BY <2>2, <2>3, <2>4, <2>5
<1>5. ASSUME NEW w \in Trackers, TrackerStep(w) \/ TrackerFault(w) PROVE RowMoves(x)
  <2>1. CASE ApplySnapshot(w)
    <3>1. ExpectedStatuses(trk[w].seen) \in SUBSET TRACKING_TARGET_STATUSES
      BY DEF ExpectedStatuses
    <3>2. WriteSnapshot(trk[w], ExpectedStatuses(trk[w].seen), trk[w].next) /\ Busy(w) /\ UNCHANGED req
      BY <2>1 DEF ApplySnapshot, Busy
    <3> QED
      BY <3>1, <3>2, WriteMovesRow
  <2>2. CASE TimeOutOrder(w)
    <3>1. WriteSnapshot(trk[w], TRACKING_TARGET_STATUSES, "TIMEOUT") /\ Busy(w) /\ UNCHANGED req
      BY <2>2 DEF TimeOutOrder, Busy
    <3> QED
      BY <3>1, WriteMovesRow
  <2>3. CASE QueryRefused(w)
    BY <2>3 DEF QueryRefused, TypeOK, RowMoves, RowKept, RowFailed
  <2>4. CASE ~ApplySnapshot(w) /\ ~TimeOutOrder(w) /\ ~QueryRefused(w)
    <3>1. UNCHANGED dbVars
      BY <1>5, <2>4
      DEF TrackerStep, TrackerFault, LoadOrder, SkipTracking, QueryBroker, RequeueTracking,
          QueryFails, TrackerCrash
    <3> QED
      BY <1>1, <3>1 DEF dbVars
  <2> QED
    BY <2>1, <2>2, <2>3, <2>4
<1>6. CASE Recovery
  BY <1>1, <1>6 DEF Recovery, RecoverSubmitOrders, RecoverTrackingOrders, dbVars
<1>7. CASE UNCHANGED vars
  BY <1>1, <1>7 DEF vars, dbVars
<1> QED
  BY <1>2, <1>3, <1>4, <1>5, <1>6, <1>7 DEF Next

\* What a step does to a worker-2 process.
TaskEnds(w) == trk'[w] = IdleTracker
TaskLoads(w) ==
  \E o \in Orders, a \in 0..MaxAttempts : \E over \in WindowOver(a) :
    /\ Trackable(o) /\ UNCHANGED <<status, req>>
    /\ trk'[w] = [pc |-> "loaded", order |-> o, attempt |-> a, expired |-> over,
                  seen |-> status[o], next |-> status[o], filled |-> filled[o],
                  remaining |-> remaining[o], raises |-> FALSE]
TaskAnswers(w) ==
  /\ trk[w].pc = "loaded" /\ UNCHANGED <<status, req>>
  /\ \E listed \in BOOLEAN : trk'[w] = Snapshot(trk[w], listed)
TaskGoesOn(w) ==
  /\ Busy(w)
  /\ trk'[w] = [trk[w] EXCEPT !.pc = IF trk[w].expired THEN "expired" ELSE "requeue"]
TaskMoves(w) ==
  trk'[w] = trk[w] \/ TaskEnds(w) \/ TaskLoads(w) \/ TaskAnswers(w) \/ TaskGoesOn(w)

\* Every step of the system leaves a worker-2 process alone or moves it on.
LEMMA StepMovesTask ==
  ASSUME TypeOK, [Next]_vars, NEW v \in Trackers
  PROVE  TaskMoves(v)
<1>1. UNCHANGED trk => TaskMoves(v)
  BY DEF TaskMoves
<1>2. CASE Api \/ Recovery
  BY <1>1, <1>2
  DEF Api, CreateNew, CreateChild, CreateRow, EnqueueNew, ApiCrash, SetKillSwitch, Recovery,
      RecoverSubmitOrders, RecoverTrackingOrders
<1>3. CASE Broker
  <2>1. ASSUME NEW o \in Orders, BrokerExecutes(o) PROVE UNCHANGED trk
    BY <2>1 DEF BrokerExecutes
  <2>2. ASSUME NEW o \in Orders, NEW k, NEW reported, BrokerConfirms(o, k, reported)
        PROVE  UNCHANGED trk
    BY <2>2 DEF BrokerConfirms
  <2>3. ASSUME NEW o \in Orders, BrokerRejects(o) PROVE UNCHANGED trk
    BY <2>3 DEF BrokerRejects
  <2> QED
    BY <1>1, <1>3, <2>1, <2>2, <2>3 DEF Broker
<1>4. ASSUME NEW w \in Submitters, SubmitterStep(w) \/ SubmitterFault(w) PROVE TaskMoves(v)
  <2>1. UNCHANGED trk
    BY <1>4
    DEF SubmitterStep, SubmitterFault, ClaimOrder, SkipOrder, VetOrder, RefuseOrder, PostAnswered,
        PostRejected, BackOff, RequeueOrder, RecordSubmit, StartTracking, PostTimeout,
        PostServerError, PostLimited, SubmitterCrash, GiveUp
  <2> QED
    BY <1>1, <2>1
<1>5. ASSUME NEW w \in Trackers, TrackerStep(w) \/ TrackerFault(w) PROVE TaskMoves(v)
  <2>1. ASSUME NEW t, trk' = [trk EXCEPT ![w] = t]
        PROVE  trk'[v] = IF v = w THEN t ELSE trk[v]
    BY <2>1 DEF TypeOK
  <2>2. ASSUME NEW o \in Orders, NEW a \in 0..MaxAttempts, NEW over \in WindowOver(a),
               LoadOrder(w, o, a, over)
        PROVE  TaskMoves(v)
    <3> DEFINE t == [pc |-> "loaded", order |-> o, attempt |-> a, expired |-> over,
                     seen |-> status[o], next |-> status[o], filled |-> filled[o],
                     remaining |-> remaining[o], raises |-> FALSE]
    <3>1. trk' = [trk EXCEPT ![w] = t] /\ Trackable(o) /\ UNCHANGED <<status, req>>
      BY <2>2 DEF LoadOrder, dbVars
    <3>2. trk'[v] = IF v = w THEN t ELSE trk[v]
      BY <2>1, <3>1
    <3>3. CASE v = w
      <4>1. TaskLoads(v)
        BY <3>1, <3>2, <3>3 DEF TaskLoads
      <4> QED
        BY <4>1 DEF TaskMoves
    <3> QED
      BY <3>2, <3>3 DEF TaskMoves
  <2>3. ASSUME NEW listed \in BOOLEAN, QueryBroker(w, listed) PROVE TaskMoves(v)
    <3>1. \/ trk' = [trk EXCEPT ![w] = Snapshot(trk[w], listed)]
          \/ trk' = [trk EXCEPT ![w] = IdleTracker]
      BY <2>3 DEF QueryBroker
    <3>2. trk[w].pc = "loaded" /\ UNCHANGED <<status, req>>
      BY <2>3 DEF QueryBroker, dbVars
    <3>3. CASE trk' = [trk EXCEPT ![w] = IdleTracker]
      BY <2>1, <3>3 DEF TaskMoves, TaskEnds
    <3>4. CASE trk' = [trk EXCEPT ![w] = Snapshot(trk[w], listed)]
      <4>1. trk'[v] = IF v = w THEN Snapshot(trk[w], listed) ELSE trk[v]
        BY <2>1, <3>4
      <4> QED
        BY <3>2, <4>1 DEF TaskMoves, TaskAnswers
    <3> QED
      BY <3>1, <3>3, <3>4
  <2>4. Forget(w) => TaskMoves(v)
    BY <2>1 DEF Forget, TaskMoves, TaskEnds
  <2>5. CASE QueryFails(w)
    <3>1. \/ Forget(w)
          \/ ~trk[w].expired /\ trk' = [trk EXCEPT ![w] = [trk[w] EXCEPT !.pc = "requeue"]]
      BY <2>5 DEF QueryFails, TypeOK
    <3>2. Busy(w)
      BY <2>5 DEF QueryFails, Busy
    <3> QED
      BY <2>1, <2>4, <3>1, <3>2 DEF TaskMoves, TaskGoesOn
  <2>6. CASE ApplySnapshot(w)
    <3>1. \/ Forget(w)
          \/ trk' = [trk EXCEPT ![w] =
               [trk[w] EXCEPT !.pc = IF trk[w].expired THEN "expired" ELSE "requeue"]]
      BY <2>6 DEF ApplySnapshot, AfterApply, Forget
    <3>2. Busy(w)
      BY <2>6 DEF ApplySnapshot, Busy
    <3> QED
      BY <2>1, <2>4, <3>1, <3>2 DEF TaskMoves, TaskGoesOn
  <2>7. ASSUME NEW o \in Orders, NEW a \in 0..MaxAttempts, SkipTracking(w, o, a)
        PROVE  TaskMoves(v)
    BY <1>1, <2>7 DEF SkipTracking
  <2>8. CASE QueryRefused(w) \/ TimeOutOrder(w) \/ RequeueTracking(w) \/ TrackerCrash(w)
    BY <2>4, <2>8 DEF QueryRefused, TimeOutOrder, RequeueTracking, TrackerCrash
  <2> QED
    BY <1>5, <2>2, <2>3, <2>5, <2>6, <2>7, <2>8 DEF TrackerStep, TrackerFault
<1>6. CASE UNCHANGED vars
  BY <1>1, <1>6 DEF vars
<1> QED
  BY <1>2, <1>3, <1>4, <1>5, <1>6 DEF Next

\* What a snapshot read off the book says: FILLED and CANCELED of orders with
\* nothing open, FILLED only when everything was executed, PARTIAL_FILLED only
\* and ACCEPTED never once something was, and never REQUESTED.
LEMMA RowStatusSays ==
  ASSUME NEW ord \in Nat, NEW row \in Row, NEW kind, NEW child,
         NEW s, s = RowStatus(kind, child, ord, row)
  PROVE  /\ s \in BrokerStatuses \ {"REQUESTED"}
         /\ s \in {"FILLED", "CANCELED"} => row.rmn = 0
         /\ s = "FILLED" => RowFilled(ord, row) >= ord
         /\ s = "PARTIAL_FILLED" => RowFilled(ord, row) > 0
         /\ s = "ACCEPTED" => RowFilled(ord, row) = 0
<1> DEFINE fill == RowFilled(ord, row)
<1>1. /\ row.rmn \in Nat /\ row.cncl \in Nat /\ row.rjct \in Nat /\ fill \in Nat
      /\ s \in BrokerStatuses
  BY RowTypes DEF Row
<1>2. fill = AtLeastZero(ord - row.rmn - row.cncl - row.rjct)
  BY DEF RowFilled
<1>3. fill >= ord /\ ord > 0 => row.rmn = 0
  BY <1>1, <1>2 DEF AtLeastZero
<1> DEFINE Says(x) ==
             /\ x # "REQUESTED"
             /\ x \in {"FILLED", "CANCELED"} => row.rmn = 0
             /\ x = "FILLED" => fill >= ord
             /\ x = "PARTIAL_FILLED" => fill > 0
             /\ x = "ACCEPTED" => fill = 0
<1> HIDE DEF fill
<1>4. Says(ParentStatus(ord, fill, row.rmn))
  <2>1. CASE fill >= ord /\ ord > 0
    BY <1>3, <2>1 DEF ParentStatus
  <2>2. CASE ~(fill >= ord /\ ord > 0) /\ row.rmn > 0
    BY <1>1, <2>2 DEF ParentStatus
  <2>3. CASE ~(fill >= ord /\ ord > 0) /\ row.rmn = 0
    BY <1>1, <2>3 DEF ParentStatus
  <2> QED
    BY <1>1, <2>1, <2>2, <2>3
<1>5. Says(LeafStatus(ord, row))
  <2>1. LeafStatus(ord, row) =
          CASE row.rmn > 0 -> IF fill > 0 THEN "PARTIAL_FILLED" ELSE "ACCEPTED"
            [] row.rmn = 0 /\ ord > 0 /\ fill >= ord -> "FILLED"
            [] row.rmn = 0 /\ ~(ord > 0 /\ fill >= ord) ->
                 IF row.cncl > 0 THEN "CANCELED"
                 ELSE IF row.rjct > 0 THEN "FAILED"
                 ELSE IF fill > 0 THEN "CANCELED"
                 ELSE "ACCEPTED"
    BY Zenon DEF LeafStatus, fill
  <2>2. CASE row.rmn > 0
    BY <1>1, <2>1, <2>2
  <2>3. CASE row.rmn = 0 /\ ord > 0 /\ fill >= ord
    BY <1>1, <2>1, <2>3
  <2>4. CASE row.rmn = 0 /\ ~(ord > 0 /\ fill >= ord)
    BY <1>1, <2>1, <2>4
  <2> QED
    BY <1>1, <2>2, <2>3, <2>4
<1>6. s = ParentStatus(ord, fill, row.rmn) \/ s = LeafStatus(ord, row)
  BY DEF RowStatus, fill
<1> QED
  BY <1>1, <1>4, <1>5, <1>6 DEF fill

\* What a busy worker-2 process carries after a step: the task and the snapshot it
\* had, the row it has just loaded, or what the broker has just answered.
SameTask(w) ==
  /\ Busy(w) /\ trk'[w].order = trk[w].order /\ trk'[w].seen = trk[w].seen
  /\ trk'[w].attempt = trk[w].attempt /\ trk'[w].expired = trk[w].expired
SameSnapshot(w) ==
  /\ trk'[w].next = trk[w].next
  /\ trk'[w].filled = trk[w].filled /\ trk'[w].remaining = trk[w].remaining
Carries(w) ==
  /\ SameTask(w) /\ SameSnapshot(w) /\ trk'[w].raises = trk[w].raises
  /\ trk'[w].pc \in {trk[w].pc, IF trk[w].expired THEN "expired" ELSE "requeue"}
JustLoaded(w) ==
  \E o \in Orders :
    /\ Trackable(o) /\ UNCHANGED <<status, req>> /\ trk'[w].order = o
    /\ trk'[w].seen = status[o] /\ trk'[w].next = status[o]
    /\ trk'[w].filled = filled[o] /\ trk'[w].remaining = remaining[o]
    /\ trk'[w].pc = "loaded" /\ ~trk'[w].raises
    /\ trk'[w].attempt = MaxAttempts => trk'[w].expired
JustAnswered(w) ==
  LET o == trk[w].order IN
  /\ SameTask(w) /\ UNCHANGED <<status, req>>
  /\ trk[w].pc = "loaded" /\ trk'[w].pc = "answered"
  /\ trk'[w].raises => req[o].kind = "CANCEL"
  /\ \/ SameSnapshot(w)
     \/ /\ \E child : trk'[w].next = RowStatus(req[o].kind, child, req[o].qty, book[o])
        /\ trk'[w].filled = RowFilled(req[o].qty, book[o])
        /\ trk'[w].remaining = book[o].rmn

\* The fields of the snapshot, for any row of the book.
LEMMA SnapshotFields ==
  ASSUME NEW t \in TrackerState, NEW listed \in BOOLEAN, NEW s, s = Snapshot(t, listed)
  PROVE  LET o == t.order IN
         /\ s.order = o /\ s.seen = t.seen /\ s.attempt = t.attempt /\ s.expired = t.expired
         /\ s.pc = "answered"
         /\ s.raises => req[o].kind = "CANCEL"
         /\ \/ s.next = t.next /\ s.filled = t.filled /\ s.remaining = t.remaining
            \/ /\ \E child : s.next = RowStatus(req[o].kind, child, req[o].qty, book[o])
               /\ s.filled = RowFilled(req[o].qty, book[o])
               /\ s.remaining = book[o].rmn
<1> DEFINE o == t.order
           next == RowStatus(req[o].kind, HasChild(o), req[o].qty, book[o])
           fill == RowFilled(req[o].qty, book[o])
           toParent(x) == req[o].kind = "CANCEL" /\ x \in {"CANCELED", "FILLED", "PARTIAL_FILLED"}
           raises == toParent(next) /\ DeltaCancelQty(req[o].qty, book[o].rmn, book[o].rjct, fill) > 0
<1>1. CASE listed
  <2>1. s = [t EXCEPT !.pc = "answered", !.next = next, !.filled = fill,
                      !.remaining = book[o].rmn, !.raises = raises]
    BY <1>1 DEF Snapshot
  <2>2. raises => req[o].kind = "CANCEL"
    OBVIOUS
  <2>3. \E child : next = RowStatus(req[o].kind, child, req[o].qty, book[o])
    OBVIOUS
  <2> HIDE DEF next, fill, raises
  <2>4. /\ s.order = o /\ s.seen = t.seen /\ s.attempt = t.attempt /\ s.expired = t.expired
        /\ s.pc = "answered" /\ s.next = next /\ s.filled = fill
        /\ s.remaining = book[o].rmn /\ s.raises = raises
    BY <2>1 DEF TrackerState
  <2>5. s.filled = RowFilled(req[o].qty, book[o])
    BY <2>4 DEF fill
  <2> QED
    BY <2>2, <2>3, <2>4, <2>5
<1>2. CASE ~listed
  <2>1. s = [t EXCEPT !.pc = "answered", !.raises = toParent(t.next)]
    BY <1>2 DEF Snapshot
  <2>2. /\ s.order = o /\ s.seen = t.seen /\ s.attempt = t.attempt /\ s.expired = t.expired
        /\ s.pc = "answered" /\ s.next = t.next /\ s.filled = t.filled
        /\ s.remaining = t.remaining /\ s.raises = toParent(t.next)
    <3> HIDE DEF toParent
    <3> QED BY <2>1 DEF TrackerState
  <2> QED
    BY <2>2
<1> QED
  BY <1>1, <1>2

\* A busy worker-2 process carries one of these three things after any step.
LEMMA TaskCarries ==
  ASSUME TypeOK, NEW w \in Trackers, TaskMoves(w), trk'[w].pc # "idle"
  PROVE  Carries(w) \/ JustLoaded(w) \/ JustAnswered(w)
<1>1. trk[w] \in TrackerState
  BY DEF TypeOK
<1>2. CASE trk'[w] = trk[w]
  BY <1>2 DEF Carries, SameTask, SameSnapshot, Busy
<1>3. CASE TaskEnds(w)
  BY <1>3 DEF TaskEnds, IdleTracker
<1>4. CASE TaskLoads(w)
  <2>1. PICK o \in Orders, a \in 0..MaxAttempts :
          \E over \in WindowOver(a) :
            /\ Trackable(o) /\ UNCHANGED <<status, req>>
            /\ trk'[w] = [pc |-> "loaded", order |-> o, attempt |-> a, expired |-> over,
                          seen |-> status[o], next |-> status[o], filled |-> filled[o],
                          remaining |-> remaining[o], raises |-> FALSE]
    BY <1>4 DEF TaskLoads
  <2>2. PICK over \in WindowOver(a) :
          /\ Trackable(o) /\ UNCHANGED <<status, req>>
          /\ trk'[w] = [pc |-> "loaded", order |-> o, attempt |-> a, expired |-> over,
                        seen |-> status[o], next |-> status[o], filled |-> filled[o],
                        remaining |-> remaining[o], raises |-> FALSE]
    BY <2>1
  <2>3. a = MaxAttempts => over
    BY <2>2, BoundsAssumption DEF WindowOver, BoundsAssumption
  <2>4. JustLoaded(w)
    BY <2>2, <2>3 DEF JustLoaded
  <2> QED
    BY <2>4
<1>5. CASE TaskAnswers(w)
  <2>1. PICK listed \in BOOLEAN : trk'[w] = Snapshot(trk[w], listed)
    BY <1>5 DEF TaskAnswers
  <2>2. trk[w].pc = "loaded" /\ UNCHANGED <<status, req>> /\ Busy(w)
    BY <1>5 DEF TaskAnswers, Busy
  <2>3. JustAnswered(w)
    BY <1>1, <2>1, <2>2, SnapshotFields DEF JustAnswered, SameTask, SameSnapshot
  <2> QED
    BY <2>3
<1>6. CASE TaskGoesOn(w)
  <2> DEFINE pc == IF trk[w].expired THEN "expired" ELSE "requeue"
  <2>1. trk'[w] = [trk[w] EXCEPT !.pc = pc] /\ Busy(w)
    BY <1>6 DEF TaskGoesOn
  <2> HIDE DEF pc
  <2>2. /\ trk'[w].order = trk[w].order /\ trk'[w].seen = trk[w].seen
        /\ trk'[w].attempt = trk[w].attempt /\ trk'[w].expired = trk[w].expired
        /\ trk'[w].next = trk[w].next /\ trk'[w].filled = trk[w].filled
        /\ trk'[w].remaining = trk[w].remaining /\ trk'[w].raises = trk[w].raises
        /\ trk'[w].pc = pc
    BY <1>1, <2>1 DEF TrackerState
  <2> QED
    BY <2>1, <2>2 DEF pc, Carries, SameTask, SameSnapshot
<1> QED
  BY <1>2, <1>3, <1>4, <1>5, <1>6 DEF TaskMoves

-----------------------------------------------------------------------------
(* The invariant is kept.                                                   *)

\* The initial state satisfies the invariant: no rows, no tickets, no tasks.
LEMMA TrackingInit == Init => TrackingInv
<1> SUFFICES ASSUME Init PROVE TrackingInv
  OBVIOUS
<1>1. /\ \A o \in Orders : /\ status[o] = "NONE" /\ req[o] = NoRequest /\ o \notin Numbered
                           /\ filled[o] = 0 /\ remaining[o] = 0 /\ book[o] = NoTicket
      /\ \A w \in Trackers : ~Busy(w)
  BY DEF Init, Busy, IdleTracker, Numbered, HasTicket
<1>2. NoRequest.qty = 0 /\ NoTicket.exec = 0
  BY DEF NoRequest, NoTicket
<1> QED
  BY <1>1, <1>2
  DEF TrackingInv, RowInv, LedgerInv, OpenInv, PartialInv, TaskInv, Unsubmitted, Sound

\* The facts about one step that every part of the invariant is kept by.
StepFacts ==
  /\ TypeOK /\ TypeOK' /\ SubmissionInv /\ SubmissionInv' /\ RowInv
  /\ \A o \in Orders : RowMoves(o) /\ (RowAdvances(o) \/ RowOpens(o))
  /\ \A w \in Trackers : trk'[w].pc # "idle" => Carries(w) \/ JustLoaded(w) \/ JustAnswered(w)

\* They hold of every step.
LEMMA EveryStep ==
  ASSUME TypeOK, SubmissionInv, SubmissionInv', RowInv, [Next]_vars
  PROVE  StepFacts
  BY TypeStep, BookMoves, StepMovesRow, StepMovesTask, TaskCarries DEF StepFacts

\* A row nobody has recorded yet claims nothing, and is not tracked.
LEMMA RowInvKept == StepFacts => RowInv'
<1> SUFFICES ASSUME StepFacts PROVE RowInv'
  OBVIOUS
<1>1. ASSUME NEW o \in Orders
      PROVE  /\ status'[o] = "NONE" => req'[o] = NoRequest
             /\ status'[o] \in Unsubmitted => filled'[o] = 0 /\ remaining'[o] = req'[o].qty
             /\ status'[o] \notin Unsubmitted => o \in Numbered'
             /\ status[o] \notin Unsubmitted => status'[o] \notin Unsubmitted
  <2>1. /\ status[o] = "NONE" => req[o] = NoRequest
        /\ status[o] \in Unsubmitted => filled[o] = 0 /\ remaining[o] = req[o].qty
        /\ status[o] \notin Unsubmitted => o \in Numbered
        /\ RowMoves(o)
    BY DEF StepFacts, RowInv
  <2>2. o \in Numbered /\ status[o] \notin Unsubmitted => o \in Numbered'
    BY DEF StepFacts, RowAdvances, RowOpens, Unsubmitted
  <2>3. CASE RowKept(o) \/ RowCreated(o) \/ RowClaimed(o)
    BY <2>1, <2>2, <2>3 DEF RowKept, RowCreated, RowClaimed, Unsubmitted
  <2>4. CASE RowRecorded(o)
    <3>1. o \in Numbered'
      <4>1. RowOpens(o) => FALSE
        BY <2>4 DEF RowOpens, RowRecorded
      <4> QED
        BY <2>4, <4>1 DEF StepFacts, RowAdvances, RowRecorded
    <3> QED
      BY <2>1, <2>4, <3>1 DEF RowRecorded, Unsubmitted
  <2>5. CASE RowWritten(o) \/ RowFailed(o)
    <3>1. status[o] \notin Unsubmitted
      BY <2>5 DEF RowWritten, RowFailed, Unsubmitted, TRACKING_TARGET_STATUSES
    <3>2. \A w \in Trackers : trk[w].next \in BrokerStatuses
      BY DEF StepFacts, TypeOK, TrackerState, BrokerStatuses
    <3>3. status'[o] \in BrokerStatuses
      BY <2>5, <3>2 DEF RowWritten, RowFailed, BrokerStatuses, TERMINAL_STATES
    <3>4. status'[o] \notin Unsubmitted
      BY <3>3 DEF BrokerStatuses, Unsubmitted, TRACKING_TARGET_STATUSES, TERMINAL_STATES
    <3> QED
      BY <2>1, <2>2, <3>1, <3>4 DEF Unsubmitted
  <2> QED
    BY <2>1, <2>3, <2>4, <2>5 DEF RowMoves
<1>2. ASSUME NEW w \in Trackers, trk'[w].pc # "idle"
      PROVE  status'[trk'[w].order] \notin Unsubmitted
  <2>1. CASE SameTask(w)
    <3>1. trk[w].order \in Orders /\ status[trk[w].order] \notin Unsubmitted
      BY <2>1 DEF SameTask, StepFacts, RowInv, TypeOK, Busy
    <3> QED
      BY <1>1, <2>1, <3>1 DEF SameTask
  <2>2. CASE JustLoaded(w)
    BY <2>2 DEF JustLoaded, Trackable, Unsubmitted, TRACKING_TARGET_STATUSES
  <2> QED
    BY <1>2, <2>1, <2>2 DEF StepFacts, Carries, JustAnswered
<1> QED
  BY <1>1, <1>2 DEF RowInv, Busy

\* An order that just got its number is not tracked yet; the row of any other
\* tracked order goes one way, and its request is never changed.
LEMMA TrackedAdvances ==
  ASSUME StepFacts, NEW o \in Orders, status[o] \notin Unsubmitted
  PROVE  RowAdvances(o) /\ req'[o] = req[o]
<1>1. ~RowOpens(o)
  BY DEF RowOpens, Unsubmitted
<1>2. req'[o] = req[o]
  BY
  DEF StepFacts, RowMoves, RowKept, RowCreated, RowClaimed, RowRecorded, RowWritten, RowFailed,
      Unsubmitted
<1> QED
  BY <1>1, <1>2 DEF StepFacts

\* No row of the table loses the property that nobody modified its order.
LEMMA MovedStaysMoved ==
  ASSUME StepFacts, NEW o \in Orders, NotMoved(o)'
  PROVE  NotMoved(o)
<1> SUFFICES ASSUME NEW c \in Orders, req[c].parent = o PROVE req[c].kind # "MODIFY"
  BY DEF NotMoved
<1>1. req'[c] = req[c] \/ status[c] = "NONE"
  BY DEF StepFacts, RowMoves, RowKept, RowCreated, RowClaimed, RowRecorded, RowWritten, RowFailed
<1>2. CASE status[c] = "NONE"
  BY <1>2 DEF StepFacts, RowInv, NoRequest
<1>3. CASE req'[c] = req[c]
  BY <1>3 DEF NotMoved
<1> QED
  BY <1>1, <1>2, <1>3

\* The ledger of a new order nobody modified stays sound: the broker's row adds
\* up, and neither the orders table nor a snapshot on its way to it, however old,
\* claims more than was executed.
LEMMA LedgerKept == StepFacts /\ LedgerInv => LedgerInv'
<1> SUFFICES ASSUME StepFacts, LedgerInv, NEW o \in Orders, req'[o].kind = "NEW", NotMoved(o)'
             PROVE  /\ o \in Numbered' => Sum(book'[o]) = req'[o].qty
                    /\ Sound(o, status[o], filled[o], remaining[o])'
                    /\ \A w \in Trackers : trk'[w].pc # "idle" /\ trk'[w].order = o =>
                         Sound(o, trk[w].next, trk[w].filled, trk[w].remaining)'
  BY DEF LedgerInv, Busy
<1>1. /\ book[o].rmn \in Nat /\ book[o].cncl \in Nat /\ book[o].rjct \in Nat /\ book[o].exec \in Nat
      /\ book'[o].rmn \in Nat /\ book'[o].cncl \in Nat /\ book'[o].rjct \in Nat /\ book'[o].exec \in Nat
      /\ book[o] \in Row /\ req[o].qty \in Nat /\ req'[o].qty \in Nat
      /\ status[o] \in Unsubmitted \cup BrokerStatuses
  <2>1. /\ TypeOK /\ TypeOK'
        /\ book[o] \in Row /\ book'[o] \in Row /\ req[o] \in Request /\ req'[o] \in Request
    BY DEF StepFacts, TypeOK
  <2> QED
    BY <2>1, RequestTypes DEF TypeOK, Row, ORDER_STATUS, Unsubmitted, BrokerStatuses
<1>2. NotMoved(o)
  BY MovedStaysMoved
<1>3. /\ status'[o] \in Unsubmitted => filled'[o] = 0 /\ remaining'[o] = req'[o].qty
      /\ \A w \in Trackers : trk'[w].pc # "idle" => status'[trk'[w].order] \notin Unsubmitted
      /\ status'[o] \in {"NONE", "PENDING"} => o \notin Numbered'
  BY RowInvKept DEF RowInv, Busy, StepFacts, SubmissionInv, StageInv
<1>4. CASE status[o] \notin Unsubmitted
  <2>1. /\ RowAdvances(o) /\ req'[o] = req[o] /\ o \in Numbered
        /\ Sum(book[o]) = req[o].qty
        /\ Sound(o, status[o], filled[o], remaining[o])
        /\ \A w \in Trackers : Busy(w) /\ trk[w].order = o =>
             Sound(o, trk[w].next, trk[w].filled, trk[w].remaining)
    BY <1>2, <1>4, TrackedAdvances DEF LedgerInv, StepFacts, RowInv
  <2>2. /\ Sum(book'[o]) = req[o].qty /\ book'[o].exec >= book[o].exec
        /\ book'[o].exec <= req[o].qty /\ book[o].exec <= req[o].qty
    <3>1. Sum(book'[o]) = req[o].qty /\ book'[o].exec >= book[o].exec
      BY <1>2, <2>1 DEF RowAdvances
    <3> QED
      BY <1>1, <2>1, <3>1 DEF Sum
  <2>3. ASSUME NEW next, NEW fill \in Nat, NEW rem \in Nat, Sound(o, next, fill, rem)
        PROVE  /\ fill <= book'[o].exec
               /\ next = "FILLED" => book'[o].exec = req'[o].qty
               /\ fill + rem <= req'[o].qty
    BY <1>1, <2>1, <2>2, <2>3 DEF Sound
  <2>4. Sound(o, status[o], filled[o], remaining[o])'
    <3>1. filled[o] \in Nat /\ remaining[o] \in Nat
      BY DEF StepFacts, TypeOK
    <3>2. ASSUME status'[o] \in {status[o], "FAILED"},
                 filled'[o] = filled[o], remaining'[o] = remaining[o]
          PROVE  Sound(o, status[o], filled[o], remaining[o])'
      BY <2>1, <2>3, <3>1, <3>2 DEF Sound
    <3>3. CASE RowWritten(o)
      <4>1. PICK w \in Trackers :
              /\ Busy(w) /\ trk[w].order = o /\ status'[o] \in {trk[w].next, "TIMEOUT"}
              /\ filled'[o] = trk[w].filled /\ remaining'[o] = trk[w].remaining
        BY <3>3 DEF RowWritten
      <4>2. trk[w].filled \in Nat /\ trk[w].remaining \in Nat
        BY DEF StepFacts, TypeOK, TrackerState
      <4>3. Sound(o, trk[w].next, trk[w].filled, trk[w].remaining)
        BY <2>1, <4>1
      <4> QED
        BY <2>3, <4>1, <4>2, <4>3 DEF Sound
    <3> QED
      BY <1>4, <3>2, <3>3
      DEF StepFacts, RowMoves, RowKept, RowCreated, RowClaimed, RowRecorded, RowFailed, Unsubmitted
  <2>5. ASSUME NEW w \in Trackers, trk'[w].pc # "idle", trk'[w].order = o
        PROVE  Sound(o, trk[w].next, trk[w].filled, trk[w].remaining)'
    <3>1. trk[w].filled \in Nat /\ trk[w].remaining \in Nat /\ filled[o] \in Nat /\ remaining[o] \in Nat
      BY DEF StepFacts, TypeOK, TrackerState
    <3>2. CASE SameTask(w) /\ SameSnapshot(w)
      <4>1. Sound(o, trk[w].next, trk[w].filled, trk[w].remaining)
        BY <2>1, <2>5, <3>2 DEF SameTask
      <4> QED
        BY <2>3, <3>1, <3>2, <4>1 DEF Sound, SameSnapshot
    <3>3. CASE JustLoaded(w)
      <4>1. /\ trk'[w].next = status[o] /\ trk'[w].filled = filled[o]
            /\ trk'[w].remaining = remaining[o]
        BY <2>5, <3>3 DEF JustLoaded
      <4> QED
        BY <2>1, <2>3, <3>1, <4>1 DEF Sound
    <3>4. CASE JustAnswered(w) /\ ~SameSnapshot(w)
      <4> DEFINE fill == RowFilled(req[o].qty, book[o])
      <4>1. trk[w].order = o
        BY <2>5, <3>4 DEF JustAnswered, SameTask
      <4>2. PICK child : trk'[w].next = RowStatus(req[o].kind, child, req[o].qty, book[o])
        BY <3>4, <4>1 DEF JustAnswered
      <4>3. trk'[w].filled = fill /\ trk'[w].remaining = book[o].rmn
        BY <3>4, <4>1 DEF JustAnswered
      <4>4. fill = book[o].exec
        <5>1. req[o].qty - book[o].rmn - book[o].cncl - book[o].rjct = book[o].exec
          BY <1>1, <2>1 DEF Sum
        <5> QED
          BY <1>1, <5>1 DEF RowFilled, AtLeastZero
      <4>5. trk'[w].next = "FILLED" => fill >= req[o].qty
        <5>1. RowStatus(req[o].kind, child, req[o].qty, book[o]) = "FILLED" =>
                RowFilled(req[o].qty, book[o]) >= req[o].qty
          BY <1>1, RowStatusSays
        <5> QED
          BY <4>2, <5>1
      <4>6. fill + book[o].rmn <= req[o].qty
        BY <1>1, <2>1, <4>4 DEF Sum
      <4> HIDE DEF fill
      <4>7. Sound(o, trk'[w].next, trk'[w].filled, trk'[w].remaining)
        BY <1>1, <2>2, <4>3, <4>4, <4>5, <4>6 DEF Sound
      <4> QED
        BY <1>1, <2>3, <4>3, <4>4, <4>7 DEF Sound
    <3> QED
      BY <2>5, <3>2, <3>3, <3>4 DEF StepFacts, Carries, JustAnswered
  <2> QED
    BY <2>1, <2>2, <2>4, <2>5
<1>5. CASE status[o] \in Unsubmitted
  <2>1. filled'[o] = 0 /\ remaining'[o] <= req'[o].qty /\ status'[o] # "FILLED"
    <3>1. CASE RowRecorded(o)
      BY <1>1, <1>5, <3>1 DEF RowRecorded, StepFacts, RowInv
    <3>2. CASE RowKept(o) \/ RowCreated(o) \/ RowClaimed(o)
      <4>1. status'[o] \in Unsubmitted
        BY <1>5, <3>2 DEF RowKept, RowCreated, RowClaimed, Unsubmitted
      <4> QED
        BY <1>1, <1>3, <4>1 DEF Unsubmitted
    <3> QED
      BY <1>5, <3>1, <3>2
      DEF StepFacts, RowMoves, RowWritten, RowFailed, Unsubmitted, TRACKING_TARGET_STATUSES
  <2>2. \A w \in Trackers : trk'[w].pc # "idle" => trk'[w].order # o
    <3>1. ASSUME NEW w \in Trackers, trk'[w].pc # "idle", trk'[w].order = o PROVE FALSE
      <4>1. CASE SameTask(w)
        BY <1>5, <3>1, <4>1 DEF SameTask, StepFacts, RowInv
      <4>2. CASE JustLoaded(w)
        BY <1>5, <3>1, <4>2 DEF JustLoaded, Trackable, Unsubmitted, TRACKING_TARGET_STATUSES
      <4> QED
        BY <3>1, <4>1, <4>2 DEF StepFacts, Carries, JustAnswered
    <3> QED
      BY <3>1
  <2>3. ASSUME o \in Numbered' PROVE Sum(book'[o]) = req'[o].qty
    <3>1. CASE RowOpens(o)
      BY <1>1, <3>1 DEF RowOpens, Sum
    <3>2. CASE RowAdvances(o)
      <4>1. o \in Numbered /\ status[o] = "PROCESSING"
        BY <1>5, <2>3, <3>2 DEF RowAdvances, StepFacts, SubmissionInv, StageInv, Unsubmitted
      <4>2. req'[o] = req[o]
        BY <4>1
        DEF StepFacts, RowMoves, RowKept, RowCreated, RowClaimed, RowRecorded, RowWritten, RowFailed
      <4> QED
        BY <1>2, <3>2, <4>1, <4>2 DEF RowAdvances, LedgerInv
    <3> QED
      BY <3>1, <3>2 DEF StepFacts
  <2>4. remaining'[o] \in Nat
    BY DEF StepFacts, TypeOK
  <2>5. Sound(o, status[o], filled[o], remaining[o])'
    BY <1>1, <2>1, <2>4 DEF Sound
  <2> QED
    BY <2>2, <2>3, <2>5
<1> QED
  BY <1>4, <1>5

\* No row and no snapshot hides quantity that is open at the broker: what is open
\* only shrinks once the order has its number.
LEMMA OpenKept == StepFacts /\ OpenInv => OpenInv'
<1> SUFFICES ASSUME StepFacts, OpenInv, NEW o \in Orders, o \in Numbered'
             PROVE  /\ Covers(o, status[o], remaining[o])'
                    /\ \A w \in Trackers : trk'[w].pc # "idle" /\ trk'[w].order = o =>
                         Covers(o, trk[w].next, trk[w].remaining)'
  BY DEF OpenInv, Busy
<1>1. /\ book[o].rmn \in Nat /\ book'[o].rmn \in Nat /\ book[o] \in Row
      /\ req[o].qty \in Nat /\ remaining[o] \in Nat
  <2>1. book[o] \in Row /\ book'[o] \in Row /\ req[o] \in Request /\ remaining[o] \in Nat
    BY DEF StepFacts, TypeOK
  <2> QED
    BY <2>1, RequestTypes DEF Row
<1>2. CASE RowOpens(o)
  <2>1. status'[o] = "PROCESSING" /\ remaining'[o] = req'[o].qty
    BY <1>2, RowInvKept DEF RowOpens, RowInv, Unsubmitted
  <2>2. \A w \in Trackers : trk'[w].pc # "idle" => trk'[w].order # o
    BY <2>1, RowInvKept DEF RowInv, Unsubmitted, Busy
  <2>3. book'[o].rmn = req'[o].qty
    BY <1>2 DEF RowOpens
  <2> QED
    BY <1>1, <2>1, <2>2, <2>3 DEF Covers
<1>3. CASE RowAdvances(o)
  <2>1. /\ book'[o].rmn <= book[o].rmn
        /\ Covers(o, status[o], remaining[o])
        /\ \A w \in Trackers : Busy(w) /\ trk[w].order = o =>
             Covers(o, trk[w].next, trk[w].remaining)
    BY <1>3 DEF RowAdvances, OpenInv
  <2>2. ASSUME NEW next, NEW rem \in Nat, Covers(o, next, rem)
        PROVE  /\ book'[o].rmn <= rem
               /\ next \in {"FILLED", "CANCELED"} => book'[o].rmn = 0
    BY <1>1, <2>1, <2>2 DEF Covers
  <2>3. Covers(o, status[o], remaining[o])'
    <3>1. ASSUME status'[o] = status[o] \/ status'[o] \notin {"FILLED", "CANCELED"},
                 remaining'[o] = remaining[o]
          PROVE  Covers(o, status[o], remaining[o])'
      BY <1>1, <2>1, <2>2, <3>1 DEF Covers
    <3>2. CASE RowCreated(o)
      BY <3>2 DEF RowCreated, StepFacts, SubmissionInv, StageInv
    <3>3. CASE RowClaimed(o)
      <4>1. status'[o] \notin {"FILLED", "CANCELED"}
        BY <3>3 DEF RowClaimed
      <4> QED
        BY <3>1, <3>3, <4>1 DEF RowClaimed
    <3>4. CASE RowRecorded(o)
      <4>1. remaining'[o] = remaining[o]
        BY <3>4 DEF RowRecorded, StepFacts, RowInv, Unsubmitted
      <4> QED
        BY <3>1, <3>4, <4>1 DEF RowRecorded
    <3>5. CASE RowWritten(o)
      <4>1. PICK w \in Trackers :
              /\ Busy(w) /\ trk[w].order = o /\ status'[o] \in {trk[w].next, "TIMEOUT"}
              /\ remaining'[o] = trk[w].remaining
        BY <3>5 DEF RowWritten
      <4>2. trk[w].remaining \in Nat /\ Covers(o, trk[w].next, trk[w].remaining)
        BY <2>1, <4>1 DEF StepFacts, TypeOK, TrackerState
      <4> QED
        BY <2>2, <4>1, <4>2 DEF Covers
    <3> QED
      BY <3>1, <3>2, <3>3, <3>4, <3>5 DEF StepFacts, RowMoves, RowKept, RowFailed
  <2>4. ASSUME NEW w \in Trackers, trk'[w].pc # "idle", trk'[w].order = o
        PROVE  Covers(o, trk[w].next, trk[w].remaining)'
    <3>1. trk[w].remaining \in Nat
      BY DEF StepFacts, TypeOK, TrackerState
    <3>2. CASE SameTask(w) /\ SameSnapshot(w)
      <4>1. Covers(o, trk[w].next, trk[w].remaining)
        BY <2>1, <2>4, <3>2 DEF SameTask
      <4> QED
        BY <2>2, <3>1, <3>2, <4>1 DEF Covers, SameSnapshot
    <3>3. CASE JustLoaded(w)
      <4>1. trk'[w].next = status[o] /\ trk'[w].remaining = remaining[o]
        BY <2>4, <3>3 DEF JustLoaded
      <4> QED
        BY <1>1, <2>1, <2>2, <4>1 DEF Covers
    <3>4. CASE JustAnswered(w) /\ ~SameSnapshot(w)
      <4>1. trk[w].order = o
        BY <2>4, <3>4 DEF JustAnswered, SameTask
      <4>2. PICK child : trk'[w].next = RowStatus(req[o].kind, child, req[o].qty, book[o])
        BY <3>4, <4>1 DEF JustAnswered
      <4>3. trk'[w].remaining = book[o].rmn
        BY <3>4, <4>1 DEF JustAnswered
      <4>4. RowStatus(req[o].kind, child, req[o].qty, book[o]) \in {"FILLED", "CANCELED"} =>
              book[o].rmn = 0
        BY <1>1, RowStatusSays
      <4> QED
        BY <1>1, <2>1, <4>2, <4>3, <4>4 DEF Covers
    <3> QED
      BY <2>4, <3>2, <3>3, <3>4 DEF StepFacts, Carries, JustAnswered
  <2> QED
    BY <2>3, <2>4
<1> QED
  BY <1>2, <1>3 DEF StepFacts

\* Once PARTIAL_FILLED has been said of an order, the broker's row keeps showing
\* that something of it is done.
LEMMA PartialKept == StepFacts /\ PartialInv => PartialInv'
<1> SUFFICES ASSUME StepFacts, PartialInv PROVE PartialInv'
  OBVIOUS
<1>1. ASSUME NEW o \in Orders, status[o] \notin Unsubmitted, Done(o) PROVE Done(o)'
  <2>1. RowAdvances(o) /\ req'[o] = req[o]
    BY <1>1, TrackedAdvances
  <2>2. /\ book[o].rmn \in Nat /\ book[o].cncl \in Nat /\ book[o].rjct \in Nat
        /\ book'[o].rmn \in Nat /\ book'[o].cncl \in Nat /\ book'[o].rjct \in Nat
        /\ req[o].qty \in Nat
    <3>1. book[o] \in Row /\ book'[o] \in Row /\ req[o] \in Request
      BY DEF StepFacts, TypeOK
    <3> QED
      BY <3>1, RequestTypes DEF Row
  <2> QED
    BY <1>1, <2>1, <2>2 DEF Done, RowAdvances
<1>2. \A w \in Trackers :
        Busy(w) => trk[w].order \in Orders /\ status[trk[w].order] \notin Unsubmitted
  BY DEF StepFacts, TypeOK, RowInv, Busy
<1>3. ASSUME NEW o \in Orders, status'[o] = "PARTIAL_FILLED" PROVE Done(o)'
  <2>1. CASE RowKept(o)
    BY <1>1, <1>3, <2>1 DEF RowKept, PartialInv, Unsubmitted
  <2>2. CASE RowWritten(o)
    <3>1. PICK w \in Trackers :
            Busy(w) /\ trk[w].order = o /\ status'[o] \in {trk[w].next, "TIMEOUT"}
      BY <2>2 DEF RowWritten
    <3>2. Done(o)
      BY <1>3, <3>1 DEF PartialInv
    <3> QED
      BY <1>1, <1>2, <3>1, <3>2
  <2> QED
    BY <1>3, <2>1, <2>2
    DEF StepFacts, RowMoves, RowCreated, RowClaimed, RowRecorded, RowFailed
<1>4. ASSUME NEW w \in Trackers, trk'[w].pc # "idle",
             "PARTIAL_FILLED" \in {trk'[w].seen, trk'[w].next}
      PROVE  Done(trk[w].order)'
  <2>1. CASE SameTask(w) /\ "PARTIAL_FILLED" \in {trk[w].seen, trk[w].next}
    <3>1. Done(trk[w].order)
      BY <2>1 DEF SameTask, PartialInv
    <3>2. trk'[w].order = trk[w].order /\ Busy(w)
      BY <2>1 DEF SameTask
    <3>3. Done(trk'[w].order) /\ trk'[w].order \in Orders /\ status[trk'[w].order] \notin Unsubmitted
      BY <1>2, <3>1, <3>2
    <3> QED
      BY <1>1, <3>2, <3>3 DEF Done
  <2>2. CASE JustLoaded(w)
    <3>1. PICK o \in Orders : Trackable(o) /\ trk'[w].order = o
                              /\ trk'[w].seen = status[o] /\ trk'[w].next = status[o]
      BY <2>2 DEF JustLoaded
    <3>2. Done(o) /\ status[o] \notin Unsubmitted
      BY <1>4, <3>1 DEF PartialInv, Trackable, Unsubmitted, TRACKING_TARGET_STATUSES
    <3>3. Done(o)'
      BY <1>1, <3>2
    <3> QED
      BY <3>1, <3>3 DEF Done
  <2>3. CASE JustAnswered(w) /\ ~SameSnapshot(w) /\ trk'[w].next = "PARTIAL_FILLED"
    <3> DEFINE o == trk[w].order
    <3>1. Busy(w) /\ trk'[w].order = o
      BY <2>3 DEF JustAnswered, SameTask
    <3>2. PICK child : trk'[w].next = RowStatus(req[o].kind, child, req[o].qty, book[o])
      BY <2>3 DEF JustAnswered
    <3>3. TypeOK /\ o \in Orders
      BY <1>2, <3>1 DEF StepFacts
    <3>4. /\ book[o] \in Row /\ req[o].qty \in Nat
          /\ book[o].rmn \in Nat /\ book[o].cncl \in Nat /\ book[o].rjct \in Nat
      BY <3>3, BookTypes
    <3>5. RowStatus(req[o].kind, child, req[o].qty, book[o]) = "PARTIAL_FILLED" =>
            RowFilled(req[o].qty, book[o]) > 0
      BY <3>4, RowStatusSays
    <3>6. RowFilled(req[o].qty, book[o]) > 0
      BY <2>3, <3>2, <3>5
    <3>7. Done(o)
      BY <3>4, <3>6 DEF Done, RowFilled, AtLeastZero
    <3>8. Done(trk'[w].order) /\ status[trk'[w].order] \notin Unsubmitted
      BY <1>2, <3>1, <3>7
    <3> QED
      BY <1>1, <3>1, <3>3, <3>8 DEF Done
  <2> QED
    BY <1>4, <2>1, <2>2, <2>3 DEF StepFacts, Carries, JustAnswered, SameTask, SameSnapshot
<1> QED
  BY <1>3, <1>4 DEF PartialInv, Busy, Done

\* A tracking task carries what its stage says.
LEMMA TaskInvKept == StepFacts /\ TaskInv => TaskInv'
<1> SUFFICES ASSUME StepFacts, TaskInv, NEW w \in Trackers, trk'[w].pc # "idle"
             PROVE  /\ trk'[w].pc = "loaded" => trk'[w].next = trk'[w].seen
                    /\ trk'[w].attempt = MaxAttempts => trk'[w].expired
                    /\ trk'[w].pc = "requeue" => ~trk'[w].expired
                    /\ trk'[w].raises => req'[trk'[w].order].kind = "CANCEL"
  BY DEF TaskInv, Busy
<1>1. CASE SameTask(w)
  <2>1. /\ trk[w].order \in Orders /\ status[trk[w].order] \notin Unsubmitted
        /\ trk'[w].order = trk[w].order /\ trk'[w].seen = trk[w].seen
        /\ trk'[w].attempt = trk[w].attempt /\ trk'[w].expired = trk[w].expired
    BY <1>1 DEF SameTask, StepFacts, TypeOK, RowInv, Busy
  <2>2. req'[trk[w].order] = req[trk[w].order]
    BY <2>1, TrackedAdvances
  <2>3. /\ trk[w].pc = "loaded" => trk[w].next = trk[w].seen
        /\ trk[w].attempt = MaxAttempts => trk[w].expired
        /\ trk[w].pc = "requeue" => ~trk[w].expired
        /\ trk[w].raises => req[trk[w].order].kind = "CANCEL"
    BY <1>1 DEF TaskInv, SameTask
  <2>4. CASE Carries(w)
    BY <2>1, <2>2, <2>3, <2>4 DEF Carries, SameSnapshot
  <2>5. CASE JustAnswered(w)
    BY <2>1, <2>2, <2>3, <2>5 DEF JustAnswered
  <2>6. CASE JustLoaded(w)
    BY <2>6 DEF JustLoaded
  <2> QED
    BY <2>4, <2>5, <2>6 DEF StepFacts
<1>2. CASE JustLoaded(w)
  BY <1>2 DEF JustLoaded
<1> QED
  BY <1>1, <1>2 DEF StepFacts, Carries, JustAnswered

\* The invariant holds in every reachable state.
LEMMA TrackingInvariant == Spec => []TrackingInv
<1>1. TypeOK /\ SubmissionInv /\ SubmissionInv' /\ TrackingInv /\ [Next]_vars => TrackingInv'
  BY EveryStep, RowInvKept, LedgerKept, OpenKept, PartialKept, TaskInvKept DEF TrackingInv
<1> QED
  BY <1>1, TrackingInit, TypeCorrect, SubmissionInvariant, PTL DEF Spec

-----------------------------------------------------------------------------
(* The ledger.                                                              *)

\* The row of a new order whose quantity no modify has moved never claims more
\* than the broker executed and is FILLED only if all of it was, for any number
\* of cancels, trackers with old snapshots, lost answers and restarts.
THEOREM LedgerIsSound == Spec => []LedgerSound
<1>1. TrackingInv => LedgerSound
  BY DEF TrackingInv, LedgerInv, LedgerSound, Sound
<1> QED
  BY <1>1, TrackingInvariant, PTL

\* No row hides quantity that can still trade at the broker, whatever modifies,
\* cancels and stale snapshots have written to it.
THEOREM RemainderIsNeverHidden == Spec => []NoHiddenRemainder
<1>1. TrackingInv => NoHiddenRemainder
  BY DEF TrackingInv, OpenInv, NoHiddenRemainder, Covers, Numbered
<1> QED
  BY <1>1, TrackingInvariant, PTL

-----------------------------------------------------------------------------
(* No order is lost between its commit and worker-1.                        *)

Queued(o) ==
  \/ o \in toEnqueue
  \/ submitQ[o] > 0
  \/ \E w \in Submitters : sub[w].pc = "requeue" /\ sub[w].order = o

\* An order stays queued as long as nothing takes its task away.
LEMMA QueuedStays ==
  ASSUME TypeOK, TypeOK', NEW o \in Orders, Queued(o),
         o \in toEnqueue => o \in toEnqueue',
         submitQ'[o] >= submitQ[o],
         \A v \in Submitters : sub[v].pc = "requeue" => sub'[v] = sub[v]
  PROVE  Queued(o)'
<1>1. submitQ[o] \in Nat /\ submitQ'[o] \in Nat
  BY DEF TypeOK
<1> QED
  BY <1>1 DEF Queued

\* The API queues the order it has written.
LEMMA ApiQueues ==
  ASSUME TypeOK, TypeOK', "crash" \notin FaultKinds, Api, NEW o \in Orders,
         status'[o] = "PENDING", ~req'[o].dry,
         status[o] = "PENDING" /\ ~req[o].dry => Queued(o)
  PROVE  Queued(o)'
<1>0. submitQ[o] \in Nat
  BY DEF TypeOK
<1>1. ASSUME NEW x \in Orders, NEW r, CreateRow(x, r) PROVE Queued(o)'
  <2>1. CASE x = o
    BY <1>1, <2>1 DEF CreateRow, TypeOK, Queued
  <2>2. CASE x # o
    <3>1. /\ status[o] = "PENDING" /\ ~req[o].dry
          /\ (o \in toEnqueue => o \in toEnqueue') /\ UNCHANGED <<submitQ, sub>>
      BY <1>1, <2>2 DEF CreateRow, TypeOK, queueVars
    <3> QED
      BY <1>0, <3>1, QueuedStays
  <2> QED
    BY <2>1, <2>2
<1>2. ASSUME NEW x \in Orders, EnqueueNew(x) PROVE Queued(o)'
  <2>1. status[o] = "PENDING" /\ ~req[o].dry /\ UNCHANGED sub
    BY <1>2 DEF EnqueueNew, dbVars
  <2>2. CASE x = o
    <3>1. submitQ'[o] = submitQ[o] + 1
      BY <1>2, <2>2 DEF EnqueueNew, TypeOK
    <3> QED
      BY <1>0, <3>1 DEF Queued
  <2>3. CASE x # o
    <3>1. (o \in toEnqueue => o \in toEnqueue') /\ submitQ'[o] = submitQ[o]
      BY <1>2, <2>3 DEF EnqueueNew, TypeOK
    <3> QED
      BY <1>0, <2>1, <3>1, QueuedStays
  <2> QED
    BY <2>2, <2>3
<1>3. ASSUME NEW on \in BOOLEAN, SetKillSwitch(on) PROVE Queued(o)'
  <2>1. UNCHANGED <<status, req, toEnqueue, submitQ, sub>>
    BY <1>3 DEF SetKillSwitch, dbVars, queueVars
  <2> QED
    BY <1>0, <2>1, QueuedStays
<1>4. ~ApiCrash
  BY DEF ApiCrash, Fault
<1> QED
  BY <1>1, <1>2, <1>3, <1>4 DEF Api, CreateNew, CreateChild

\* Worker-1 takes a task only to claim its order or because somebody else has
\* it, and hands an order back only on the way to queueing it again.
LEMMA SubmitterQueues ==
  ASSUME TypeOK, TypeOK', "crash" \notin FaultKinds, NEW w \in Submitters,
         SubmitterStep(w) \/ SubmitterFault(w), NEW o \in Orders,
         status'[o] = "PENDING", ~req'[o].dry,
         status[o] = "PENDING" /\ ~req[o].dry => Queued(o)
  PROVE  Queued(o)'
<1>1. /\ submitQ[o] \in Nat /\ sub \in [Submitters -> SubmitterState]
      /\ sub[w] \in SubmitterState /\ (sub[w].pc # "idle" => sub[w].order \in Orders)
  BY DEF TypeOK
<1>2. ASSUME sub[w].pc # "requeue", \A v \in Submitters : v # w => sub'[v] = sub[v],
             UNCHANGED <<toEnqueue, req>>, submitQ'[o] = submitQ[o], status'[o] = status[o]
      PROVE  Queued(o)'
  BY <1>1, <1>2, QueuedStays
<1>3. ASSUME NEW x \in Orders, ClaimOrder(w, x) PROVE Queued(o)'
  <2>1. x # o
    BY <1>3 DEF ClaimOrder, TypeOK
  <2> QED
    BY <1>2, <1>3, <2>1 DEF ClaimOrder, TypeOK
<1>4. ASSUME NEW x \in Orders, SkipOrder(w, x) PROVE Queued(o)'
  <2>1. x # o /\ UNCHANGED <<status, req, toEnqueue, sub>>
    BY <1>4 DEF SkipOrder, Claimable, dbVars
  <2> QED
    BY <1>2, <1>4, <2>1 DEF SkipOrder, TypeOK
<1>5. CASE BackOff(w)
  <2>1. /\ sub'[w].pc = "requeue" /\ sub'[w].order = sub[w].order
        /\ \A v \in Submitters : v # w => sub'[v] = sub[v]
    BY <1>1, <1>5 DEF BackOff, SubmitterState
  <2>2. CASE sub[w].order = o
    BY <2>1, <2>2 DEF Queued
  <2>3. CASE sub[w].order # o
    BY <1>2, <1>5, <2>1, <2>3 DEF BackOff, TypeOK, queueVars
  <2> QED
    BY <2>2, <2>3
<1>6. CASE RequeueOrder(w)
  <2>1. /\ UNCHANGED <<status, req, toEnqueue>> /\ sub[w].pc = "requeue"
        /\ \A v \in Submitters : v # w => sub'[v] = sub[v]
    BY <1>1, <1>6 DEF RequeueOrder, Release, dbVars
  <2>2. CASE sub[w].order = o
    <3>1. submitQ'[o] = submitQ[o] + 1
      BY <1>6, <2>2 DEF RequeueOrder, TypeOK
    <3> QED
      BY <1>1, <3>1 DEF Queued
  <2>3. CASE sub[w].order # o
    <3>1. submitQ'[o] = submitQ[o]
      BY <1>6, <2>3 DEF RequeueOrder, TypeOK
    <3> QED
      BY <1>1, <2>1, <2>3, <3>1 DEF Queued
  <2> QED
    BY <2>2, <2>3
<1>7. CASE RecordSubmit(w)
  <2>1. /\ sub[w].pc = "answered" /\ UNCHANGED <<req, toEnqueue, submitQ>>
        /\ \A v \in Submitters : v # w => sub'[v] = sub[v]
    BY <1>1, <1>7 DEF RecordSubmit, Release, queueVars
  <2>2. status'[o] = status[o]
    <3>1. status \in [Orders -> ORDER_STATUS \cup {"NONE"}]
      BY DEF TypeOK
    <3>2. \/ status' = status
          \/ \E next \in {"ACCEPTED", "REQUESTED"} : status' = [status EXCEPT ![sub[w].order] = next]
      BY <1>7 DEF RecordSubmit
    <3> QED
      BY <3>1, <3>2
  <2> QED
    BY <1>2, <2>1, <2>2
<1>8. CASE \/ VetOrder(w) \/ RefuseOrder(w) \/ PostRejected(w) \/ StartTracking(w) \/ PostLimited(w)
           \/ \E no \in {"empty", "number"}, reported \in BOOLEAN : PostAnswered(w, no, reported)
           \/ \E taken, reported \in BOOLEAN : PostTimeout(w, taken, reported)
           \/ \E limited \in BOOLEAN : PostServerError(w, limited)
  <2>1. sub[w].pc # "requeue" /\ UNCHANGED <<status, req, toEnqueue, submitQ>>
    BY <1>8
    DEF VetOrder, RefuseOrder, PostRejected, StartTracking, PostLimited, PostAnswered,
        PostTimeout, PostServerError, GiveUp, dbVars, queueVars
  <2>2. \E s : sub' = [sub EXCEPT ![w] = s]
    BY <1>1, <1>8
    DEF VetOrder, RefuseOrder, PostRejected, StartTracking, PostLimited, PostAnswered,
        PostTimeout, PostServerError, GiveUp, Release
  <2>3. \A v \in Submitters : v # w => sub'[v] = sub[v]
    BY <1>1, <2>2
  <2> QED
    BY <1>2, <2>1, <2>3
<1>9. ~SubmitterCrash(w)
  BY DEF SubmitterCrash, Fault
<1> QED
  BY <1>3, <1>4, <1>5, <1>6, <1>7, <1>8, <1>9 DEF SubmitterStep, SubmitterFault

\* Worker-2 moves only rows that are being tracked, and neither the queue of
\* worker-1 nor its processes.
LEMMA TrackerLeavesAlone ==
  ASSUME TypeOK, NEW w \in Trackers, TrackerStep(w) \/ TrackerFault(w)
  PROVE  /\ UNCHANGED <<req, brokerNo, toEnqueue, submitQ, sub>>
         /\ \A o \in Orders :
              status'[o] # status[o] => status[o] \in TRACKING_TARGET_STATUSES /\ status'[o] \in BrokerStatuses
<1>1. UNCHANGED <<req, brokerNo, toEnqueue, submitQ, sub>>
  BY
  DEF TrackerStep, TrackerFault, LoadOrder, SkipTracking, QueryBroker, ApplySnapshot, TimeOutOrder,
      RequeueTracking, QueryFails, QueryRefused, TrackerCrash, dbVars, queueVars
<1>2. ASSUME NEW expected \in SUBSET TRACKING_TARGET_STATUSES, NEW next \in BrokerStatuses,
             WriteSnapshot(trk[w], expected, next), NEW o \in Orders, status'[o] # status[o]
      PROVE  status[o] \in TRACKING_TARGET_STATUSES /\ status'[o] \in BrokerStatuses
  BY <1>2 DEF WriteSnapshot, TypeOK
<1>3. trk[w].next \in BrokerStatuses /\ {"TIMEOUT", "FAILED"} \subseteq BrokerStatuses
  BY DEF TypeOK, TrackerState, BrokerStatuses, TERMINAL_STATES
<1>4. CASE ApplySnapshot(w)
  <2>1. ExpectedStatuses(trk[w].seen) \in SUBSET TRACKING_TARGET_STATUSES
    BY DEF ExpectedStatuses
  <2> QED
    BY <1>1, <1>2, <1>3, <1>4, <2>1 DEF ApplySnapshot
<1>5. CASE TimeOutOrder(w)
  BY <1>1, <1>2, <1>3, <1>5 DEF TimeOutOrder
<1>6. CASE QueryRefused(w)
  BY <1>1, <1>3, <1>6 DEF QueryRefused, TypeOK
<1>7. CASE ~ApplySnapshot(w) /\ ~TimeOutOrder(w) /\ ~QueryRefused(w)
  BY <1>1, <1>7
  DEF TrackerStep, TrackerFault, LoadOrder, SkipTracking, QueryBroker, RequeueTracking,
      QueryFails, TrackerCrash, dbVars
<1> QED
  BY <1>4, <1>5, <1>6, <1>7

\* The broker and worker-3 leave every row, every process and the API alone, and
\* take no task out of a queue.
LEMMA OthersLeaveAlone ==
  ASSUME TypeOK, Broker \/ Recovery \/ UNCHANGED vars, NEW o \in Orders
  PROVE  /\ UNCHANGED <<status, req, brokerNo, toEnqueue, sub, trk>>
         /\ submitQ'[o] >= submitQ[o]
         /\ \A a \in 0..MaxAttempts : trackQ'[o][a] >= trackQ[o][a]
<1>1. submitQ[o] \in Nat /\ trackQ[o] \in [0..MaxAttempts -> Nat]
  BY DEF TypeOK
<1>2. \A a \in 0..MaxAttempts : trackQ[o][a] \in Nat
  BY <1>1
<1>3. ASSUME UNCHANGED <<dbVars, queueVars, toEnqueue, sub, trk>>
      PROVE  /\ UNCHANGED <<status, req, brokerNo, toEnqueue, sub, trk>>
             /\ submitQ'[o] >= submitQ[o]
             /\ \A a \in 0..MaxAttempts : trackQ'[o][a] >= trackQ[o][a]
  BY <1>1, <1>2, <1>3 DEF dbVars, queueVars
<1>4. CASE Broker
  <2>1. ASSUME NEW x \in Orders, BrokerExecutes(x)
        PROVE  UNCHANGED <<dbVars, queueVars, toEnqueue, sub, trk>>
    BY <2>1 DEF BrokerExecutes
  <2>2. ASSUME NEW x \in Orders, NEW k, NEW reported, BrokerConfirms(x, k, reported)
        PROVE  UNCHANGED <<dbVars, queueVars, toEnqueue, sub, trk>>
    BY <2>2 DEF BrokerConfirms
  <2>3. ASSUME NEW x \in Orders, BrokerRejects(x)
        PROVE  UNCHANGED <<dbVars, queueVars, toEnqueue, sub, trk>>
    BY <2>3 DEF BrokerRejects
  <2>4. UNCHANGED <<dbVars, queueVars, toEnqueue, sub, trk>>
    BY <1>4, <2>1, <2>2, <2>3 DEF Broker
  <2> QED
    BY <1>3, <2>4
<1>5. CASE RecoverSubmitOrders
  BY <1>1, <1>2, <1>5 DEF RecoverSubmitOrders, dbVars
<1>6. CASE RecoverTrackingOrders
  <2>1. UNCHANGED <<status, req, brokerNo, toEnqueue, sub, trk, submitQ>>
    BY <1>6 DEF RecoverTrackingOrders, dbVars
  <2>2. ASSUME NEW a \in 0..MaxAttempts PROVE trackQ'[o][a] >= trackQ[o][a]
    <3>1. \E n \in {0, 1} : trackQ'[o][a] = trackQ[o][a] + n
      BY <1>6 DEF RecoverTrackingOrders
    <3> QED
      BY <1>2, <3>1
  <2> QED
    BY <1>1, <2>1, <2>2
<1>7. CASE UNCHANGED vars
  BY <1>3, <1>7 DEF vars
<1> QED
  BY <1>4, <1>5, <1>6, <1>7 DEF Recovery

\* If no process dies, a PENDING order that is not a dry run always has a task or
\* somebody about to queue one, however often the rate limit hands it back.
THEOREM PendingOrdersAreQueued == Spec => []PendingOrderIsQueued
<1>1. Init => PendingOrderIsQueued
  BY DEF Init, PendingOrderIsQueued
<1>2. TypeOK /\ TypeOK' /\ PendingOrderIsQueued /\ [Next]_vars => PendingOrderIsQueued'
  <2> SUFFICES ASSUME TypeOK, TypeOK', PendingOrderIsQueued, [Next]_vars,
                      "crash" \notin FaultKinds, NEW o \in Orders,
                      status'[o] = "PENDING", ~req'[o].dry
               PROVE  Queued(o)'
    BY DEF PendingOrderIsQueued, Queued
  <2>1. status[o] = "PENDING" /\ ~req[o].dry => Queued(o)
    BY DEF PendingOrderIsQueued, Queued
  <2>2. ASSUME NEW w \in Trackers, TrackerStep(w) \/ TrackerFault(w) PROVE Queued(o)'
    <3>1. UNCHANGED <<req, toEnqueue, submitQ, sub>> /\ status[o] = "PENDING"
      BY <2>2, TrackerLeavesAlone DEF BrokerStatuses, TRACKING_TARGET_STATUSES, TERMINAL_STATES
    <3>2. submitQ[o] \in Nat
      BY DEF TypeOK
    <3> QED
      BY <2>1, <3>1, <3>2, QueuedStays
  <2>3. CASE Broker \/ Recovery \/ UNCHANGED vars
    BY <2>1, <2>3, OthersLeaveAlone, QueuedStays
  <2> QED
    BY <2>1, <2>2, <2>3, ApiQueues, SubmitterQueues DEF Next
<1> QED
  BY <1>1, <1>2, TypeCorrect, PTL DEF Spec

-----------------------------------------------------------------------------
(* No open order loses its tracking chain.                                  *)

\* Which answers of the broker pass the can_transition check of worker-2.
LEMMA AnswersPass ==
  ASSUME NEW seen \in TRACKING_TARGET_STATUSES
  PROVE  /\ can_transition(seen, seen)
         /\ \A next \in BrokerStatuses \ {"REQUESTED"} :
              (seen = "PARTIAL_FILLED" => next # "ACCEPTED") => can_transition(seen, next)
         /\ seen \in ExpectedStatuses(seen)
<1>1. seen \in ORDER_STATUS /\ seen \notin TERMINAL_STATES
  BY DEF TRACKING_TARGET_STATUSES, TERMINAL_STATES, ORDER_STATUS
<1>2. can_transition(seen, seen)
  BY <1>1 DEF can_transition
<1>3. ASSUME NEW next \in BrokerStatuses \ {"REQUESTED"},
             seen = "PARTIAL_FILLED" => next # "ACCEPTED"
      PROVE  can_transition(seen, next)
  <2>1. next \in {"ACCEPTED", "PARTIAL_FILLED"} \cup TERMINAL_STATES
    BY <1>3 DEF BrokerStatuses, TRACKING_TARGET_STATUSES
  <2>2. CASE seen = "REQUESTED"
    <3>1. ALLOWED_TRANSITIONS[seen] = TRACKING_TARGET_STATUSES \cup TERMINAL_STATES
      BY <1>1, <2>2 DEF ALLOWED_TRANSITIONS
    <3> QED
      BY <1>1, <2>1, <3>1 DEF can_transition, TRACKING_TARGET_STATUSES
  <2>3. CASE seen = "ACCEPTED"
    <3>1. ALLOWED_TRANSITIONS[seen] = {"ACCEPTED", "PARTIAL_FILLED"} \cup TERMINAL_STATES
      BY <1>1, <2>3 DEF ALLOWED_TRANSITIONS
    <3> QED
      BY <1>1, <2>1, <3>1 DEF can_transition
  <2>4. CASE seen = "PARTIAL_FILLED"
    <3>1. ALLOWED_TRANSITIONS[seen] = {"PARTIAL_FILLED"} \cup TERMINAL_STATES
      BY <1>1, <2>4 DEF ALLOWED_TRANSITIONS
    <3> QED
      BY <1>1, <1>3, <2>1, <2>4, <3>1 DEF can_transition
  <2> QED
    BY <2>2, <2>3, <2>4 DEF TRACKING_TARGET_STATUSES
<1> QED
  BY <1>2, <1>3 DEF ExpectedStatuses

\* A chain stays as long as nothing takes its task away or moves the row.
LEMMA ChainStays ==
  ASSUME TypeOK, TypeOK', NEW o \in Orders, HasChain(o), status'[o] = status[o],
         \A v \in Submitters : sub[v].pc = "recorded" /\ sub[v].order = o => sub'[v] = sub[v],
         \A a \in 0..MaxAttempts : trackQ'[o][a] >= trackQ[o][a],
         \A v \in Trackers : trk[v].order = o /\ WillGoOn(v) => trk'[v] = trk[v]
  PROVE  HasChain(o)'
<1>1. CASE \E v \in Submitters : sub[v].pc = "recorded" /\ sub[v].order = o
  BY <1>1 DEF HasChain
<1>2. ASSUME NEW a \in 0..MaxAttempts, trackQ[o][a] > 0 PROVE HasChain(o)'
  <2>1. trackQ[o] \in [0..MaxAttempts -> Nat] /\ trackQ'[o] \in [0..MaxAttempts -> Nat]
    BY DEF TypeOK
  <2>2. trackQ[o][a] \in Nat /\ trackQ'[o][a] \in Nat
    BY <2>1
  <2>3. trackQ'[o][a] > 0
    BY <1>2, <2>2
  <2> QED
    BY <2>3 DEF HasChain
<1>3. ASSUME NEW v \in Trackers, trk[v].order = o, WillGoOn(v) PROVE HasChain(o)'
  <2>1. trk'[v] = trk[v]
    BY <1>3
  <2>2. WillGoOn(v)'
    BY <1>3, <2>1 DEF WillGoOn
  <2> QED
    BY <1>3, <2>1, <2>2 DEF HasChain
<1> QED
  BY <1>1, <1>2, <1>3 DEF HasChain

\* Putting a tracking task of x into the queue, or taking one out.
LEMMA TrackQueue ==
  ASSUME TypeOK, NEW x \in Orders, NEW b \in 0..MaxAttempts
  PROVE  /\ trackQ' = [trackQ EXCEPT ![x][b] = @ + 1] =>
              /\ trackQ'[x][b] > 0
              /\ \A o \in Orders, a \in 0..MaxAttempts : trackQ'[o][a] >= trackQ[o][a]
         /\ trackQ' = [trackQ EXCEPT ![x][b] = @ - 1] =>
              \A o \in Orders, a \in 0..MaxAttempts : o # x => trackQ'[o][a] >= trackQ[o][a]
<1>1. /\ trackQ \in [Orders -> [0..MaxAttempts -> Nat]]
      /\ \A o \in Orders : trackQ[o] \in [0..MaxAttempts -> Nat]
  BY DEF TypeOK
<1>2. \A o \in Orders, a \in 0..MaxAttempts : trackQ[o][a] \in Nat
  BY <1>1
<1>3. ASSUME trackQ' = [trackQ EXCEPT ![x][b] = @ + 1]
      PROVE  /\ trackQ'[x][b] > 0
             /\ \A o \in Orders, a \in 0..MaxAttempts : trackQ'[o][a] >= trackQ[o][a]
  <2>1. /\ trackQ'[x] = [trackQ[x] EXCEPT ![b] = @ + 1]
        /\ \A o \in Orders : o # x => trackQ'[o] = trackQ[o]
    BY <1>1, <1>3
  <2>2. /\ trackQ'[x][b] = trackQ[x][b] + 1
        /\ \A a \in 0..MaxAttempts : a # b => trackQ'[x][a] = trackQ[x][a]
    BY <1>1, <2>1
  <2>3. ASSUME NEW o \in Orders, NEW a \in 0..MaxAttempts PROVE trackQ'[o][a] >= trackQ[o][a]
    <3>1. trackQ[o][a] \in Nat
      BY <1>2
    <3>2. trackQ'[o][a] = trackQ[o][a] \/ trackQ'[o][a] = trackQ[o][a] + 1
      BY <2>1, <2>2
    <3> QED
      BY <3>1, <3>2
  <2>4. trackQ[x][b] \in Nat
    BY <1>2
  <2> QED
    BY <2>2, <2>3, <2>4
<1>4. ASSUME trackQ' = [trackQ EXCEPT ![x][b] = @ - 1]
      PROVE  \A o \in Orders, a \in 0..MaxAttempts : o # x => trackQ'[o][a] >= trackQ[o][a]
  BY <1>1, <1>2, <1>4
<1> QED
  BY <1>3, <1>4

\* Worker-1 starts the chain of the order it has recorded, and touches no other.
LEMMA SubmitterKeepsChain ==
  ASSUME TypeOK, TypeOK', "crash" \notin FaultKinds, NEW w \in Submitters,
         SubmitterStep(w) \/ SubmitterFault(w), NEW o \in Orders,
         Trackable(o)', req'[o].kind # "CANCEL",
         Trackable(o) /\ req[o].kind # "CANCEL" => HasChain(o)
  PROVE  HasChain(o)'
<1>1. /\ sub \in [Submitters -> SubmitterState] /\ sub[w] \in SubmitterState
      /\ (sub[w].pc # "idle" => sub[w].order \in Orders)
      /\ UNCHANGED <<trk, req>>
      /\ status'[o] \in TRACKING_TARGET_STATUSES
  <2>1. UNCHANGED <<trk, req>>
    BY DEF SubmitterStep, SubmitterFault, ClaimOrder, SkipOrder, VetOrder, RefuseOrder, PostAnswered,
        PostRejected, BackOff, RequeueOrder, RecordSubmit, StartTracking, PostTimeout,
        PostServerError, PostLimited, SubmitterCrash, GiveUp, dbVars
  <2> QED
    BY <2>1 DEF TypeOK, Trackable
<1>2. \A a \in 0..MaxAttempts : trackQ[o][a] \in Nat
  <2>1. trackQ[o] \in [0..MaxAttempts -> Nat]
    BY DEF TypeOK
  <2> QED
    BY <2>1
<1>3. ASSUME sub[w].pc # "recorded", \A v \in Submitters : v # w => sub'[v] = sub[v],
             trackQ' = trackQ, status'[o] = status[o], brokerNo'[o] = brokerNo[o]
      PROVE  HasChain(o)'
  <2>1. HasChain(o)
    BY <1>1, <1>3 DEF Trackable
  <2> QED
    BY <1>1, <1>2, <1>3, <2>1, ChainStays
<1>4. ASSUME NEW x \in Orders, ClaimOrder(w, x) PROVE HasChain(o)'
  <2>1. x # o
    BY <1>1, <1>4 DEF ClaimOrder, TypeOK, TRACKING_TARGET_STATUSES
  <2>2. sub[w].pc # "recorded" /\ \A v \in Submitters : v # w => sub'[v] = sub[v]
    BY <1>1, <1>4 DEF ClaimOrder
  <2>3. trackQ' = trackQ /\ status'[o] = status[o] /\ brokerNo' = brokerNo
    BY <1>4, <2>1 DEF ClaimOrder, TypeOK
  <2> QED
    BY <1>3, <2>2, <2>3
<1>5. ASSUME NEW x \in Orders, SkipOrder(w, x) PROVE HasChain(o)'
  BY <1>3, <1>5 DEF SkipOrder, dbVars
<1>6. CASE BackOff(w)
  <2>1. sub[w].pc # "recorded" /\ \A v \in Submitters : v # w => sub'[v] = sub[v]
    BY <1>1, <1>6 DEF BackOff
  <2>2. trackQ' = trackQ /\ status'[o] = status[o] /\ brokerNo' = brokerNo
    BY <1>1, <1>6 DEF BackOff, TypeOK, queueVars, TRACKING_TARGET_STATUSES
  <2> QED
    BY <1>3, <2>1, <2>2
<1>7. CASE RecordSubmit(w)
  <2>1. sub[w].pc # "recorded" /\ \A v \in Submitters : v # w => sub'[v] = sub[v]
    BY <1>1, <1>7 DEF RecordSubmit, Release
  <2>2. CASE sub'[w].pc = "recorded" /\ sub[w].order = o
    <3>1. sub'[w].order = o
      BY <1>1, <1>7, <2>2 DEF RecordSubmit, Release, IdleSubmitter, SubmitterState
    <3> QED
      BY <2>2, <3>1 DEF HasChain
  <2>3. CASE ~(sub'[w].pc = "recorded" /\ sub[w].order = o)
    <3>1. trackQ' = trackQ
      BY <1>7 DEF RecordSubmit, queueVars
    <3>2. \/ UNCHANGED <<status, brokerNo>>
          \/ /\ \E s : status' = [status EXCEPT ![sub[w].order] = s]
             /\ brokerNo' = [brokerNo EXCEPT ![sub[w].order] = sub[w].no]
             /\ sub' = [sub EXCEPT ![w].pc = "recorded"]
      BY <1>7 DEF RecordSubmit
    <3>3. sub' = [sub EXCEPT ![w].pc = "recorded"] => sub'[w].pc = "recorded"
      BY <1>1 DEF SubmitterState
    <3>4. status'[o] = status[o] /\ brokerNo'[o] = brokerNo[o]
      BY <2>3, <3>2, <3>3 DEF TypeOK
    <3> QED
      BY <1>3, <2>1, <3>1, <3>4
  <2> QED
    BY <2>2, <2>3
<1>8. CASE StartTracking(w)
  <2>1. /\ UNCHANGED <<status, brokerNo>>
        /\ trackQ' = [trackQ EXCEPT ![sub[w].order][0] = @ + 1]
        /\ sub[w].order \in Orders
        /\ \A v \in Submitters : v # w => sub'[v] = sub[v]
    BY <1>1, <1>8 DEF StartTracking, Release, dbVars
  <2>2. 0 \in 0..MaxAttempts
    BY BoundsAssumption DEF BoundsAssumption
  <2>3. /\ trackQ'[sub[w].order][0] > 0
        /\ \A a \in 0..MaxAttempts : trackQ'[o][a] >= trackQ[o][a]
    BY <2>1, <2>2, TrackQueue
  <2>4. CASE sub[w].order = o
    BY <2>2, <2>3, <2>4 DEF HasChain
  <2>5. CASE sub[w].order # o
    <3>1. HasChain(o)
      BY <1>1, <2>1 DEF Trackable
    <3> QED
      BY <1>1, <2>1, <2>3, <2>5, <3>1, ChainStays
  <2> QED
    BY <2>4, <2>5
<1>9. CASE \/ VetOrder(w) \/ RefuseOrder(w) \/ PostRejected(w) \/ RequeueOrder(w) \/ PostLimited(w)
           \/ \E no \in {"empty", "number"}, reported \in BOOLEAN : PostAnswered(w, no, reported)
           \/ \E taken, reported \in BOOLEAN : PostTimeout(w, taken, reported)
           \/ \E limited \in BOOLEAN : PostServerError(w, limited)
  <2>1. sub[w].pc # "recorded" /\ UNCHANGED <<status, brokerNo, trackQ>>
    BY <1>9
    DEF VetOrder, RefuseOrder, PostRejected, RequeueOrder, PostLimited, PostAnswered,
        PostTimeout, PostServerError, GiveUp, dbVars, queueVars
  <2>2. \E s : sub' = [sub EXCEPT ![w] = s]
    BY <1>1, <1>9
    DEF VetOrder, RefuseOrder, PostRejected, RequeueOrder, PostLimited, PostAnswered,
        PostTimeout, PostServerError, GiveUp, Release
  <2>3. \A v \in Submitters : v # w => sub'[v] = sub[v]
    BY <1>1, <2>2
  <2> QED
    BY <1>3, <2>1, <2>3
<1>10. ~SubmitterCrash(w)
  BY DEF SubmitterCrash, Fault
<1> QED
  BY <1>4, <1>5, <1>6, <1>7, <1>8, <1>9, <1>10 DEF SubmitterStep, SubmitterFault

\* Worker-2 drops a chain only when somebody else has moved the row and carries
\* one of his own, or when the order is closed.
LEMMA TrackerKeepsChain ==
  ASSUME TypeOK, TypeOK', TrackingInv, FaultKinds \cap {"crash", "query_error"} = {},
         NEW w \in Trackers, TrackerStep(w) \/ TrackerFault(w), NEW o \in Orders,
         Trackable(o)', req'[o].kind # "CANCEL",
         Trackable(o) /\ req[o].kind # "CANCEL" => HasChain(o)
  PROVE  HasChain(o)'
<1> DEFINE t == trk[w]
<1>1. /\ trk \in [Trackers -> TrackerState] /\ t \in TrackerState
      /\ t.pc # "idle" => t.order \in Orders
      /\ UNCHANGED <<req, brokerNo, sub>>
      /\ status'[o] \in TRACKING_TARGET_STATUSES
      /\ status[o] \in TRACKING_TARGET_STATUSES
      /\ brokerNo[o] = "number"
  <2>1. UNCHANGED <<req, brokerNo, sub>>
    BY TrackerLeavesAlone
  <2>2. status'[o] # status[o] => status[o] \in TRACKING_TARGET_STATUSES
    BY TrackerLeavesAlone
  <2> QED
    BY <2>1, <2>2 DEF TypeOK, Trackable
<1>2. HasChain(o)
  BY <1>1 DEF Trackable
<1>3. \A a \in 0..MaxAttempts : trackQ[o][a] \in Nat
  <2>1. trackQ[o] \in [0..MaxAttempts -> Nat]
    BY DEF TypeOK
  <2> QED
    BY <2>1
<1>4. ASSUME status'[o] = status[o], \A a \in 0..MaxAttempts : trackQ'[o][a] >= trackQ[o][a],
             \A v \in Trackers : v # w => trk'[v] = trk[v],
             ~(t.order = o /\ WillGoOn(w))
      PROVE  HasChain(o)'
  BY <1>1, <1>2, <1>4, ChainStays
<1>5. ASSUME NEW x \in Orders, NEW a \in 0..MaxAttempts, NEW over \in WindowOver(a),
             LoadOrder(w, x, a, over)
      PROVE  HasChain(o)'
  <2>1. /\ UNCHANGED status /\ t.pc = "idle" /\ \A v \in Trackers : v # w => trk'[v] = trk[v]
        /\ trackQ' = [trackQ EXCEPT ![x][a] = @ - 1]
    BY <1>1, <1>5 DEF LoadOrder, dbVars
  <2>2. CASE x = o
    <3>1. trk'[w].pc = "loaded" /\ trk'[w].order = o /\ trk'[w].seen = status[o]
      BY <1>1, <1>5, <2>2 DEF LoadOrder
    <3>2. status[o] \in ExpectedStatuses(status[o])
      BY <1>1, AnswersPass
    <3>3. WillGoOn(w)'
      BY <2>1, <3>1, <3>2 DEF WillGoOn
    <3> QED
      BY <3>1, <3>3 DEF HasChain
  <2>3. CASE x # o
    <3>1. \A b \in 0..MaxAttempts : trackQ'[o][b] >= trackQ[o][b]
      BY <2>1, <2>3, TrackQueue
    <3> QED
      BY <1>4, <2>1, <3>1 DEF WillGoOn
  <2> QED
    BY <2>2, <2>3
<1>6. ASSUME NEW x \in Orders, NEW a \in 0..MaxAttempts, SkipTracking(w, x, a)
      PROVE  HasChain(o)'
  <2>1. /\ UNCHANGED <<status, trk>> /\ t.pc = "idle" /\ ~Trackable(x)
        /\ trackQ' = [trackQ EXCEPT ![x][a] = @ - 1]
    BY <1>6 DEF SkipTracking, dbVars
  <2>2. x # o
    BY <1>1, <2>1 DEF Trackable
  <2>3. \A b \in 0..MaxAttempts : trackQ'[o][b] >= trackQ[o][b]
    BY <2>1, <2>2, TrackQueue
  <2> QED
    BY <1>4, <2>1, <2>3 DEF WillGoOn
<1>7. ASSUME NEW listed \in BOOLEAN, QueryBroker(w, listed) PROVE HasChain(o)'
  <2> DEFINE s == Snapshot(t, listed)
  <2>1. /\ UNCHANGED <<status, trackQ>> /\ t.pc = "loaded"
        /\ trk' = [trk EXCEPT ![w] = IF can_transition(s.seen, s.next) THEN s ELSE IdleTracker]
    BY <1>7 DEF QueryBroker, dbVars, queueVars
  <2>2. \A v \in Trackers : v # w => trk'[v] = trk[v]
    BY <1>1, <2>1
  <2>3. CASE t.order = o /\ WillGoOn(w)
    <3>1. /\ s.order = o /\ s.seen = t.seen /\ s.pc = "answered"
          /\ \/ s.next = t.next
             \/ \E child : s.next = RowStatus(req[o].kind, child, req[o].qty, book[o])
      BY <1>1, <2>3, SnapshotFields
    <3>2. /\ t.seen \in TRACKING_TARGET_STATUSES /\ status[o] \in ExpectedStatuses(t.seen)
          /\ Busy(w) /\ t.next = t.seen
          /\ t.seen = "PARTIAL_FILLED" => Done(o)
      BY <1>1, <2>1, <2>3
      DEF TrackerState, WillGoOn, Busy, TrackingInv, TaskInv, PartialInv
    <3>3. can_transition(s.seen, s.next)
      <4>1. CASE s.next = t.next
        <5>1. can_transition(t.seen, t.seen)
          BY <3>2, AnswersPass
        <5> QED
          BY <3>1, <3>2, <4>1, <5>1
      <4>2. ASSUME NEW child, s.next = RowStatus(req[o].kind, child, req[o].qty, book[o])
            PROVE  can_transition(s.seen, s.next)
        <5> DEFINE next == RowStatus(req[o].kind, child, req[o].qty, book[o])
        <5>1. /\ book[o] \in Row /\ req[o].qty \in Nat
              /\ book[o].rmn \in Nat /\ book[o].cncl \in Nat /\ book[o].rjct \in Nat
          BY BookTypes
        <5>2. /\ next \in BrokerStatuses \ {"REQUESTED"}
              /\ next = "ACCEPTED" => RowFilled(req[o].qty, book[o]) = 0
          BY <5>1, RowStatusSays
        <5>3. Done(o) => RowFilled(req[o].qty, book[o]) > 0
          BY <5>1 DEF Done, RowFilled, AtLeastZero
        <5>4. t.seen = "PARTIAL_FILLED" => next # "ACCEPTED"
          BY <3>2, <5>2, <5>3
        <5> HIDE DEF next
        <5>5. can_transition(t.seen, next)
          BY <3>2, <5>2, <5>4, AnswersPass
        <5> QED
          BY <3>1, <4>2, <5>5 DEF next
      <4> QED
        BY <3>1, <4>1, <4>2
    <3> HIDE DEF s
    <3>4. trk'[w] = s
      BY <1>1, <2>1, <3>3
    <3>5. WillGoOn(w)'
      BY <2>1, <3>1, <3>2, <3>4 DEF WillGoOn
    <3> QED
      BY <3>1, <3>4, <3>5 DEF HasChain
  <2>4. CASE ~(t.order = o /\ WillGoOn(w))
    BY <1>3, <1>4, <2>1, <2>2, <2>4
  <2> QED
    BY <2>3, <2>4
<1>8. CASE ApplySnapshot(w)
  <2>1. /\ t.pc = "answered" /\ t.order \in Orders /\ UNCHANGED trackQ
        /\ WriteSnapshot(t, ExpectedStatuses(t.seen), t.next)
        /\ trk' = [trk EXCEPT ![w] =
             IF status[t.order] \in ExpectedStatuses(t.seen) THEN AfterApply(t) ELSE IdleTracker]
    BY <1>1, <1>8 DEF ApplySnapshot, queueVars
  <2>2. \A v \in Trackers : v # w => trk'[v] = trk[v]
    BY <1>1, <2>1
  <2>3. CASE t.order = o /\ status[o] \in ExpectedStatuses(t.seen)
    <3>1. status'[o] = t.next
      BY <2>1, <2>3 DEF WriteSnapshot, TypeOK
    <3>2. t.next \notin TERMINAL_STATES /\ ~t.raises
      BY <1>1, <2>1, <2>3, <3>1
      DEF TrackingInv, TaskInv, Busy, TRACKING_TARGET_STATUSES, TERMINAL_STATES
    <3> DEFINE pc == IF t.expired THEN "expired" ELSE "requeue"
    <3>3. trk'[w] = [t EXCEPT !.pc = pc]
      BY <1>1, <2>1, <2>3, <3>2 DEF AfterApply
    <3>4. pc \in {"requeue", "expired"}
      OBVIOUS
    <3> HIDE DEF pc
    <3>5. trk'[w].order = o /\ trk'[w].pc = pc
      BY <1>1, <2>3, <3>3 DEF TrackerState
    <3> QED
      BY <3>4, <3>5 DEF HasChain, WillGoOn
  <2>4. CASE ~(t.order = o /\ status[o] \in ExpectedStatuses(t.seen))
    <3>1. status'[o] = status[o]
      BY <2>1, <2>4 DEF WriteSnapshot, TypeOK
    <3>2. ~(t.order = o /\ WillGoOn(w))
      BY <2>1, <2>4 DEF WillGoOn
    <3> QED
      BY <1>3, <1>4, <2>1, <2>2, <3>1, <3>2
  <2> QED
    BY <2>3, <2>4
<1>9. CASE TimeOutOrder(w) \/ QueryRefused(w)
  <2>1. t.order \in Orders /\ UNCHANGED trackQ /\ \A v \in Trackers : v # w => trk'[v] = trk[v]
    BY <1>1, <1>9 DEF TimeOutOrder, QueryRefused, Forget, queueVars
  <2>2. t.order # o
    BY <1>1, <1>9
    DEF TimeOutOrder, QueryRefused, WriteSnapshot, TypeOK, TRACKING_TARGET_STATUSES
  <2>3. status'[o] = status[o]
    BY <1>9, <2>2 DEF TimeOutOrder, QueryRefused, WriteSnapshot, TypeOK
  <2> QED
    BY <1>3, <1>4, <2>1, <2>2, <2>3
<1>10. CASE RequeueTracking(w)
  <2>1. /\ t.pc = "requeue" /\ t.order \in Orders /\ UNCHANGED status
        /\ trackQ' = [trackQ EXCEPT ![t.order][t.attempt + 1] = @ + 1]
        /\ \A v \in Trackers : v # w => trk'[v] = trk[v]
    BY <1>1, <1>10 DEF RequeueTracking, Forget, dbVars
  <2>2. t.attempt + 1 \in 0..MaxAttempts
    <3>1. t.attempt \in 0..MaxAttempts /\ t.attempt # MaxAttempts
      BY <1>1, <2>1 DEF TrackerState, TrackingInv, TaskInv, Busy
    <3> QED
      BY <3>1, BoundsAssumption DEF BoundsAssumption
  <2>3. /\ trackQ'[t.order][t.attempt + 1] > 0
        /\ \A a \in 0..MaxAttempts : trackQ'[o][a] >= trackQ[o][a]
    BY <2>1, <2>2, TrackQueue
  <2>4. CASE t.order = o
    BY <2>2, <2>3, <2>4 DEF HasChain
  <2>5. CASE t.order # o
    BY <1>4, <2>1, <2>3, <2>5
  <2> QED
    BY <2>4, <2>5
<1>11. ~QueryFails(w) /\ ~TrackerCrash(w)
  BY DEF QueryFails, TrackerCrash, Fault
<1> QED
  BY <1>5, <1>6, <1>7, <1>8, <1>9, <1>10, <1>11 DEF TrackerStep, TrackerFault

\* If no process dies and no inquiry fails, an open order with a number always
\* has a queued task, or a worker that queues one or closes the order: of several
\* trackers that poll it at once, the one whose write succeeds keeps its chain.
THEOREM LiveOrdersAreTracked == Spec => []LiveOrderIsTracked
<1>1. Init => ChainInv
  BY DEF Init, ChainInv, Trackable, TRACKING_TARGET_STATUSES
<1>2. TypeOK /\ TypeOK' /\ TrackingInv /\ ChainInv /\ [Next]_vars => ChainInv'
  <2> SUFFICES ASSUME TypeOK, TypeOK', TrackingInv, ChainInv, [Next]_vars,
                      FaultKinds \cap {"crash", "query_error"} = {}, NEW o \in Orders,
                      Trackable(o)', req'[o].kind # "CANCEL"
               PROVE  HasChain(o)'
    BY DEF ChainInv
  <2>1. /\ Trackable(o) /\ req[o].kind # "CANCEL" => HasChain(o)
        /\ "crash" \notin FaultKinds
    BY DEF ChainInv
  <2>2. ASSUME UNCHANGED <<sub, trk, brokerNo>>, status'[o] = status[o], req'[o] = req[o],
               \A a \in 0..MaxAttempts : trackQ'[o][a] >= trackQ[o][a]
        PROVE  HasChain(o)'
    <3>1. HasChain(o)
      BY <2>1, <2>2 DEF Trackable
    <3> QED
      BY <2>2, <3>1, ChainStays
  <2>3. CASE Broker \/ Recovery \/ UNCHANGED vars
    BY <2>2, <2>3, OthersLeaveAlone
  <2>4. CASE Api
    <3>1. UNCHANGED <<sub, trk, brokerNo, trackQ>>
      BY <2>4
      DEF Api, CreateNew, CreateChild, CreateRow, EnqueueNew, ApiCrash, SetKillSwitch, dbVars, queueVars
    <3>2. status'[o] = status[o] /\ req'[o] = req[o]
      <4>1. ASSUME NEW x \in Orders, NEW r, CreateRow(x, r)
            PROVE  status'[o] = status[o] /\ req'[o] = req[o]
        BY <4>1 DEF CreateRow, TypeOK, Trackable, TRACKING_TARGET_STATUSES
      <4> QED
        BY <2>4, <4>1 DEF Api, CreateNew, CreateChild, EnqueueNew, ApiCrash, SetKillSwitch, dbVars
    <3>3. \A a \in 0..MaxAttempts : trackQ[o][a] \in Nat
      <4>1. trackQ[o] \in [0..MaxAttempts -> Nat]
        BY DEF TypeOK
      <4> QED
        BY <4>1
    <3> QED
      BY <2>2, <3>1, <3>2, <3>3
  <2> QED
    BY <2>1, <2>3, <2>4, SubmitterKeepsChain, TrackerKeepsChain DEF Next
<1>3. ChainInv => LiveOrderIsTracked
  BY DEF ChainInv, HasChain, LiveOrderIsTracked
<1> QED
  BY <1>1, <1>2, <1>3, TypeCorrect, TrackingInvariant, PTL DEF Spec
=============================================================================
