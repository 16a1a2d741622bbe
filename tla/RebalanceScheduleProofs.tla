----------------------- MODULE RebalanceScheduleProofs -----------------------
(***************************************************************************)
(* Proofs about execute_rebalance, for every calendar, interval, delay and *)
(* number of workers: as long as no run outlasts the TTL of the lock, one  *)
(* task at a time is past it and the rebalances tasks complete are         *)
(* rebalance_interval_days apart; and a rebalance window goes by only      *)
(* after max_delay_business_days + 1 business days.                        *)
(* PositionDiffProofs contributes induction over the natural numbers.      *)
(***************************************************************************)
EXTENDS RebalanceSchedule, PositionDiffProofs

\* The part of the type invariant the proofs need.
Tasks == [pc: {"idle", "locking"} \cup Inside, dry: BOOLEAN, force: BOOLEAN]
RowTypes ==
  /\ overran \in BOOLEAN
  /\ worker \in [Workers -> Tasks]
  /\ done \in Nat \cup {Never}
  /\ auto \in 0..Interval

\* A task past the lock has it.
LockKept == ~overran => \A w \in Workers : worker[w].pc \in Inside => redisLock

\* The latest rebalance a task completed is no younger than the latest of all,
\* up to the interval, where ages stop to matter.
AutoIsOlder == auto = Interval \/ (done # Never /\ done <= auto)

\* A task that is past the gates still finds the interval over when it ends.
IntervalOver ==
  ~overran => \A w \in Workers : worker[w].pc \in {"running", "recorded"} => auto = Interval

GapKept == ~overran => gap = Interval

ScheduleInv ==
  /\ RowTypes /\ OneScheduledRun /\ LockKept
  /\ AutoIsOlder /\ IntervalOver /\ GapKept

-----------------------------------------------------------------------------
\* Ages are counted up to the interval at least.
LEMMA CapCoversInterval == Cap \in Nat /\ Cap >= Interval
<1>1. Period * (MaxDelay + 2) \in Nat
  BY CalendarAssumption, WindowAssumption
<1> QED
  BY <1>1, WindowAssumption DEF Cap

\* The gates open only when the interval is over (RebalanceWindow.decide).
LEMMA GatesAfterInterval ==
  ASSUME RowTypes, NEW w \in Workers, GatesOpen(w)
  PROVE  done # Never /\ done >= Interval
<1>1. InDelay(done) /\ done # Never
  BY DEF GatesOpen, decide
<1>2. PICK D \in (-Cap)..0 : DueSince(done, D)
  BY <1>1 DEF InDelay
<1> QED
  BY <1>1, <1>2, WindowAssumption, CapCoversInterval DEF DueSince, Adjusts, DueIn, RowTypes, Never

\* Nobody works and nothing is completed.
LEMMA InitInv == ScheduleInit => ScheduleInv
<1> SUFFICES ASSUME ScheduleInit PROVE ScheduleInv
  OBVIOUS
<1>1. RowTypes
  <2>1. Idle \in Tasks
    BY DEF Idle, Tasks
  <2>2. overran \in BOOLEAN /\ done \in Nat \cup {Never}
    BY Zenon DEF ScheduleInit
  <2>3. worker \in [Workers -> Tasks]
    BY <2>1 DEF ScheduleInit
  <2>4. auto \in 0..Interval
    BY WindowAssumption DEF ScheduleInit
  <2> QED
    BY <2>2, <2>3, <2>4 DEF RowTypes
<1>2. \A w \in Workers : worker[w].pc = "idle"
  BY DEF ScheduleInit, Idle
<1>3. OneScheduledRun /\ LockKept /\ IntervalOver
  BY <1>2 DEF OneScheduledRun, LockKept, IntervalOver, Inside
<1>4. AutoIsOlder /\ GapKept
  BY DEF ScheduleInit, AutoIsOlder, GapKept
<1> QED
  BY <1>1, <1>3, <1>4 DEF ScheduleInv

-----------------------------------------------------------------------------
\* Steps that leave the tasks, their lock and the rows alone keep everything.
LEMMA Bystander ==
  ASSUME ScheduleInv, UNCHANGED <<redisLock, worker, done, auto, gap>>,
         overran' \in BOOLEAN, overran => overran'
  PROVE  ScheduleInv'
  BY DEF ScheduleInv, RowTypes, OneScheduledRun, LockKept, AutoIsOlder, IntervalOver, GapKept

\* A trouble never forgets that a run outlasted its lock.
LEMMA TroubleRemembers ==
  ASSUME RowTypes, NEW kind, Trouble(kind)
  PROVE  overran' \in BOOLEAN /\ (overran => overran')
  BY DEF RowTypes, Trouble

\* A task that leaves, with or without its lock, keeps everything, if the rows
\* stay as they are.
LEMMA TaskLeaves ==
  ASSUME ScheduleInv, NEW w \in Workers, worker' = [worker EXCEPT ![w] = Idle],
         redisLock' = redisLock \/ worker[w].pc \in Inside,
         UNCHANGED <<done, auto, gap>>, overran' \in BOOLEAN, overran => overran'
  PROVE  ScheduleInv'
<1>1. worker'[w].pc = "idle" /\ \A v \in Workers \ {w} : worker'[v] = worker[v]
  BY DEF ScheduleInv, RowTypes, Idle
<1>2. RowTypes'
  BY DEF ScheduleInv, RowTypes, Tasks, Idle
<1>3. OneScheduledRun' /\ LockKept'
  BY <1>1 DEF ScheduleInv, OneScheduledRun, LockKept, Inside
<1>4. AutoIsOlder' /\ IntervalOver' /\ GapKept'
  BY <1>1 DEF ScheduleInv, AutoIsOlder, IntervalOver, GapKept
<1> QED
  BY <1>2, <1>3, <1>4 DEF ScheduleInv

\* A task that is still before the lock may start.
LEMMA TaskEnters ==
  ASSUME ScheduleInv, NEW w \in Workers, NEW dry \in BOOLEAN, NEW force \in BOOLEAN,
         Enter(w, dry, force), overran' \in BOOLEAN, overran => overran'
  PROVE  ScheduleInv'
<1>1. CASE kill
  BY <1>1, Bystander DEF Enter, rowVars
<1>2. CASE ~kill
  <2>1. worker'[w].pc = "locking" /\ \A v \in Workers \ {w} : worker'[v] = worker[v]
    BY <1>2 DEF Enter, ScheduleInv, RowTypes
  <2>2. RowTypes'
    BY <1>2 DEF Enter, ScheduleInv, RowTypes, Tasks, rowVars
  <2>3. OneScheduledRun' /\ LockKept'
    BY <2>1 DEF Enter, ScheduleInv, OneScheduledRun, LockKept, Inside
  <2>4. AutoIsOlder' /\ IntervalOver' /\ GapKept'
    BY <2>1 DEF Enter, rowVars, ScheduleInv, AutoIsOlder, IntervalOver, GapKept
  <2> QED
    BY <2>2, <2>3, <2>4 DEF ScheduleInv
<1> QED
  BY <1>1, <1>2

-----------------------------------------------------------------------------
\* The steps a task takes by itself keep the invariant.
LEMMA TaskStepKeeps ==
  ASSUME ScheduleInv, NEW w \in Workers, TaskStep(w)
  PROVE  ScheduleInv'
<1> USE DEF rowVars, boundVars
<1>0. overran \in BOOLEAN
  BY DEF ScheduleInv, RowTypes
<1>1. CASE TakeMessage(w)
  BY <1>0, <1>1, TaskEnters DEF TakeMessage
<1>2. CASE AcquireLock(w)
  <2>1. worker'[w].pc = "locked" /\ \A v \in Workers \ {w} : worker'[v] = worker[v]
    BY <1>2 DEF AcquireLock, ScheduleInv, RowTypes, Tasks
  <2>2. RowTypes'
    BY <1>2 DEF AcquireLock, ScheduleInv, RowTypes, Tasks, Inside
  <2>3. ~overran => \A v \in Workers : worker[v].pc \notin Inside
    BY <1>2 DEF AcquireLock, LockIsFree, ScheduleInv, LockKept
  <2>4. OneScheduledRun' /\ LockKept'
    BY <1>2, <2>1, <2>3 DEF AcquireLock, OneScheduledRun, LockKept, Inside
  <2>5. AutoIsOlder' /\ IntervalOver' /\ GapKept'
    BY <1>2, <2>1 DEF AcquireLock, ScheduleInv, AutoIsOlder, IntervalOver, GapKept
  <2> QED
    BY <2>2, <2>4, <2>5 DEF ScheduleInv
<1>3. CASE LockRefused(w)
  BY <1>0, <1>3, TaskLeaves DEF LockRefused
<1>4. CASE PassGates(w)
  <2>1. worker'[w].pc = "running" /\ \A v \in Workers \ {w} : worker'[v] = worker[v]
    BY <1>4 DEF PassGates, ScheduleInv, RowTypes, Tasks
  <2>2. RowTypes'
    BY <1>4 DEF PassGates, ScheduleInv, RowTypes, Tasks, Inside
  <2>3. OneScheduledRun' /\ LockKept'
    BY <1>4, <2>1 DEF PassGates, ScheduleInv, OneScheduledRun, LockKept, Inside
  <2>4. auto = Interval
    BY <1>4, GatesAfterInterval, WindowAssumption
       DEF PassGates, ScheduleInv, RowTypes, AutoIsOlder, Never
  <2>5. AutoIsOlder' /\ IntervalOver' /\ GapKept'
    BY <1>4, <2>1, <2>4 DEF PassGates, ScheduleInv, AutoIsOlder, IntervalOver, GapKept
  <2> QED
    BY <2>2, <2>3, <2>5 DEF ScheduleInv
<1>5. CASE StopAtGate(w)
  BY <1>0, <1>5, TaskLeaves DEF StopAtGate, Leave, Inside
<1>6. CASE RecordRunning(w)
  <2>1. worker'[w].pc = "recorded" /\ \A v \in Workers \ {w} : worker'[v] = worker[v]
    BY <1>6 DEF RecordRunning, ScheduleInv, RowTypes, Tasks
  <2>2. RowTypes'
    BY <1>6 DEF RecordRunning, ScheduleInv, RowTypes, Tasks, Inside
  <2>3. OneScheduledRun' /\ LockKept'
    BY <1>6, <2>1 DEF RecordRunning, ScheduleInv, OneScheduledRun, LockKept, Inside
  <2>4. AutoIsOlder' /\ IntervalOver' /\ GapKept'
    BY <1>6, <2>1 DEF RecordRunning, ScheduleInv, AutoIsOlder, IntervalOver, GapKept
  <2> QED
    BY <2>2, <2>3, <2>4 DEF ScheduleInv
<1>7. CASE DryRunEnds(w)
  BY <1>0, <1>7, TaskLeaves DEF DryRunEnds, Leave, Inside
<1>8. CASE TaskCompletes(w)
  <2>1. worker'[w].pc = "idle" /\ \A v \in Workers \ {w} : worker'[v] = worker[v]
    BY <1>8 DEF TaskCompletes, Leave, ScheduleInv, RowTypes, Idle
  <2>2. RowTypes'
    BY <1>8, WindowAssumption
       DEF TaskCompletes, Leave, Completes, ScheduleInv, RowTypes, Tasks, Idle
  <2>3. ~overran => \A v \in Workers : worker'[v].pc \notin Inside
    BY <1>8, <2>1 DEF TaskCompletes, ScheduleInv, OneScheduledRun, Inside
  <2>4. OneScheduledRun' /\ LockKept' /\ IntervalOver'
    BY <1>8, <2>3 DEF TaskCompletes, OneScheduledRun, LockKept, IntervalOver, Inside
  <2>5. AutoIsOlder'
    BY <1>8 DEF TaskCompletes, Completes, AutoIsOlder, Never
  <2>6. GapKept'
    BY <1>8, WindowAssumption
       DEF TaskCompletes, ScheduleInv, IntervalOver, GapKept
  <2> QED
    BY <2>2, <2>4, <2>5, <2>6 DEF ScheduleInv
<1> QED
  BY <1>1, <1>2, <1>3, <1>4, <1>5, <1>6, <1>7, <1>8 DEF TaskStep

-----------------------------------------------------------------------------
\* Every step keeps the invariant.
LEMMA InvStep == ScheduleInv /\ [ScheduleNext]_schedVars => ScheduleInv'
<1> SUFFICES ASSUME ScheduleInv, [ScheduleNext]_schedVars PROVE ScheduleInv'
  OBVIOUS
<1> USE DEF rowVars, boundVars
<1>0. overran \in BOOLEAN /\ RowTypes
  BY DEF ScheduleInv, RowTypes
<1>1. CASE NextDay
  <2>1. auto' = IF auto = Interval THEN auto ELSE auto + 1
    BY <1>1, WindowAssumption DEF NextDay, Older, ScheduleInv, RowTypes, Never
  <2>2. done' \in Nat \cup {Never}
    BY <1>1 DEF NextDay, Older, ScheduleInv, RowTypes
  <2>3. RowTypes'
    BY <1>1, <2>1, <2>2, WindowAssumption DEF NextDay, ScheduleInv, RowTypes
  <2>4. AutoIsOlder'
    BY <1>1, <2>1, CapCoversInterval, WindowAssumption
       DEF NextDay, Older, ScheduleInv, RowTypes, AutoIsOlder, Never
  <2>5. OneScheduledRun' /\ LockKept' /\ IntervalOver' /\ GapKept'
    BY <1>1, <2>1
       DEF NextDay, ScheduleInv, OneScheduledRun, LockKept, IntervalOver, GapKept
  <2> QED
    BY <2>3, <2>4, <2>5 DEF ScheduleInv
<1>2. CASE OpenWindow \/ CloseWindow \/ ReleaseKill \/ ManualStart
  BY <1>0, <1>2, Bystander DEF OpenWindow, CloseWindow, ReleaseKill, ManualStart
<1>3. CASE OpenWithoutBeat
  BY <1>0, <1>3, Bystander, TroubleRemembers DEF OpenWithoutBeat
<1>4. CASE CloseEarly
  BY <1>0, <1>4, Bystander, TroubleRemembers DEF CloseEarly
<1>5. CASE EngageKill
  BY <1>0, <1>5, Bystander, TroubleRemembers DEF EngageKill
<1>6. CASE LockExpires
  BY <1>6 DEF LockExpires, ScheduleInv, RowTypes, OneScheduledRun, LockKept, AutoIsOlder,
              IntervalOver, GapKept
<1>7. CASE LockOverrun
  <2>1. overran' = TRUE
    BY <1>7 DEF LockOverrun, Trouble
  <2> QED
    BY <1>7, <2>1 DEF LockOverrun, ScheduleInv, RowTypes, OneScheduledRun, LockKept,
                      AutoIsOlder, IntervalOver, GapKept
<1>8. ASSUME NEW w \in Workers, TaskStep(w) PROVE ScheduleInv'
  BY <1>8, TaskStepKeeps
<1>9. ASSUME NEW w \in Workers, TaskTrouble(w) PROVE ScheduleInv'
  <2>1. CASE TaskFails(w)
    BY <1>0, <2>1, TaskLeaves, TroubleRemembers DEF TaskFails, Leave, Inside
  <2>2. CASE WorkerCrash(w)
    BY <1>0, <2>2, TaskLeaves, TroubleRemembers DEF WorkerCrash
  <2> QED
    BY <1>9, <2>1, <2>2 DEF TaskTrouble
<1>10. ASSUME NEW w \in Workers, NEW dry \in BOOLEAN, NEW force \in BOOLEAN,
              OperatorCalls(w, dry, force)
       PROVE  ScheduleInv'
  BY <1>0, <1>10, TaskEnters, TroubleRemembers DEF OperatorCalls
<1>11. CASE ManualRecords \/ ManualFails
  BY <1>0, <1>11, Bystander DEF ManualRecords, ManualFails
<1>12. CASE ManualCompletes
  BY <1>12 DEF ManualCompletes, Completes, ScheduleInv, RowTypes, OneScheduledRun, LockKept,
               AutoIsOlder, IntervalOver, GapKept, Never
<1>13. CASE ManualCrash
  BY <1>0, <1>13, Bystander, TroubleRemembers DEF ManualCrash
<1>14. CASE UNCHANGED schedVars
  BY <1>0, <1>14, Bystander DEF schedVars
<1> QED
  BY <1>1, <1>2, <1>3, <1>4, <1>5, <1>6, <1>7, <1>8, <1>9, <1>10, <1>11, <1>12,
     <1>13, <1>14 DEF ScheduleNext, Clock, Manual, ManualStep

\* The invariant holds in every state: the induction the theorems share.
THEOREM InvHolds == ScheduleSpec => []ScheduleInv
  BY InitInv, InvStep, PTL DEF ScheduleSpec

\* The distributed lock of execute_rebalance lets one task at a time through,
\* although it is released without a check of its owner.
THEOREM OneScheduledRunHolds == ScheduleSpec => []OneScheduledRun
<1>1. ScheduleInv => OneScheduledRun
  BY DEF ScheduleInv
<1> QED
  BY InvHolds, <1>1, PTL

\* Rebalances that tasks complete are at least rebalance_interval_days apart:
\* wherever the holidays fall, whatever manual runs, crashes, operators and
\* late triggers do in between.
THEOREM ScheduledSpacingHolds == ScheduleSpec => []ScheduledSpacing
<1>1. ScheduleInv => ScheduledSpacing
  BY WindowAssumption DEF ScheduleInv, GapKept, ScheduledSpacing
<1> QED
  BY InvHolds, <1>1, PTL

-----------------------------------------------------------------------------
(* Days modulo the month                                                     *)

\* The month a day falls into, and its day of that month.
LEMMA DivMod ==
  ASSUME NEW P \in Nat \ {0}, NEW a \in Int
  PROVE  a \div P \in Int /\ a % P \in 0..(P - 1) /\ a = P * (a \div P) + (a % P)
OBVIOUS

\* A positive number of months is a month at least.
LEMMA TimesAtLeast ==
  ASSUME NEW P \in Nat \ {0}, NEW k \in Int, k >= 1
  PROVE  P * k >= P
OBVIOUS

\* A day has one place in one month.
LEMMA UniqueDay ==
  ASSUME NEW P \in Nat \ {0}, NEW q \in Int, NEW s \in Int,
         NEW r \in 0..(P - 1), NEW t \in 0..(P - 1), P * q + r = P * s + t
  PROVE  r = t
<1>1. P * (s - q) = r - t /\ P * (q - s) = t - r
  OBVIOUS
<1>2. s - q < 1
  <2> SUFFICES ASSUME s - q >= 1 PROVE FALSE
    OBVIOUS
  <2>1. P * (s - q) >= P
    BY TimesAtLeast
  <2> QED
    BY <1>1, <2>1
<1>3. q - s < 1
  <2> SUFFICES ASSUME q - s >= 1 PROVE FALSE
    OBVIOUS
  <2>1. P * (q - s) >= P
    BY TimesAtLeast
  <2> QED
    BY <1>1, <2>1
<1>4. q = s
  BY <1>2, <1>3
<1> QED
  BY <1>4

\* The day of the month of the r-th day of some month.
LEMMA DayOfMonth ==
  ASSUME NEW P \in Nat \ {0}, NEW q \in Int, NEW r \in 0..(P - 1), NEW a \in Int, a = P * q + r
  PROVE  a % P = r
<1> DEFINE s == a \div P
           t == a % P
<1>1. s \in Int /\ t \in 0..(P - 1) /\ a = P * s + t
  BY DivMod
<1> HIDE DEF s, t
<1>2. P * q + r = P * s + t
  BY <1>1
<1>3. r = t
  BY <1>1, <1>2, UniqueDay
<1> QED
  BY <1>3 DEF t

\* A month later it is the same day of the month.
LEMMA MonthLater ==
  ASSUME NEW P \in Nat \ {0}, NEW a \in Int, NEW b \in Int, b = a + P
  PROVE  b % P = a % P
<1> DEFINE q == a \div P
           r == a % P
<1>1. q \in Int /\ r \in 0..(P - 1) /\ a = P * q + r
  BY DivMod
<1> HIDE DEF q, r
<1>2. q + 1 \in Int /\ b = P * (q + 1) + r
  BY <1>1
<1>3. b % P = r
  BY <1>1, <1>2, DayOfMonth
<1> QED
  BY <1>3 DEF r

-----------------------------------------------------------------------------
(* Counting business days, for any day t of the month that is today          *)

Biz(t, d) == (t + d) % Period \notin Holidays
BizDays(t, d, e) == {i \in d..e : Biz(t, i)}
Count(t, d, e) == Cardinality(BizDays(t, d, e))

\* Days are finitely many.
LEMMA CountType ==
  ASSUME NEW t, NEW d \in Int, NEW e \in Int
  PROVE  IsFiniteSet(BizDays(t, d, e)) /\ Count(t, d, e) \in Nat
<1>1. IsFiniteSet(d..e) /\ BizDays(t, d, e) \in SUBSET (d..e)
  BY FS_Interval DEF BizDays
<1> QED
  BY <1>1, FS_Subset, FS_CardinalityType DEF Count

\* Days are counted up to a day and after it.
LEMMA CountSplit ==
  ASSUME NEW t, NEW d \in Int, NEW e \in Int, NEW f \in Int, d <= e + 1, e <= f
  PROVE  Count(t, d, f) = Count(t, d, e) + Count(t, e + 1, f)
<1> DEFINE A == BizDays(t, d, e)
           B == BizDays(t, e + 1, f)
<1>1. e + 1 \in Int
  OBVIOUS
<1>2. /\ IsFiniteSet(A) /\ Cardinality(A) = Count(t, d, e) /\ Count(t, d, e) \in Nat
      /\ IsFiniteSet(B) /\ Cardinality(B) = Count(t, e + 1, f) /\ Count(t, e + 1, f) \in Nat
  BY <1>1, CountType DEF Count
<1>3. A \cap B = {} /\ A \cup B = BizDays(t, d, f)
  BY DEF BizDays
<1> HIDE DEF A, B
<1>4. Cardinality(A \cup B) = Cardinality(A) + Cardinality(B) - Cardinality(A \cap B)
  BY <1>2, FS_Union
<1>5. Cardinality(A \cap B) = 0
  BY <1>3, FS_EmptySet
<1>6. Cardinality(A \cup B) = Count(t, d, f)
  BY <1>3 DEF Count
<1> QED
  BY <1>2, <1>4, <1>5, <1>6

\* One day.
LEMMA CountOne ==
  ASSUME NEW t, NEW d \in Int
  PROVE  Count(t, d, d) = IF Biz(t, d) THEN 1 ELSE 0
<1>1. CASE Biz(t, d)
  <2>1. BizDays(t, d, d) = {d}
    BY <1>1 DEF BizDays
  <2> QED
    BY <1>1, <2>1, FS_Singleton DEF Count
<1>2. CASE ~Biz(t, d)
  <2>1. BizDays(t, d, d) = {}
    BY <1>2 DEF BizDays
  <2> QED
    BY <1>2, <2>1, FS_EmptySet DEF Count
<1> QED
  BY <1>1, <1>2

\* No day.
LEMMA CountNone ==
  ASSUME NEW t, NEW d \in Int, NEW e \in Int, d > e
  PROVE  Count(t, d, e) = 0
<1>1. BizDays(t, d, e) = {}
  BY DEF BizDays
<1> QED
  BY <1>1, FS_EmptySet DEF Count

\* From an earlier day on there are no fewer.
LEMMA CountEarlier ==
  ASSUME NEW t, NEW d \in Int, NEW e \in Int, NEW f \in Int, d <= e
  PROVE  Count(t, e, f) <= Count(t, d, f)
<1>1. IsFiniteSet(BizDays(t, d, f))
  BY CountType
<1>2. BizDays(t, e, f) \in SUBSET BizDays(t, d, f)
  BY DEF BizDays
<1> QED
  BY <1>1, <1>2, FS_Subset DEF Count

\* Tomorrow, every day is one day nearer.
LEMMA TomorrowBiz ==
  ASSUME NEW t \in 0..(Period - 1), NEW u, u = (t + 1) % Period, NEW d \in Int
  PROVE  Biz(u, d) <=> Biz(t, d + 1)
<1>0. Period \in Nat \ {0}
  BY CalendarAssumption
<1>1. CASE t + 1 < Period
  <2>1. t + 1 \in 0..(Period - 1) /\ t + 1 \in Int /\ 0 \in Int /\ t + 1 = Period * 0 + (t + 1)
    BY <1>0, <1>1
  <2>2. u = t + 1
    BY <1>0, <2>1, DayOfMonth
  <2>3. u + d = t + (d + 1)
    BY <1>0, <2>2
  <2> QED
    BY <2>3 DEF Biz
<1>2. CASE ~(t + 1 < Period)
  <2>1. t + 1 \in Int /\ 1 \in Int /\ 0 \in 0..(Period - 1) /\ t + 1 = Period * 1 + 0
    BY <1>0, <1>2
  <2>2. u = 0
    BY <1>0, <2>1, DayOfMonth
  <2>3. d \in Int /\ t + (d + 1) \in Int /\ t + (d + 1) = d + Period /\ u + d = d
    BY <1>0, <2>1, <2>2
  <2>4. (t + (d + 1)) % Period = d % Period
    BY <1>0, <2>3, MonthLater
  <2> QED
    BY <2>3, <2>4 DEF Biz
<1> QED
  BY <1>1, <1>2

\* So are the days that are counted.
LEMMA CountTomorrow ==
  ASSUME NEW t \in 0..(Period - 1), NEW u, u = (t + 1) % Period, NEW d \in Int, NEW e \in Int
  PROVE  Count(u, d, e) = Count(t, d + 1, e + 1)
<1> DEFINE A == BizDays(u, d, e)
           B == BizDays(t, d + 1, e + 1)
           f == [i \in A |-> i + 1]
<1>1. IsFiniteSet(A)
  BY CountType
<1>2. \A i \in Int : Biz(u, i) <=> Biz(t, i + 1)
  BY TomorrowBiz
<1>3. \A i \in A : i \in Int /\ f[i] = i + 1 /\ f[i] \in B
  BY <1>2 DEF BizDays
<1>4. \A j \in B : j - 1 \in A /\ f[j - 1] = j
  <2> SUFFICES ASSUME NEW j \in B PROVE j - 1 \in A /\ f[j - 1] = j
    OBVIOUS
  <2>1. j \in Int /\ j - 1 \in d..e /\ Biz(t, j) /\ (j - 1) + 1 = j /\ j - 1 \in Int
    BY DEF BizDays
  <2>2. Biz(u, j - 1)
    BY <1>2, <2>1
  <2> QED
    BY <2>1, <2>2 DEF BizDays
<1>5. \A i, j \in A : f[i] = f[j] => i = j
  BY <1>3
<1>6. f \in Bijection(A, B)
  <2>1. f \in [A -> B]
    BY <1>3
  <2> HIDE DEF f, A, B
  <2> QED
    BY <1>4, <1>5, <2>1 DEF Bijection, Injection, Surjection, IsInjective
<1>7. ExistsBijection(A, B)
  BY <1>6 DEF ExistsBijection
<1> HIDE DEF A, B
<1>8. Cardinality(B) = Cardinality(A)
  BY <1>1, <1>7, FS_Bijection
<1> QED
  BY <1>8 DEF A, B, Count

\* A month has a business day, wherever it begins.
LEMMA MonthHasBusinessDay ==
  ASSUME NEW t \in 0..(Period - 1), NEW x \in Int
  PROVE  \E e \in x..(x + Period - 1) : Biz(t, e)
<1>0. Period \in Nat \ {0} /\ t \in Int
  BY CalendarAssumption
<1>1. PICK b \in 0..(Period - 1) : b \notin Holidays
  BY CalendarAssumption
<1> DEFINE a == t + x
           q == a \div Period
           y == a % Period
<1>2. a \in Int
  BY <1>0
<1>3. q \in Int /\ y \in 0..(Period - 1) /\ a = Period * q + y
  <2> HIDE DEF a
  <2> QED
    BY <1>0, <1>2, DivMod
<1> HIDE DEF q, y
<1>4. CASE b >= y
  <2> DEFINE e == x + (b - y)
  <2>1. e \in x..(x + Period - 1) /\ t + e \in Int
    BY <1>0, <1>3, <1>4
  <2>2. t + e = a + (b - y)
    BY <1>0, <1>3
  <2> HIDE DEF a, e
  <2>3. t + e = Period * q + b
    BY <1>0, <1>3, <2>2
  <2> DEFINE z == t + e
  <2>4. z \in Int /\ z = Period * q + b
    BY <2>1, <2>3
  <2> HIDE DEF z
  <2>5. z % Period = b
    BY <1>0, <1>3, <2>4, DayOfMonth
  <2> QED
    BY <1>1, <2>1, <2>5 DEF Biz, z
<1>5. CASE ~(b >= y)
  <2> DEFINE e == x + (b - y + Period)
  <2>1. e \in x..(x + Period - 1) /\ t + e \in Int
    BY <1>0, <1>3, <1>5
  <2>2. t + e = a + (b - y + Period)
    BY <1>0, <1>3
  <2> HIDE DEF a, e
  <2>3. t + e = Period * (q + 1) + b /\ q + 1 \in Int
    BY <1>0, <1>3, <2>2
  <2> DEFINE z == t + e
             p == q + 1
  <2>4. z \in Int /\ p \in Int /\ z = Period * p + b
    BY <2>1, <2>3
  <2> HIDE DEF z, p
  <2>5. z % Period = b
    BY <1>0, <2>4, DayOfMonth
  <2> QED
    BY <1>1, <2>1, <2>5 DEF Biz, z
<1> QED
  BY <1>4, <1>5

\* So k months have k business days at least.
LEMMA MonthsHaveBusinessDays ==
  ASSUME NEW t \in 0..(Period - 1), NEW k \in Nat, NEW d \in Int
  PROVE  Count(t, d, d + Period * k - 1) >= k
<1>0. Period \in Nat \ {0}
  BY CalendarAssumption
<1> DEFINE T == {n \in Nat : \A c \in Int : Count(t, c, c + Period * n - 1) >= n}
<1>1. 0 \in T
  <2> SUFFICES ASSUME NEW c \in Int PROVE Count(t, c, c + Period * 0 - 1) >= 0
    OBVIOUS
  <2>1. c + Period * 0 - 1 \in Int
    BY <1>0
  <2> QED
    BY <2>1, CountType
<1>2. ASSUME NEW n \in T PROVE n + 1 \in T
  <2> SUFFICES ASSUME NEW c \in Int PROVE Count(t, c, c + Period * (n + 1) - 1) >= n + 1
    OBVIOUS
  <2> DEFINE pn == Period * n
             e == c + pn - 1
             f == e + Period
  <2>1. pn \in Nat /\ c + Period * (n + 1) - 1 = f
    BY <1>0
  <2>2. Count(t, c, e) >= n
    OBVIOUS
  <2> HIDE DEF pn
  <2>3. e \in Int /\ f \in Int /\ e + 1 \in Int /\ c <= e + 1 /\ e <= f /\ f = (e + 1) + Period - 1
    BY <1>0, <2>1
  <2> HIDE DEF e, f
  <2>4. Count(t, c, f) = Count(t, c, e) + Count(t, e + 1, f)
    BY <2>3, CountSplit
  <2>5. Count(t, c, e) \in Nat /\ Count(t, e + 1, f) \in Nat /\ IsFiniteSet(BizDays(t, e + 1, f))
    BY <2>3, CountType
  <2>6. BizDays(t, e + 1, f) # {}
    <3>1. \E i \in (e + 1)..f : Biz(t, i)
      BY <2>3, MonthHasBusinessDay
    <3> QED
      BY <3>1 DEF BizDays
  <2>7. Count(t, e + 1, f) # 0
    BY <2>5, <2>6, FS_EmptySet DEF Count
  <2>8. Count(t, c, f) >= n + 1
    BY <2>2, <2>4, <2>5, <2>7
  <2> QED
    BY <2>1, <2>8
<1>3. T = Nat
  <2> HIDE DEF T
  <2>1. T \in SUBSET Nat
    BY DEF T
  <2> QED
    BY <1>1, <1>2, <2>1, Induction
<1> QED
  BY <1>3

-----------------------------------------------------------------------------
(* A window has gone only after all its chances                              *)

\* The inductive invariant: every business day since the due date has been
\* counted as a chance, until they are all used up; where ages stop growing,
\* they are.
ChancesInv ==
  /\ today \in 0..(Period - 1) /\ missed \in 0..(MaxDelay + 1) /\ done \in 0..Cap \cup {Never}
  /\ done # Never /\ done < Cap =>
       missed = MaxDelay + 1 \/ missed >= Count(today, DueIn(done), -1)
  /\ done = Cap => missed = MaxDelay + 1

\* The days from a business day D up to yesterday are as many as those after D
\* up to today, if today is a business day.
LEMMA CountFromDue ==
  ASSUME NEW t \in 0..(Period - 1), NEW D \in Int, D <= 0, Biz(t, D), Biz(t, 0),
         Count(t, D + 1, 0) > MaxDelay
  PROVE  Count(t, D, -1) > MaxDelay
<1>0. MaxDelay \in Nat /\ D + 1 \in Int
  BY WindowAssumption
<1>1. D # 0
  <2> SUFFICES ASSUME D = 0 PROVE FALSE
    OBVIOUS
  <2>1. Count(t, D + 1, 0) = 0
    BY <1>0, CountNone
  <2> QED
    BY <1>0, <2>1
<1>2. Count(t, D + 1, 0) = Count(t, D + 1, -1) + Count(t, 0, 0)
  <2>1. D + 1 <= -1 + 1 /\ -1 <= 0 /\ -1 \in Int /\ -1 + 1 = 0
    BY <1>1
  <2>2. Count(t, D + 1, 0) = Count(t, D + 1, -1) + Count(t, -1 + 1, 0)
    BY <1>0, <2>1, CountSplit
  <2> QED
    BY <2>1, <2>2
<1>3. Count(t, D, -1) = Count(t, D, D) + Count(t, D + 1, -1)
  <2>1. D <= D + 1 /\ D <= -1 /\ -1 \in Int
    BY <1>1
  <2> QED
    BY <2>1, CountSplit
<1>4. Count(t, 0, 0) = 1 /\ Count(t, D, D) = 1
  BY CountOne
<1>5. Count(t, D + 1, -1) \in Nat
  BY <1>0, CountType
<1> QED
  BY <1>0, <1>2, <1>3, <1>4, <1>5

\* A due date that has come has a next business day, if today is one.
LEMMA DueDay ==
  ASSUME NEW a \in Int, a <= 0, is_business_day(0)
  PROVE  \E D \in a..0 : Adjusts(a, D)
<1> DEFINE T == {n \in Nat : a + n <= 0 /\ is_business_day(a + n)}
<1>1. T \in SUBSET Nat /\ -a \in T
  <2>1. -a \in Nat /\ a + (-a) = 0
    OBVIOUS
  <2> QED
    BY <2>1
<1>2. PICK m \in T : \A n \in T : m <= n
  <2> HIDE DEF T
  <2>1. T # {}
    BY <1>1
  <2> QED
    BY <1>1, <2>1, LeastElement
<1> DEFINE D == a + m
<1>3. m \in Nat /\ D \in a..0 /\ is_business_day(D)
  BY <1>2
<1>4. ASSUME NEW i \in a..(D - 1) PROVE ~is_business_day(i)
  <2>1. i - a \in Nat /\ i - a < m /\ a + (i - a) = i /\ i <= 0
    BY <1>3
  <2>2. i - a \notin T
    BY <1>2, <1>3, <2>1
  <2> QED
    BY <2>1, <2>2
<1> HIDE DEF D
<1>5. Adjusts(a, D)
  BY <1>3, <1>4 DEF Adjusts
<1> QED
  BY <1>3, <1>5

\* If a window has gone by, all its chances have been counted.
LEMMA GoneIsCounted ==
  ASSUME ChancesInv, done # Never, done < Cap, is_business_day(0),
         NEW D \in (-Cap)..0, DueSince(done, D), BusinessDays(D + 1, 0) > MaxDelay
  PROVE  missed = MaxDelay + 1
<1>0. /\ MaxDelay \in Nat /\ Interval \in Nat /\ Cap \in Nat /\ today \in 0..(Period - 1)
      /\ missed \in 0..(MaxDelay + 1) /\ done \in Nat
  BY WindowAssumption, CapCoversInterval DEF ChancesInv
<1> DEFINE a == DueIn(done)
<1>1. a \in Int /\ D \in Int /\ a <= D /\ D <= 0 /\ is_business_day(D)
  BY <1>0 DEF DueSince, Adjusts, DueIn
<1>2. Biz(today, D) /\ Biz(today, 0) /\ Count(today, D + 1, 0) > MaxDelay
  BY <1>1 DEF Biz, is_business_day, BusinessDays, Count, BizDays
<1> HIDE DEF a
<1>3. Count(today, D, -1) > MaxDelay
  BY <1>0, <1>1, <1>2, CountFromDue
<1>4. Count(today, D, -1) <= Count(today, a, -1) /\ Count(today, a, -1) \in Nat /\ Count(today, D, -1) \in Nat
  BY <1>1, CountEarlier, CountType
<1>5. missed = MaxDelay + 1 \/ missed >= Count(today, a, -1)
  BY DEF ChancesInv, a
<1> QED
  BY <1>0, <1>3, <1>4, <1>5

\* Steps that leave the calendar and the rows alone keep the count, and so does
\* a completed rebalance, from which it starts again.
LEMMA CountStays ==
  ASSUME ChancesInv, today' = today,
         UNCHANGED <<done, missed>> \/ (done' = 0 /\ missed' = 0)
  PROVE  ChancesInv'
<1>1. CASE UNCHANGED <<done, missed>>
  <2>1. UNCHANGED <<today, done, missed>>
    BY <1>1
  <2> QED
    BY <2>1 DEF ChancesInv, Count, BizDays, Biz, DueIn, Cap, Never
<1>2. CASE done' = 0 /\ missed' = 0
  <2>1. /\ MaxDelay \in Nat /\ Interval \in Nat \ {0} /\ Cap \in Nat /\ Cap >= Interval
        /\ today' \in 0..(Period - 1)
    BY WindowAssumption, CapCoversInterval DEF ChancesInv
  <2>2. Count(today', DueIn(0), -1) = 0
    <3>1. DueIn(0) \in Int /\ -1 \in Int /\ DueIn(0) > -1
      BY <2>1 DEF DueIn
    <3> QED
      BY <3>1, CountNone
  <2>3. (missed >= Count(today, DueIn(done), -1))'
    <3>1. (Count(today, DueIn(done), -1))' = Count(today', DueIn(0), -1)
      BY <1>2 DEF Count, BizDays, Biz, DueIn
    <3> QED
      BY <1>2, <2>2, <3>1
  <2>4. done' \in 0..Cap /\ done' # Cap /\ missed' \in 0..(MaxDelay + 1)
    BY <1>2, <2>1
  <2> QED
    BY <2>1, <2>3, <2>4 DEF ChancesInv, Cap, Never
<1> QED
  BY <1>1, <1>2

\* A day that passes is counted.
LEMMA NextDayCounts ==
  ASSUME ChancesInv, NextDay
  PROVE  ChancesInv'
<1>0. /\ MaxDelay \in Nat /\ Interval \in Nat \ {0} /\ Cap \in Nat /\ Cap >= Interval
      /\ Period \in Nat \ {0} /\ today \in 0..(Period - 1) /\ missed \in 0..(MaxDelay + 1)
      /\ done \in 0..Cap \cup {Never} /\ Cap = Interval + Period * (MaxDelay + 2)
  BY WindowAssumption, CalendarAssumption, CapCoversInterval DEF ChancesInv, Cap
<1> DEFINE counted == done # Never /\ is_business_day(0) /\ InDelay(done) /\ missed <= MaxDelay
<1>1. /\ today' = (today + 1) % Period /\ done' = Older(done, Cap)
      /\ missed' = IF counted THEN missed + 1 ELSE missed
  BY DEF NextDay
<1>2. today' \in 0..(Period - 1) /\ missed' \in 0..(MaxDelay + 1) /\ missed' >= missed
  <2>1. today + 1 \in Int
    BY <1>0
  <2>2. (today + 1) % Period \in 0..(Period - 1)
    <3> DEFINE z == today + 1
    <3>1. z \in Int
      BY <2>1
    <3> HIDE DEF z
    <3>2. z % Period \in 0..(Period - 1)
      BY <1>0, <3>1, DivMod
    <3> QED
      BY <3>2 DEF z
  <2> HIDE DEF counted
  <2>3. missed' \in 0..(MaxDelay + 1) /\ missed' >= missed
    <3>1. counted => missed <= MaxDelay
      BY DEF counted
    <3> QED
      BY <1>0, <1>1, <3>1
  <2> QED
    BY <1>1, <2>2, <2>3
<1>3. CASE done = Never
  <2>1. done' = Never /\ Never \notin 0..Cap
    BY <1>0, <1>1, <1>3 DEF Older, Never
  <2>2. done' # Cap
    BY <1>0, <2>1
  <2> QED
    BY <1>2, <2>1, <2>2 DEF ChancesInv, Cap, Never
<1>4. CASE done = Cap
  <2>1. done' = Cap /\ missed = MaxDelay + 1
    BY <1>1, <1>4 DEF Older, ChancesInv
  <2>2. missed' = MaxDelay + 1
    BY <1>0, <1>2, <2>1
  <2> QED
    BY <1>0, <1>2, <2>1, <2>2 DEF ChancesInv, Cap, Never
<1>5. CASE done # Never /\ done # Cap
  <2>1. done \in Nat /\ done < Cap /\ done' = done + 1 /\ done + 1 \in 0..Cap
    BY <1>0, <1>1, <1>5 DEF Older
  <2> DEFINE a == Interval - done
             now == Count(today, a, 0)
  <2>2. a \in Int /\ -1 \in Int /\ 0 \in Int
    BY <1>0, <2>1
  <2>3. Count(today', DueIn(done + 1), -1) = now
    <3> DEFINE d == DueIn(done + 1)
               u == today'
    <3>1. d \in Int /\ d + 1 = a /\ -1 + 1 = 0
      BY <1>0, <2>1 DEF DueIn
    <3>2. Count(u, d, -1) = Count(today, d + 1, -1 + 1)
      <4>1. u = (today + 1) % Period
        BY <1>1
      <4> HIDE DEF u, d
      <4> QED
        BY <1>0, <2>2, <3>1, <4>1, CountTomorrow
    <3> QED
      BY <3>1, <3>2
  <2>4. now \in Nat
    BY <2>2, CountType
  <2>5. missed' = MaxDelay + 1 \/ missed' >= now
    <3>1. CASE a > 0
      <4>1. now = 0
        BY <2>2, <3>1, CountNone
      <4> QED
        BY <1>0, <1>2, <4>1
    <3>2. CASE ~(a > 0)
      <4> DEFINE before == Count(today, a, -1)
      <4>1. /\ before \in Nat
            /\ now = before + IF is_business_day(0) THEN 1 ELSE 0
        <5>1. before \in Nat
          BY <2>2, CountType
        <5>2. a <= -1 + 1 /\ -1 <= 0 /\ -1 + 1 = 0
          BY <2>2, <3>2
        <5>3. Count(today, a, 0) = Count(today, a, -1) + Count(today, -1 + 1, 0)
          BY <2>2, <5>2, CountSplit
        <5>4. Count(today, 0, 0) = IF is_business_day(0) THEN 1 ELSE 0
          BY <2>2, CountOne DEF Biz, is_business_day
        <5> QED
          BY <5>1, <5>2, <5>3, <5>4
      <4>2. missed = MaxDelay + 1 \/ missed >= before
        BY <1>5, <2>1 DEF ChancesInv, DueIn
      <4> HIDE DEF now, before, a
      <4>3. CASE missed = MaxDelay + 1
        BY <1>0, <1>2, <4>3
      <4>4. CASE missed # MaxDelay + 1 /\ ~is_business_day(0)
        BY <1>0, <1>2, <4>1, <4>2, <4>4
      <4>5. CASE missed # MaxDelay + 1 /\ is_business_day(0)
        <5>1. PICK D \in a..0 : Adjusts(a, D)
          BY <2>2, <3>2, <4>5, DueDay
        <5>2. D \in (-Cap)..0 /\ DueSince(done, D)
          BY <1>0, <2>1, <2>2, <5>1 DEF DueSince, DueIn, a
        <5>3. ~(BusinessDays(D + 1, 0) > MaxDelay)
          BY <2>1, <1>5, <4>5, <5>2, GoneIsCounted
        <5>4. BusinessDays(D + 1, 0) \in Nat
          <6>1. D + 1 \in Int
            BY <5>2, <1>0
          <6>2. Count(today, D + 1, 0) \in Nat
            BY <2>2, <6>1, CountType
          <6> QED
            BY <6>2 DEF BusinessDays, Count, BizDays, Biz, is_business_day
        <5>5. BusinessDays(D + 1, 0) <= MaxDelay
          BY <1>0, <5>3, <5>4
        <5>6. InDelay(done)
          BY <5>2, <5>5 DEF InDelay
        <5>7. missed' = missed + 1
          BY <1>0, <1>1, <1>5, <4>5, <5>6
        <5> QED
          BY <1>0, <4>1, <4>2, <4>5, <5>7
      <4> QED
        BY <4>3, <4>4, <4>5
    <3> QED
      BY <3>1, <3>2
  <2>6. done' = Cap => missed' = MaxDelay + 1
    <3> SUFFICES ASSUME done + 1 = Cap PROVE missed' = MaxDelay + 1
      BY <2>1
    <3> DEFINE k == MaxDelay + 2
               months == Period * k
               d == DueIn(done + 1)
    <3>1. k \in Nat /\ months \in Nat /\ d = -months
      BY <1>0 DEF DueIn
    <3>2. Count(today', d, d + Period * k - 1) >= k
      <4>1. d \in Int
        BY <3>1
      <4> HIDE DEF k, d
      <4> QED
        BY <1>2, <3>1, <4>1, MonthsHaveBusinessDays
    <3>3. d + Period * k - 1 = -1
      <4> HIDE DEF k, d
      <4> QED
        BY <3>1
    <3>4. now >= MaxDelay + 2
      BY <2>3, <3>2, <3>3
    <3> HIDE DEF now
    <3> QED
      BY <1>0, <1>2, <2>4, <2>5, <3>4
  <2>7. (Count(today, DueIn(done), -1))' = now
    BY <2>1, <2>3 DEF Count, BizDays, Biz, DueIn
  <2> HIDE DEF now
  <2> QED
    BY <1>2, <2>1, <2>5, <2>6, <2>7 DEF ChancesInv, Cap, Never
<1> QED
  BY <1>3, <1>4, <1>5

\* The invariant holds at the start, and every step keeps it.
LEMMA ChancesHold == ScheduleSpec => []ChancesInv
<1>1. ScheduleInit => ChancesInv
  <2> SUFFICES ASSUME ScheduleInit PROVE ChancesInv
    OBVIOUS
  <2>1. Cap \in Nat /\ Never \notin 0..Cap /\ MaxDelay \in Nat /\ Period \in Nat \ {0}
    BY CapCoversInterval, WindowAssumption, CalendarAssumption DEF Never
  <2>2. today = 0 /\ done = Never /\ missed = 0
    BY DEF ScheduleInit
  <2> QED
    BY <2>1, <2>2 DEF ChancesInv
<1>2. ChancesInv /\ [ScheduleNext]_schedVars => ChancesInv'
  <2> SUFFICES ASSUME ChancesInv, [ScheduleNext]_schedVars PROVE ChancesInv'
    OBVIOUS
  <2>1. CASE NextDay
    BY <2>1, NextDayCounts
  <2>2. CASE ~NextDay
    <3> USE DEF rowVars, clockVars, boundVars
    <3>1. ASSUME NEW w \in Workers,
                 \/ TaskStep(w) \/ TaskTrouble(w)
                 \/ \E dry, force \in BOOLEAN : OperatorCalls(w, dry, force)
          PROVE  today' = today /\ (UNCHANGED <<done, missed>> \/ (done' = 0 /\ missed' = 0))
      BY <3>1 DEF TaskStep, TaskTrouble, OperatorCalls, Enter, TakeMessage, AcquireLock, LockRefused,
                  PassGates, StopAtGate, RecordRunning, DryRunEnds, TaskCompletes, Completes, Leave,
                  TaskFails, WorkerCrash
    <3>2. ASSUME OpenWindow \/ CloseWindow \/ OpenWithoutBeat \/ CloseEarly \/ EngageKill \/ ReleaseKill
                 \/ LockExpires \/ LockOverrun \/ Manual \/ UNCHANGED schedVars
          PROVE  today' = today /\ (UNCHANGED <<done, missed>> \/ (done' = 0 /\ missed' = 0))
      BY <3>2 DEF OpenWindow, CloseWindow, OpenWithoutBeat, CloseEarly, EngageKill, ReleaseKill,
                  LockExpires, LockOverrun, Manual, ManualStart, ManualStep, ManualRecords,
                  ManualCompletes, ManualFails, ManualCrash, Completes, schedVars
    <3>3. today' = today /\ (UNCHANGED <<done, missed>> \/ (done' = 0 /\ missed' = 0))
      BY <2>2, <3>1, <3>2 DEF ScheduleNext, Clock
    <3> QED
      BY <3>3, CountStays
  <2> QED
    BY <2>1, <2>2
<1> QED
  BY <1>1, <1>2, PTL DEF ScheduleSpec

\* Wherever the holidays fall and however long the interval and the delay are,
\* RebalanceWindow lets a window go by only after max_delay_business_days + 1
\* business days on which the rebalance could have run.
THEOREM GoneOnlyAfterAllChancesHolds == ScheduleSpec => []GoneOnlyAfterAllChances
<1>1. ChancesInv => GoneOnlyAfterAllChances
  <2> SUFFICES ASSUME ChancesInv, WindowHasGone PROVE missed = MaxDelay + 1
    BY DEF GoneOnlyAfterAllChances
  <2>1. done # Never /\ is_business_day(0)
    BY DEF WindowHasGone
  <2>2. PICK D \in (-Cap)..0 : DueSince(done, D) /\ BusinessDays(D + 1, 0) > MaxDelay
    BY DEF WindowHasGone
  <2>3. done \in 0..Cap /\ Cap \in Nat
    BY <2>1, CapCoversInterval DEF ChancesInv
  <2>4. CASE done = Cap
    BY <2>4 DEF ChancesInv
  <2>5. CASE done < Cap
    BY <2>1, <2>2, <2>5, GoneIsCounted
  <2> QED
    BY <2>3, <2>4, <2>5
<1> QED
  BY <1>1, ChancesHold, PTL
=============================================================================
