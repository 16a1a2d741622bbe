------------------------- MODULE RebalanceSchedule -------------------------
(***************************************************************************)
(* When a rebalance runs: Celery beat triggers execute_rebalance every     *)
(* day, and the task lets it through its gates - kill switch, distributed  *)
(* lock, last completed rebalance, RebalanceWindow, month check - before   *)
(* it hands over to the orchestrator (app/worker/tasks_rebalance.py,       *)
(* app/utils/market_calendar.py, app/repository/rebalance_repository.py).  *)
(* The API's /run starts the same orchestrator without any gate.           *)
(*                                                                         *)
(* Time has no end: `today' is the day of a month of Period days, and rows *)
(* carry their age in days, which stops growing where it makes no          *)
(* difference any more.  Days are offsets from today: 0 is today, -1       *)
(* yesterday.                                                              *)
(***************************************************************************)
EXTENDS Integers, FiniteSets

CONSTANTS
  Period,         \* days of a month
  Holidays,       \* its non-business days
  Interval,       \* rebalance_interval_days
  MaxDelay,       \* max_delay_business_days
  Workers,        \* processes that run execute_rebalance
  SchedFaults,    \* the kinds of trouble that may happen
  MaxTroubles,    \* bound: troubles in one behaviour
  MaxMessages     \* bound: triggers waiting in the queue

ASSUME CalendarAssumption ==
  /\ Period \in Nat \ {0}
  /\ Holidays \subseteq 0..(Period - 1)
  /\ Holidays # 0..(Period - 1)
ASSUME WindowAssumption == Interval \in Nat \ {0} /\ MaxDelay \in Nat
ASSUME ScheduleBounds ==
  /\ SchedFaults \subseteq {"kill", "beat", "slow", "crash", "failure", "overrun",
                      "operator"}
  /\ MaxTroubles \in Nat /\ MaxMessages \in Nat \ {0}

\* At this age every window that could open has closed.
Cap == Interval + Period * (MaxDelay + 2)
Never == -1

VARIABLES
  today, slot,     \* day of the month; before, in or after [start, end)
  kill,            \* the kill switch
  redisLock,       \* the key lock:rebalance:auto exists
  messages,        \* triggers in the queue `rebalance'
  worker,          \* the task each worker process is running
  manual,          \* the rebalance the API is running
  done,            \* age of the latest COMPLETED, non-dry row
  zombie,          \* age of the latest row left RUNNING by a dead process
  auto, gap,       \* history: age of the latest row a task completed, and the
                   \* least age it had when the next one completed
  missed,          \* history: business days of the window that passed
  overran,         \* history: a run has outlasted the TTL of its lock
  troubles

clockVars == <<today, slot>>
rowVars == <<done, zombie, auto, gap, missed>>
boundVars == <<overran, troubles>>
schedVars == <<clockVars, kill, redisLock, messages, worker, manual, rowVars, overran, troubles>>

Idle == [pc |-> "idle", dry |-> FALSE, force |-> FALSE]
\* The stages in which a task believes it has the lock.
Inside == {"locked", "running", "recorded"}
ScheduleTypeOK ==
  /\ today \in 0..(Period - 1) /\ slot \in {"before", "in", "after"}
  /\ kill \in BOOLEAN /\ redisLock \in BOOLEAN
  /\ messages \in 0..MaxMessages
  /\ worker \in [Workers -> [pc: {"idle", "locking"} \cup Inside, dry: BOOLEAN, force: BOOLEAN]]
  /\ manual \in {"idle", "running", "recorded"}
  /\ done \in 0..Cap \cup {Never} /\ zombie \in 0..Period \cup {Never}
  /\ auto \in 0..Interval /\ gap \in 0..Interval
  /\ missed \in 0..(MaxDelay + 1)
  /\ overran \in BOOLEAN
  /\ troubles \in 0..MaxTroubles

ScheduleInit ==
  /\ today = 0 /\ slot = "before"
  /\ kill = FALSE /\ redisLock = FALSE
  /\ messages = 0
  /\ worker = [w \in Workers |-> Idle]
  /\ manual = "idle"
  /\ done = Never /\ zombie = Never
  /\ auto = Interval /\ gap = Interval
  /\ missed = 0
  /\ overran = FALSE
  /\ troubles = 0

Trouble(kind) ==
  /\ kind \in SchedFaults
  /\ troubles < MaxTroubles
  /\ troubles' = troubles + 1
  /\ overran' = (overran \/ kind = "overrun")

-----------------------------------------------------------------------------
(* KrxCalendar and RebalanceWindow                                           *)

is_business_day(d) == (today + d) % Period \notin Holidays

\* adjust_to_next_business_day(d) is e.
Adjusts(d, e) ==
  /\ e >= d /\ is_business_day(e)
  /\ \A i \in d..(e - 1) : ~is_business_day(i)

BusinessDays(d, e) == Cardinality({i \in d..e : is_business_day(i)})

\* Mutant: the interval is a day short.
DueInEarly(age) == Interval - age - 1

\* The day last_rebalance_date + rebalance_interval_days
DueIn(age) == Interval - age

\* D, the next_rebalance_date, is not after today.
DueSince(age, D) == D \in (-Cap)..0 /\ Adjusts(DueIn(age), D)

\* Mutant: the delay is counted in calendar days.
InDelayCalendarDays(age) == \E D \in (-Cap)..0 : DueSince(age, D) /\ D + MaxDelay >= 0

\* D <= today <= add_business_days(D, max_delay_business_days)
InDelay(age) == \E D \in (-Cap)..0 : DueSince(age, D) /\ BusinessDays(D + 1, 0) <= MaxDelay

\* RebalanceWindow.decide
decide(age) ==
  CASE ~is_business_day(0)                              -> "SKIP_NOT_BUSINESS_DAY"
    [] is_business_day(0) /\ InDelay(age) /\ slot = "in" -> "RUN_REBALANCE"
    [] is_business_day(0) /\ InDelay(age) /\ slot # "in" -> "SKIP_OUT_OF_TIME_WINDOW"
    [] is_business_day(0) /\ ~InDelay(age)              -> "SKIP_NOT_REBALANCE_DAY"

-----------------------------------------------------------------------------
(* Time, beat, kill switch                                                   *)

Older(age, cap) == IF age \in {Never, cap} THEN age ELSE age + 1

\* Runs take minutes: none is under way when the day changes.
NextDay ==
  /\ slot = "after"
  /\ manual = "idle" /\ \A w \in Workers : worker[w] = Idle
  /\ slot' = "before"
  /\ today' = (today + 1) % Period
  /\ done' = Older(done, Cap) /\ zombie' = Older(zombie, Period) /\ auto' = Older(auto, Interval)
  /\ missed' = IF done # Never /\ is_business_day(0) /\ InDelay(done) /\ missed <= MaxDelay
               THEN missed + 1 ELSE missed
  /\ UNCHANGED <<kill, redisLock, messages, worker, manual, gap, boundVars>>

\* The window opens, and with it beat sends the daily task.
OpenWindow ==
  /\ slot = "before"
  /\ slot' = "in"
  /\ messages' = IF messages < MaxMessages THEN messages + 1 ELSE messages
  /\ UNCHANGED <<today, kill, redisLock, worker, manual, rowVars, boundVars>>

\* Beat is down when the window opens.
OpenWithoutBeat ==
  /\ slot = "before"
  /\ Trouble("beat")
  /\ slot' = "in"
  /\ UNCHANGED <<today, kill, redisLock, messages, worker, manual, rowVars>>

\* The window is an hour: workers that are up have handled their tasks.
CloseWindow ==
  /\ slot = "in"
  /\ messages = 0 /\ \A w \in Workers : worker[w] = Idle
  /\ slot' = "after"
  /\ UNCHANGED <<today, kill, redisLock, messages, worker, manual, rowVars, boundVars>>

\* The workers are down, or slow: tasks are handled after the window.
CloseEarly ==
  /\ slot = "in"
  /\ Trouble("slow")
  /\ slot' = "after"
  /\ UNCHANGED <<today, kill, redisLock, messages, worker, manual, rowVars>>

EngageKill ==
  /\ ~kill
  /\ Trouble("kill")
  /\ kill' = TRUE
  /\ UNCHANGED <<clockVars, redisLock, messages, worker, manual, rowVars>>

ReleaseKill ==
  /\ kill
  /\ kill' = FALSE
  /\ UNCHANGED <<clockVars, redisLock, messages, worker, manual, rowVars, boundVars>>

-----------------------------------------------------------------------------
(* execute_rebalance                                                         *)

\* Gate 0: with the kill switch on the task ends with an alert.
Enter(w, dry, force) ==
  /\ worker[w] = Idle
  /\ worker' = IF kill THEN worker
               ELSE [worker EXCEPT ![w] = [pc |-> "locking", dry |-> dry, force |-> force]]
  /\ UNCHANGED <<clockVars, kill, redisLock, manual, rowVars>>

\* The task of beat_schedule: dry_run False, force True.
TakeMessage(w) ==
  /\ messages > 0
  /\ messages' = messages - 1
  /\ Enter(w, FALSE, TRUE)
  /\ UNCHANGED boundVars

\* An operator calls the task.
OperatorCalls(w, dry, force) ==
  /\ Trouble("operator")
  /\ Enter(w, dry, force)
  /\ UNCHANGED messages

\* Mutant: SET without NX.
AcquireAnyway(w) == worker[w].pc = "locking"

LockIsFree(w) == worker[w].pc = "locking" /\ ~redisLock

\* Gate 1: acquire_lock
AcquireLock(w) ==
  /\ LockIsFree(w)
  /\ redisLock' = TRUE
  /\ worker' = [worker EXCEPT ![w].pc = "locked"]
  /\ UNCHANGED <<clockVars, kill, messages, manual, rowVars, boundVars>>

\* LockAcquisitionError: somebody else is running.
LockRefused(w) ==
  /\ worker[w].pc = "locking" /\ ~LockIsFree(w)
  /\ worker' = [worker EXCEPT ![w] = Idle]
  /\ UNCHANGED <<clockVars, kill, redisLock, messages, manual, rowVars, boundVars>>

\* has_completed_rebalance_in_month: a row of this month that is COMPLETED, was
\* left RUNNING, or is being run.
RanThisMonth ==
  \/ done # Never /\ done <= today
  \/ zombie # Never /\ zombie <= today
  \/ manual = "recorded"
  \/ \E w \in Workers : worker[w].pc = "recorded"

\* Mutant: force does not skip the month check.
GatesOpenMonthly(w) ==
  /\ done # Never
  /\ decide(done) = "RUN_REBALANCE"
  /\ ~RanThisMonth

\* Gates 2 and 3
GatesOpen(w) ==
  /\ done # Never
  /\ decide(done) = "RUN_REBALANCE"
  /\ worker[w].force \/ ~RanThisMonth

PassGates(w) ==
  /\ worker[w].pc = "locked" /\ GatesOpen(w)
  /\ worker' = [worker EXCEPT ![w].pc = "running"]
  /\ UNCHANGED <<clockVars, kill, redisLock, messages, manual, rowVars, boundVars>>

\* The end of `async with distributed_lock': the key is deleted, whosever it is.
Leave(w) ==
  /\ worker' = [worker EXCEPT ![w] = Idle]
  /\ redisLock' = FALSE

StopAtGate(w) ==
  /\ worker[w].pc = "locked" /\ ~GatesOpen(w)
  /\ Leave(w)
  /\ UNCHANGED <<clockVars, kill, messages, manual, rowVars, boundVars>>

\* The first commit of RebalanceExecutor.submit makes a RUNNING row visible.
RecordRunning(w) ==
  /\ worker[w].pc = "running" /\ ~worker[w].dry
  /\ worker' = [worker EXCEPT ![w].pc = "recorded"]
  /\ UNCHANGED <<clockVars, kill, redisLock, messages, manual, rowVars, boundVars>>

DryRunEnds(w) ==
  /\ worker[w].pc = "running" /\ worker[w].dry
  /\ Leave(w)
  /\ UNCHANGED <<clockVars, kill, messages, manual, rowVars, boundVars>>

\* A row becomes COMPLETED.
Completes ==
  /\ done' = 0
  /\ missed' = 0
  /\ UNCHANGED zombie

TaskCompletes(w) ==
  /\ worker[w].pc = "recorded"
  /\ Leave(w)
  /\ Completes
  /\ auto' = 0 /\ gap' = IF auto < gap THEN auto ELSE gap
  /\ UNCHANGED <<clockVars, kill, messages, manual, boundVars>>

\* The strategy or the executor fails, before or after there is a row: FAILED,
\* an alert, no retry.
TaskFails(w) ==
  /\ worker[w].pc \in {"running", "recorded"}
  /\ Trouble("failure")
  /\ Leave(w)
  /\ UNCHANGED <<clockVars, kill, messages, manual, rowVars>>

\* The worker dies: the lock and a RUNNING row stay.
WorkerCrash(w) ==
  /\ worker[w].pc # "idle"
  /\ Trouble("crash")
  /\ zombie' = IF worker[w].pc = "recorded" THEN 0 ELSE zombie
  /\ worker' = [worker EXCEPT ![w] = Idle]
  /\ UNCHANGED <<clockVars, kill, redisLock, messages, manual, done, auto, gap, missed>>

\* REBALANCE_LOCK_TTL_SECONDS have passed: only a lock whose holder is gone
\* gets that old.
LockExpires ==
  /\ redisLock /\ \A w \in Workers : worker[w].pc \notin Inside
  /\ redisLock' = FALSE
  /\ UNCHANGED <<clockVars, kill, messages, worker, manual, rowVars, boundVars>>

\* A run takes longer than the TTL.
LockOverrun ==
  /\ redisLock /\ \E w \in Workers : worker[w].pc \in Inside
  /\ Trouble("overrun")
  /\ redisLock' = FALSE
  /\ UNCHANGED <<clockVars, kill, messages, worker, manual, rowVars>>

-----------------------------------------------------------------------------
(* POST /run (app/api/router_strategy.py): no gate, no lock                  *)

ManualStart ==
  /\ manual = "idle" /\ slot = "in"
  /\ manual' = "running"
  /\ UNCHANGED <<clockVars, kill, redisLock, messages, worker, rowVars, boundVars>>

ManualRecords ==
  /\ manual = "running"
  /\ manual' = "recorded"
  /\ UNCHANGED <<clockVars, kill, redisLock, messages, worker, rowVars, boundVars>>

ManualCompletes ==
  /\ manual = "recorded"
  /\ manual' = "idle"
  /\ Completes
  /\ UNCHANGED <<clockVars, kill, redisLock, messages, worker, auto, gap, boundVars>>

\* It fails, with or without a row, or was a dry run.
ManualFails ==
  /\ manual # "idle"
  /\ manual' = "idle"
  /\ UNCHANGED <<clockVars, kill, redisLock, messages, worker, rowVars, boundVars>>

ManualCrash ==
  /\ manual = "recorded"
  /\ Trouble("crash")
  /\ manual' = "idle"
  /\ zombie' = 0
  /\ UNCHANGED <<clockVars, kill, redisLock, messages, worker, done, auto, gap, missed>>

-----------------------------------------------------------------------------
Clock == NextDay \/ OpenWindow \/ CloseWindow

\* The steps a worker takes by itself.
TaskStep(w) ==
  \/ TakeMessage(w)
  \/ AcquireLock(w) \/ LockRefused(w)
  \/ PassGates(w) \/ StopAtGate(w)
  \/ RecordRunning(w) \/ DryRunEnds(w) \/ TaskCompletes(w)

TaskTrouble(w) == TaskFails(w) \/ WorkerCrash(w)

ManualStep == ManualRecords \/ ManualCompletes \/ ManualFails

Manual == ManualStart \/ ManualStep \/ ManualCrash

ScheduleNext ==
  \/ Clock \/ OpenWithoutBeat \/ CloseEarly
  \/ EngageKill \/ ReleaseKill
  \/ LockExpires \/ LockOverrun
  \/ \E w \in Workers :
       \/ TaskStep(w) \/ TaskTrouble(w)
       \/ \E dry, force \in BOOLEAN : OperatorCalls(w, dry, force)
  \/ Manual

ScheduleSpec == ScheduleInit /\ [][ScheduleNext]_schedVars

\* Time passes, tasks and requests that have begun go on, dead locks expire and
\* the operator releases the kill switch in the end.
ScheduleFairness ==
  /\ WF_schedVars(Clock)
  /\ \A w \in Workers : WF_schedVars(TaskStep(w))
  /\ WF_schedVars(ManualStep)
  /\ WF_schedVars(LockExpires)
  /\ WF_schedVars(ReleaseKill)

FairScheduleSpec == ScheduleSpec /\ ScheduleFairness

-----------------------------------------------------------------------------
(* Properties                                                                *)

\* If no run outlasts the TTL of its lock, at most one task is past the lock,
\* whatever operators, duplicated triggers and crashes do.
OneScheduledRun ==
  ~overran =>
    \A v, w \in Workers :
      worker[v].pc \in Inside /\ worker[w].pc \in Inside => v = w

\* If no run outlasts the TTL of its lock, two rebalances that tasks completed
\* are at least rebalance_interval_days apart, even when a manual one completes
\* in between, or force skips the month check.
ScheduledSpacing == ~overran => gap >= Interval

\* Every due date offers max_delay_business_days + 1 business days: a window
\* has gone by only if that many passed without a completed rebalance.
WindowHasGone ==
  /\ done # Never
  /\ \E D \in (-Cap)..0 : DueSince(done, D) /\ BusinessDays(D + 1, 0) > MaxDelay
  /\ is_business_day(0)
GoneOnlyAfterAllChances == WindowHasGone => missed = MaxDelay + 1

\* As long as nothing goes wrong - no kill switch, crash, failure or missed
\* trigger - a rebalance that is due is completed, wherever the holidays fall.
DueIsDoneWithoutTrouble ==
  done >= Interval /\ troubles = 0 ~> troubles > 0 \/ (done # Never /\ done < Interval)

\* tasks_rebalance.py: a task that a gate stops waits for the next business
\* day.  So a rebalance that is due is completed in the end.
DueIsDone == done >= Interval ~> done # Never /\ done < Interval
=============================================================================
