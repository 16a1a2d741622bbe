----------------------------- MODULE OrderState -----------------------------
(***************************************************************************)
(* The order status machine of app/domain/order_state.py, with the status  *)
(* sets worker-2 uses (app/worker/tasks_order_status.py).                  *)
(***************************************************************************)
EXTENDS Integers

TERMINAL_STATES == {"FILLED", "CANCELED", "FAILED", "TIMEOUT"}

TRACKING_TARGET_STATUSES == {"REQUESTED", "ACCEPTED", "PARTIAL_FILLED"}

ORDER_STATUS ==
  {"PENDING", "PROCESSING"} \cup TRACKING_TARGET_STATUSES \cup TERMINAL_STATES

\* A status without an entry (the terminal ones) has no successors, as with
\* dict.get(current_status, set()).
ALLOWED_TRANSITIONS ==
  [s \in ORDER_STATUS |->
     CASE s = "PENDING"        -> {"PROCESSING", "FAILED"}
       [] s = "PROCESSING"     -> {"REQUESTED", "ACCEPTED", "FAILED", "PENDING"}
       [] s = "REQUESTED"      -> TRACKING_TARGET_STATUSES \cup TERMINAL_STATES
       [] s = "ACCEPTED"       -> {"ACCEPTED", "PARTIAL_FILLED"} \cup TERMINAL_STATES
       [] s = "PARTIAL_FILLED" -> {"PARTIAL_FILLED"} \cup TERMINAL_STATES
       [] OTHER                -> {}]

can_transition(current, next) ==
  /\ current \notin TERMINAL_STATES
  /\ next = current \/ next \in ALLOWED_TRANSITIONS[current]

\* Mutant: a tracking result overwrites whatever is there.
AnyStatus(seen) == {s \in ORDER_STATUS : seen \in ORDER_STATUS}

\* The statuses update_order_tracking_result may overwrite, given the status
\* worker-2 read when it loaded the order.
ExpectedStatuses(seen) ==
  {s \in TRACKING_TARGET_STATUSES : can_transition(seen, s)}
=============================================================================
