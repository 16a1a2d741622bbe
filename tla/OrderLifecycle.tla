--------------------------- MODULE OrderLifecycle ---------------------------
(***************************************************************************)
(* What the order pipeline promises about one order, whatever workers,     *)
(* queues, retries and restarts do in between: it is claimed by one        *)
(* submitter at a time, the broker gives it at most one order number, it   *)
(* goes back to the queue only while it has none, it is worked only once   *)
(* it has one, and a closed order stays closed.                            *)
(***************************************************************************)
CONSTANT Orders

VARIABLES phase,    \* where each order is in its life
          numbered  \* whether the broker has given it a number

vars == <<phase, numbered>>

Phases == {"absent", "queued", "claimed", "working", "closed"}

Init ==
  /\ phase = [o \in Orders |-> "absent"]
  /\ numbered = [o \in Orders |-> FALSE]

Move(o, from, to) ==
  /\ phase[o] = from
  /\ phase' = [phase EXCEPT ![o] = to]
  /\ UNCHANGED numbered

Create(o) == Move(o, "absent", "queued")

Claim(o) == Move(o, "queued", "claimed")

HandBack(o) == ~numbered[o] /\ Move(o, "claimed", "queued")

Number(o) ==
  /\ phase[o] = "claimed" /\ ~numbered[o]
  /\ numbered' = [numbered EXCEPT ![o] = TRUE]
  /\ UNCHANGED phase

Work(o) == numbered[o] /\ Move(o, "claimed", "working")

Fail(o) == Move(o, "claimed", "closed")

Close(o) == Move(o, "working", "closed")

Next ==
  \E o \in Orders :
    \/ Create(o) \/ Claim(o) \/ HandBack(o) \/ Number(o)
    \/ Work(o) \/ Fail(o) \/ Close(o)

Spec == Init /\ [][Next]_vars
=============================================================================
