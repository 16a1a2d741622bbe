--------------------------- MODULE RealtimeClient ---------------------------
(***************************************************************************)
(* The client of KIS' realtime price feed                                  *)
(* (app/market/realtime/kis_realtime_client.py): its connect / resubscribe *)
(* / receive loop, the API's subscribe and unsubscribe calls that come in  *)
(* meanwhile, and the shutdown of app/main.py.  Coroutines of one event    *)
(* loop interleave at their awaits.                                        *)
(***************************************************************************)
EXTENDS Naturals

CONSTANTS
  Codes,            \* stock codes
  MaxReconnect      \* MAX_RECONNECT_ATTEMPTS

ASSUME RealtimeAssumption == MaxReconnect \in Nat

VARIABLES
  running,      \* _running
  loop,         \* where start() is
  ws,           \* _ws: None, open, or closed by the other side
  todo,         \* codes the resubscription has not come to
  codes,        \* _subscribed_codes
  attempts,     \* reconnect_attempts
  feed,         \* codes the server sends on this connection
  refused,      \* history: codes whose latest request the server refused
  streak,       \* history: failures since a connection was last opened
  shutdown      \* how far lifespan has shut the client down

rtVars == <<running, loop, ws, todo, codes, attempts, feed, refused, streak, shutdown>>

RealtimeTypeOK ==
  /\ running \in BOOLEAN
  /\ loop \in {"connect", "resubscribe", "receive", "failed", "sleep", "ended"}
  /\ ws \in {"none", "open", "closed"}
  /\ todo \subseteq Codes /\ codes \subseteq Codes /\ feed \subseteq Codes
  /\ refused \subseteq Codes
  /\ attempts \in 0..(MaxReconnect + 1) /\ streak \in 0..(MaxReconnect + 1)
  /\ shutdown \in {"no", "closing", "cancel", "done"}

\* lifespan has created the task, start has set _running.
RealtimeInit ==
  /\ running = TRUE /\ loop = "connect" /\ ws = "none"
  /\ todo = {} /\ codes = {} /\ feed = {} /\ refused = {}
  /\ attempts = 0 /\ streak = 0
  /\ shutdown = "no"

-----------------------------------------------------------------------------
(* start                                                                     *)

\* Mutant: the counter is never reset.
KeepAttempts == attempts

AttemptsAfterConnect == 0

\* Mutant: a new connection starts with no subscription.
NothingToResubscribe == {}

ToResubscribe == codes

\* connect(): approval key and socket; then list(_subscribed_codes)
Connect ==
  /\ loop = "connect"
  /\ ws' = "open" /\ feed' = {} /\ refused' = {}
  /\ attempts' = AttemptsAfterConnect /\ streak' = 0
  /\ todo' = ToResubscribe
  /\ loop' = IF ToResubscribe = {} THEN "receive" ELSE "resubscribe"
  /\ UNCHANGED <<running, codes, shutdown>>

\* The key or the connection is refused, or times out.
ConnectFails ==
  /\ loop = "connect"
  /\ loop' = "failed"
  /\ ws' = "none"
  /\ UNCHANGED <<running, todo, codes, attempts, feed, refused, streak, shutdown>>

\* subscribe sends the request and then remembers the code; the server's answer,
\* "0" or "1", is only logged.
Subscribed(c, accepted) ==
  /\ ws = "open"
  /\ codes' = codes \cup {c}
  /\ feed' = IF accepted THEN feed \cup {c} ELSE feed
  /\ refused' = IF accepted \/ c \in feed THEN refused \ {c} ELSE refused \cup {c}

Resubscribe(c, accepted) ==
  /\ loop = "resubscribe" /\ c \in todo
  /\ Subscribed(c, accepted)
  /\ todo' = todo \ {c}
  /\ loop' = IF todo = {c} THEN "receive" ELSE "resubscribe"
  /\ UNCHANGED <<running, ws, attempts, streak, shutdown>>

\* A receive or send on a dead connection ends the try block; so does the
\* missing _ws that disconnect leaves: RuntimeError in subscribe.
LoopBreaks ==
  /\ loop \in {"resubscribe", "receive"} /\ ws # "open"
  /\ loop' = "failed"
  /\ ws' = "none" /\ todo' = {}
  /\ UNCHANGED <<running, codes, attempts, feed, refused, streak, shutdown>>

\* An answer to PINGPONG fails, a message cannot be handled.
MessageFails ==
  /\ loop = "receive" /\ ws = "open"
  /\ loop' = "failed"
  /\ ws' = "none"
  /\ UNCHANGED <<running, todo, codes, attempts, feed, refused, streak, shutdown>>

\* After the finally: stop, give up, or sleep and try again.
AfterFailure ==
  /\ loop = "failed"
  /\ IF running
     THEN /\ attempts' = attempts + 1 /\ streak' = streak + 1
          /\ loop' = IF attempts' > MaxReconnect THEN "ended" ELSE "sleep"
     ELSE loop' = "ended" /\ UNCHANGED <<attempts, streak>>
  /\ UNCHANGED <<running, ws, todo, codes, feed, refused, shutdown>>

Wake ==
  /\ loop = "sleep"
  /\ loop' = IF running THEN "connect" ELSE "ended"
  /\ UNCHANGED <<running, ws, todo, codes, attempts, feed, refused, streak, shutdown>>

-----------------------------------------------------------------------------
(* Others                                                                    *)

\* POST /realtime/subscribe; without a connection it raises.
subscribe(c, accepted) ==
  /\ shutdown = "no"
  /\ Subscribed(c, accepted)
  /\ UNCHANGED <<running, loop, ws, todo, attempts, streak, shutdown>>

\* POST /realtime/unsubscribe
unsubscribe(c) ==
  /\ shutdown = "no" /\ ws = "open"
  /\ codes' = codes \ {c} /\ feed' = feed \ {c} /\ refused' = refused \ {c}
  /\ UNCHANGED <<running, loop, ws, todo, attempts, streak, shutdown>>

\* KIS closes the connection, or the network does.
ConnectionLost ==
  /\ ws = "open"
  /\ ws' = "closed"
  /\ UNCHANGED <<running, loop, todo, codes, attempts, feed, refused, streak, shutdown>>

\* disconnect: _running is cleared, an existing socket closed.
disconnect ==
  /\ shutdown = "no"
  /\ running' = FALSE
  /\ shutdown' = IF ws = "none" THEN "cancel" ELSE "closing"
  /\ ws' = IF ws = "open" THEN "closed" ELSE ws
  /\ UNCHANGED <<loop, todo, codes, attempts, feed, refused, streak>>

DisconnectEnds ==
  /\ shutdown = "closing"
  /\ ws' = "none"
  /\ shutdown' = "cancel"
  /\ UNCHANGED <<running, loop, todo, codes, attempts, feed, refused, streak>>

\* Mutant: disconnect is trusted to end the task.
TrustDisconnect == loop

LoopAfterCancel == "ended"

\* realtime_task.cancel(): CancelledError passes the except, not the finally.
CancelTask ==
  /\ shutdown = "cancel"
  /\ loop' = LoopAfterCancel
  /\ ws' = "none" /\ todo' = {}
  /\ shutdown' = "done"
  /\ UNCHANGED <<running, codes, attempts, feed, refused, streak>>

-----------------------------------------------------------------------------
LoopStep ==
  \/ Connect \/ ConnectFails
  \/ \E c \in Codes, accepted \in BOOLEAN : Resubscribe(c, accepted)
  \/ LoopBreaks
  \/ AfterFailure \/ Wake

RealtimeNext ==
  \/ LoopStep \/ MessageFails
  \/ \E c \in Codes : unsubscribe(c) \/ \E accepted \in BOOLEAN : subscribe(c, accepted)
  \/ ConnectionLost
  \/ disconnect \/ DisconnectEnds \/ CancelTask

RealtimeSpec == RealtimeInit /\ [][RealtimeNext]_rtVars

\* The event loop goes on; a shutdown that has begun goes on.
RealtimeFairness ==
  /\ WF_rtVars(LoopStep)
  /\ WF_rtVars(DisconnectEnds) /\ WF_rtVars(CancelTask)

-----------------------------------------------------------------------------
\* While the client receives on an open connection, the server sends exactly
\* the codes the client believes to be subscribed, except those it refused:
\* across lost connections, and calls that come during a resubscription.
FeedFollowsCodes == loop = "receive" /\ ws = "open" => feed = codes \ refused

\* The loop ends by itself only when MAX_RECONNECT_ATTEMPTS + 1 failures came in
\* a row, without a connection in between.
GivesUpOnlyWhenDown == loop = "ended" /\ running => streak = MaxReconnect + 1

\* Shutting down ends the loop, also when it was connecting or sleeping and
\* disconnect found no socket to close.
ShutdownEnds == shutdown # "no" ~> loop = "ended" /\ ws = "none"
=============================================================================
