--------------------------- MODULE OrderBroadcast ---------------------------
(***************************************************************************)
(* How browsers learn of order updates (app/websocket/): a request or a    *)
(* worker that has committed a change of an order publishes its row, with  *)
(* that of its parent, on a Redis channel; the subscriber task of the API  *)
(* process sends each message to every connection of the                   *)
(* ConnectionManager.  Not every commit is followed by a publication, and  *)
(* a row is published as its database session knows it: what a session has *)
(* read it does not read again (expire_on_commit=False).                   *)
(*                                                                         *)
(* Rows change without bound, so what has been read, sent or shown is only *)
(* told to be current or not: a commit makes it outdated.                  *)
(***************************************************************************)
EXTENDS Naturals, Sequences, FiniteSets

CONSTANTS
  MaxClients,   \* bound: websocket connections
  MaxSessions,  \* bound: database sessions, of workers and API requests
  MaxActors,    \* bound: connections and sessions together
  MaxChannel    \* bound: messages that wait for the subscriber

ASSUME BroadcastAssumption ==
  MaxClients \in Nat /\ MaxSessions \in Nat /\ MaxActors \in Nat /\ MaxChannel \in Nat \ {0}

\* Connections and sessions are numbered as they begin.
Clients == 1..MaxClients
Publishers == 1..MaxSessions

\* A cancel or modify order and the order it is about
Orders == {"child", "parent"}
Message == [order: Orders, current: BOOLEAN]

VARIABLES
  pub,          \* the sessions: where each is, its order, the rows in its identity
                \* map, and whether it is worker-2's
  channel,      \* messages Redis has for the subscriber
  sub,          \* subscribe_order_events: where, message, connections to do and dead
  conns,        \* _connections
  client,       \* the browser of each connection
  outdated,     \* the orders each connected browser shows as they were before
  unheard       \* history: the orders whose last change may not reach the browsers

bcVars == <<pub, channel, sub, conns, client, outdated, unheard>>
subVars == <<sub, conns>>
restVars == <<channel, subVars, client, outdated>>

\* publish_order_update
Publishing == {"read", "publish", "readParent", "publishParent"}
NoRows == [o \in Orders |-> "unread"]
NoSession == [pc |-> "idle", order |-> "parent", view |-> NoRows, tracking |-> FALSE]
Ended == [NoSession EXCEPT !.pc = "ended"]
Listening == [pc |-> "listen", msg |-> [order |-> "parent", current |-> FALSE],
              todo |-> {}, dead |-> {}]
BroadcastTypeOK ==
  /\ pub \in [Publishers -> [pc: {"idle", "create", "submit", "vetted", "poll", "settle",
                                  "tracked", "ended"} \cup Publishing,
                             order: Orders, view: [Orders -> {"unread", "current", "old"}],
                             tracking: BOOLEAN]]
  /\ channel \in Seq(Message) /\ Len(channel) <= MaxChannel
  /\ sub \in [pc: {"listen", "send", "down"}, msg: Message,
              todo: SUBSET Clients, dead: SUBSET Clients]
  /\ conns \subseteq Clients
  /\ client \in [Clients -> {"away", "open", "gone"}]
  /\ outdated \in [Clients -> SUBSET Orders]
  /\ unheard \subseteq Orders

BroadcastInit ==
  /\ pub = [p \in Publishers |-> NoSession]
  /\ channel = <<>>
  /\ sub = Listening
  /\ conns = {}
  /\ client = [c \in Clients |-> "away"]
  /\ outdated = [c \in Clients |-> {}]
  /\ unheard = {}

-----------------------------------------------------------------------------
(* Sessions and commits                                                      *)

MayBegin ==
  Cardinality({p \in Publishers : pub[p].pc # "idle"})
    + Cardinality({c \in Clients : client[c] # "away"}) < MaxActors

\* get_order_by_id: a row the session knows already is left as it is.
Loaded(view, o) == [view EXCEPT ![o] = IF @ = "unread" THEN "current" ELSE @]

\* update(Order) changes the row in the session as well.
Written(view, o) == [view EXCEPT ![o] = "current"]

\* A commit of order o makes outdated what anybody else knows of it.
AgedView(view, o) == [view EXCEPT ![o] = IF @ = "current" THEN "old" ELSE @]
AgedMessage(m, o) == [m EXCEPT !.current = @ /\ m.order # o]

HeldElsewhere(p, o) == \E q \in Publishers : q # p /\ pub[q].view[o] # "unread"

Begins(p) ==
  /\ pub[p].pc = "idle" /\ \A q \in Publishers : q < p => pub[q].pc # "idle"
  /\ MayBegin

\* The order whose committed change p has still to publish
Owed(p) == IF pub[p].pc \in {"settle", "read", "publish"} THEN {pub[p].order} ELSE {}

\* Publisher p commits a change of order o and goes on as `next'.  Only if it
\* will be announced, and nobody else holds the row as it was, will the browsers
\* have the new one for certain.
Commit(p, o, next, announced) ==
  /\ pub' = [q \in Publishers |->
               IF q = p THEN next ELSE [pub[q] EXCEPT !.view = AgedView(@, o)]]
  /\ channel' = [i \in DOMAIN channel |-> AgedMessage(channel[i], o)]
  /\ sub' = [sub EXCEPT !.msg = AgedMessage(@, o)]
  /\ outdated' = [c \in Clients |-> IF c \in conns /\ client[c] = "open"
                                    THEN outdated[c] \cup {o} ELSE {}]
  /\ unheard' = IF announced /\ ~HeldElsewhere(p, o) THEN unheard \ {o} ELSE unheard \cup {o}
  /\ UNCHANGED <<conns, client>>

\* Publisher p goes on as `next' and nothing is committed.
Proceed(p, next) ==
  /\ pub' = [pub EXCEPT ![p] = next]
  /\ UNCHANGED <<restVars, unheard>>

-----------------------------------------------------------------------------
(* router_order                                                              *)

\* cancel and revise read the original order first.
ReadOriginal(p) ==
  /\ Begins(p)
  /\ Proceed(p, [NoSession EXCEPT !.pc = "create", !.order = "child",
                                  !.view = Loaded(NoRows, "parent")])

\* validate_original_order_for_modify_cancel raises.
RefuseRequest(p) ==
  /\ pub[p].pc = "create"
  /\ Proceed(p, Ended)

\* create_order and its commit
CreateOrder(p, o) ==
  /\ IF o = "child" THEN pub[p].pc = "create" ELSE Begins(p)
  /\ Commit(p, o, [pub[p] EXCEPT !.pc = "read", !.order = o, !.view = Written(@, o)], TRUE)

-----------------------------------------------------------------------------
(* worker-1                                                                  *)

\* PENDING to PROCESSING: committed, not published.
Claim(p, o) ==
  /\ Begins(p)
  /\ Commit(p, o, [NoSession EXCEPT !.pc = "submit", !.order = o, !.view = Written(NoRows, o)],
            FALSE)

\* The original of a cancel or modify order is read before the broker is called.
VetOriginal(p) ==
  /\ pub[p].pc = "submit" /\ pub[p].order = "child"
  /\ Proceed(p, [pub[p] EXCEPT !.pc = "vetted", !.view = Loaded(@, "parent")])

BrokerCalled(p) == pub[p].pc = IF pub[p].order = "child" THEN "vetted" ELSE "submit"

RecordSubmission(p) ==
  /\ BrokerCalled(p)
  /\ Commit(p, pub[p].order, [pub[p] EXCEPT !.pc = "read", !.view = Written(@, pub[p].order)], TRUE)

\* A rate limit: back to PENDING, committed, not published.
HandBack(p) ==
  /\ BrokerCalled(p)
  /\ Commit(p, pub[p].order, Ended, FALSE)

\* The handler of a failed submission raises (see failed_submission), or the
\* process dies.
SubmissionFails(p) ==
  /\ pub[p].pc \in {"submit", "vetted"}
  /\ Proceed(p, Ended)

-----------------------------------------------------------------------------
(* worker-2                                                                  *)

Poll(p, o) ==
  /\ Begins(p)
  /\ Proceed(p, [pc |-> "poll", order |-> o, view |-> Loaded(NoRows, o), tracking |-> TRUE])

\* The order is not to be tracked, the update finds no row, the inquiry is to be
\* repeated later, or the process dies.
StopTracking(p) ==
  /\ pub[p].pc = "poll"
  /\ Proceed(p, Ended)

\* update_order_tracking_result; a child's parent comes next.
RecordTracking(p) ==
  /\ pub[p].pc = "poll"
  /\ Commit(p, pub[p].order,
            [pub[p] EXCEPT !.pc = IF pub[p].order = "child" THEN "settle" ELSE "read",
                           !.view = Written(@, pub[p].order)], TRUE)

\* The parent is read or not, depending on the status; its update would raise.
SettleParent(p) ==
  /\ pub[p].pc = "settle"
  /\ \E view \in {pub[p].view, Loaded(pub[p].view, "parent")} :
       Proceed(p, [pub[p] EXCEPT !.pc = "read", !.view = view])

\* update_parent_order_after_child raises, and so does the handler: the child's
\* change is committed and never published.
ParentUpdateRaises(p) ==
  /\ pub[p].pc = "settle"
  /\ pub' = [pub EXCEPT ![p] = Ended]
  /\ unheard' = unheard \cup Owed(p)
  /\ UNCHANGED <<restVars>>

\* The broker refuses the inquiry: after the rollback the session knows no row;
\* FAILED is committed if the order is still open, the row published in any case.
InquiryRefused(p) ==
  /\ pub[p].pc = "poll"
  /\ LET next == [pub[p] EXCEPT !.pc = "read", !.view = NoRows, !.tracking = FALSE]
     IN  Commit(p, pub[p].order, next, TRUE) \/ Proceed(p, next)

\* The tracking window is over: TIMEOUT is written and published; if another
\* chain has closed the order meanwhile it is published although no row changes.
TimeOut(p) ==
  /\ pub[p].pc = "tracked"
  /\ LET next == [pub[p] EXCEPT !.pc = "read", !.tracking = FALSE] IN
     \/ Commit(p, pub[p].order, [next EXCEPT !.view = Written(@, pub[p].order)], TRUE)
     \/ pub[p].view[pub[p].order] = "old" /\ Proceed(p, next)

\* The order is closed, or tracked again by a later task.
EndTracking(p) ==
  /\ pub[p].pc = "tracked"
  /\ Proceed(p, Ended)

-----------------------------------------------------------------------------
(* OrderGenerator                                                            *)

\* The orders of a rebalance and the cancels of those that are late: committed,
\* not published.
GenerateOrder(p, o) ==
  /\ Begins(p)
  /\ Commit(p, o, Ended, FALSE)

-----------------------------------------------------------------------------
(* publish_order_update                                                      *)

Subject(p) == IF pub[p].pc \in {"read", "publish"} THEN pub[p].order ELSE "parent"

ReadRow(p) ==
  /\ pub[p].pc \in {"read", "readParent"}
  /\ Proceed(p, [pub[p] EXCEPT !.pc = IF @ = "read" THEN "publish" ELSE "publishParent",
                               !.view = Loaded(@, Subject(p))])

ParentFollows(p) == pub[p].pc = "publish" /\ pub[p].order = "child"

\* The caller goes on: worker-2 looks at the tracking window.
Return(p) == IF pub[p].tracking THEN [pub[p] EXCEPT !.pc = "tracked"] ELSE Ended

\* _publish_message: without a subscriber Redis drops it.
Publish(p) ==
  /\ pub[p].pc \in {"publish", "publishParent"}
  /\ Len(channel) < MaxChannel
  /\ channel' = IF sub.pc = "down" THEN channel
                ELSE Append(channel, [order |-> Subject(p),
                                      current |-> pub[p].view[Subject(p)] = "current"])
  /\ unheard' = IF sub.pc = "down" THEN unheard \cup Owed(p) ELSE unheard
  /\ pub' = [pub EXCEPT ![p] = IF ParentFollows(p) THEN [@ EXCEPT !.pc = "readParent"]
                               ELSE Return(p)]
  /\ UNCHANGED <<subVars, client, outdated>>

\* Any exception is logged and ignored, the rest is not published.
PublishFails(p) ==
  /\ pub[p].pc \in Publishing
  /\ pub' = [pub EXCEPT ![p] = Return(p)]
  /\ unheard' = unheard \cup Owed(p)
  /\ UNCHANGED <<restVars>>

-----------------------------------------------------------------------------
(* subscribe_order_events and ConnectionManager.broadcast                    *)

\* The next message; the connections are copied under the lock.
Receive ==
  /\ sub.pc = "listen" /\ channel # <<>>
  /\ sub' = [pc |-> "send", msg |-> Head(channel), todo |-> conns, dead |-> {}]
  /\ channel' = Tail(channel)
  /\ UNCHANGED <<pub, conns, outdated, client, unheard>>

SendOk(c) ==
  /\ sub.pc = "send" /\ c \in sub.todo /\ client[c] = "open"
  /\ outdated' = [outdated EXCEPT ![c] = IF sub.msg.current THEN @ \ {sub.msg.order}
                                         ELSE @ \cup {sub.msg.order}]
  /\ sub' = [sub EXCEPT !.todo = @ \ {c}]
  /\ UNCHANGED <<pub, channel, conns, client, unheard>>

\* Mutant: the exception ends the loop over the connections.
StopAtDead(c) == [sub EXCEPT !.todo = {}, !.dead = @ \cup {c}]

SkipDead(c) == [sub EXCEPT !.todo = @ \ {c}, !.dead = @ \cup {c}]

\* send_json raises: remembered as dead.
SendFails(c) ==
  /\ sub.pc = "send" /\ c \in sub.todo /\ client[c] # "open"
  /\ sub' = SkipDead(c)
  /\ UNCHANGED <<pub, channel, conns, outdated, client, unheard>>

\* The connection is half-open: the data goes nowhere.
SendVanishes(c) ==
  /\ sub.pc = "send" /\ c \in sub.todo /\ client[c] # "open"
  /\ sub' = [sub EXCEPT !.todo = @ \ {c}]
  /\ UNCHANGED <<pub, channel, conns, outdated, client, unheard>>

BroadcastEnds ==
  /\ sub.pc = "send" /\ sub.todo = {}
  /\ conns' = conns \ sub.dead
  /\ sub' = Listening
  /\ UNCHANGED <<pub, channel, outdated, client, unheard>>

\* get_message raises: the task ends and nothing starts it again.
SubscriberFails ==
  /\ sub.pc = "listen"
  /\ sub' = [Listening EXCEPT !.pc = "down"]
  /\ unheard' = unheard \cup {channel[i].order : i \in DOMAIN channel}
  /\ channel' = <<>>
  /\ UNCHANGED <<pub, conns, outdated, client>>

-----------------------------------------------------------------------------
(* orders_websocket                                                          *)

\* ConnectionManager.connect, then the greeting; the browser loads the orders.
Join(c) ==
  /\ client[c] = "away" /\ \A d \in Clients : d < c => client[d] # "away"
  /\ MayBegin
  /\ client' = [client EXCEPT ![c] = "open"]
  /\ conns' = conns \cup {c}
  /\ UNCHANGED <<pub, channel, sub, outdated, unheard>>

\* The browser leaves, or its network does.
ClientGone(c) ==
  /\ client[c] = "open"
  /\ client' = [client EXCEPT ![c] = "gone"]
  /\ outdated' = [outdated EXCEPT ![c] = {}]
  /\ UNCHANGED <<pub, channel, subVars, unheard>>

\* Mutant: the endpoint ends without disconnect.
KeepConnection(c) == conns

Discard(c) == conns \ {c}

\* WebSocketDisconnect, or any other exception of the greeting, a receive or a
\* ping.  (When a broadcast has removed the connection, disconnect does nothing.)
EndpointEnds(c) ==
  /\ client[c] = "gone" /\ c \in conns
  /\ conns' = Discard(c)
  /\ UNCHANGED <<pub, channel, sub, client, outdated, unheard>>

-----------------------------------------------------------------------------
SessionStep(p) ==
  \/ ReadOriginal(p) \/ RefuseRequest(p)
  \/ VetOriginal(p) \/ RecordSubmission(p) \/ HandBack(p) \/ SubmissionFails(p)
  \/ StopTracking(p) \/ RecordTracking(p) \/ SettleParent(p) \/ ParentUpdateRaises(p)
  \/ InquiryRefused(p) \/ TimeOut(p) \/ EndTracking(p)
  \/ \E o \in Orders : CreateOrder(p, o) \/ Claim(p, o) \/ Poll(p, o) \/ GenerateOrder(p, o)

PublisherStep(p) == ReadRow(p) \/ Publish(p)

SendTo(c) == SendOk(c) \/ SendFails(c) \/ SendVanishes(c)

SubscriberStep == Receive \/ BroadcastEnds \/ \E c \in Clients : SendTo(c)

BroadcastNext ==
  \/ \E p \in Publishers :
       \/ SessionStep(p) \/ PublisherStep(p) \/ PublishFails(p)
  \/ SubscriberStep \/ SubscriberFails
  \/ \E c \in Clients : Join(c) \/ ClientGone(c) \/ EndpointEnds(c)

BroadcastSpec == BroadcastInit /\ [][BroadcastNext]_bcVars

\* Coroutines that can go on do: in particular a ping every 30 seconds makes an
\* endpoint notice that its browser has gone.
BroadcastFairness ==
  /\ \A p \in Publishers : WF_bcVars(PublisherStep(p))
  /\ WF_bcVars(SubscriberStep)
  /\ \A c \in Clients : WF_bcVars(EndpointEnds(c))

-----------------------------------------------------------------------------
\* Once the messages are sent, an open browser shows the row of every order as
\* it is, whichever other browsers vanished in the middle of a broadcast - save
\* an order whose last commit is still to be published, is one the code does not
\* publish (claim, hand-back, a rebalance's order, a child whose parent cannot be
\* updated), was made while another session held the row, or whose message was
\* lost.  The next published change of an order nobody else holds repairs it.
BrowsersCatchUp ==
  channel = <<>> /\ sub.pc # "send" =>
    \A c \in conns : client[c] = "open" =>
      \A o \in outdated[c] : o \in unheard \/ \E p \in Publishers : o \in Owed(p)

\* A connection whose browser has gone leaves the manager's set, whether the
\* endpoint or a broadcast finds out.
GoneAreRemoved == \A c \in Clients : client[c] = "gone" ~> c \notin conns
=============================================================================
