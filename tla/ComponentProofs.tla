-------------------------- MODULE ComponentProofs --------------------------
(***************************************************************************)
(* Proofs about three components that share no state with the rest, for    *)
(* every value of their constants:                                         *)
(*   - OrderBroadcast: which changes of an order may never reach a browser *)
(*     that stays connected, and that all others do;                       *)
(*   - Screening: what the financial-statement cache excludes, what        *)
(*     averaged ranks select, and what a stock bought on part of a         *)
(*     statement is worth;                                                 *)
(*   - Backtest: the position book of the swing-trading day loop.          *)
(* PositionDiffProofs contributes induction over the natural numbers.      *)
(***************************************************************************)
EXTENDS OrderBroadcast, Screening, Backtest, PositionDiffProofs, SequenceTheorems

-----------------------------------------------------------------------------
(* OrderBroadcast                                                            *)

\* What a message says of an order that has not changed since it was read.
Current(o) == [order |-> o, current |-> TRUE]

\* Some session has committed a change of o and will publish the row.
Owes(o) == \E p \in Publishers : o \in Owed(p)

\* The current row waits in the channel, behind position i.
WaitsBehind(o, i) == \E j \in DOMAIN channel : j > i /\ channel[j] = Current(o)

\* Of an order that all browsers will hear of: no session holds an old row, and a
\* message or a browser that is outdated is followed by a current message.
Delivery(o) ==
  /\ \A p \in Publishers : pub[p].view[o] # "old"
  /\ \A i \in DOMAIN channel : channel[i].order = o =>
       channel[i].current \/ Owes(o) \/ WaitsBehind(o, i)
  /\ sub.pc = "send" /\ sub.msg.order = o =>
       sub.msg.current \/ Owes(o) \/ WaitsBehind(o, 0)
  /\ \A c \in conns : client[c] = "open" /\ o \in outdated[c] =>
       \/ Owes(o) \/ WaitsBehind(o, 0)
       \/ sub.pc = "send" /\ c \in sub.todo /\ sub.msg = Current(o)

DeliveryInv == \A o \in Orders \ unheard : Delivery(o)

Knowledge == {"unread", "current", "old"}
SessionType ==
  [pc: {"idle", "create", "submit", "vetted", "poll", "settle", "tracked", "ended"}
         \cup Publishing,
   order: Orders, view: [Orders -> Knowledge], tracking: BOOLEAN]
SubType == [pc: {"listen", "send", "down"}, msg: Message,
            todo: SUBSET Clients, dead: SUBSET Clients]

\* A session publishes what it has read.
HasRead(r) ==
  /\ r.pc = "publish" => r.view[r.order] # "unread"
  /\ r.pc = "publishParent" => r.view["parent"] # "unread"

\* The types, and what holds whatever is lost.
BroadcastBasis ==
  /\ BroadcastTypeOK
  /\ \A p \in Publishers : HasRead(pub[p])
  /\ \A c \in Clients : client[c] # "open" => outdated[c] = {}

BroadcastInv == BroadcastBasis /\ DeliveryInv

\* The types of one session and one message.
LEMMA BroadcastTypes ==
  ASSUME BroadcastTypeOK
  PROVE  /\ pub \in [Publishers -> SessionType]
         /\ channel \in Seq(Message) /\ Len(channel) \in Nat /\ DOMAIN channel = 1..Len(channel)
         /\ \A i \in DOMAIN channel : /\ channel[i] \in Message /\ channel[i].order \in Orders
                                      /\ channel[i].current => channel[i] = Current(channel[i].order)
         /\ sub \in SubType /\ sub.msg \in Message /\ sub.msg.order \in Orders
         /\ sub.msg.current => sub.msg = Current(sub.msg.order)
         /\ conns \subseteq Clients /\ client \in [Clients -> {"away", "open", "gone"}]
         /\ outdated \in [Clients -> SUBSET Orders] /\ unheard \subseteq Orders
<1>1. /\ pub \in [Publishers -> SessionType]
      /\ channel \in Seq(Message) /\ Len(channel) \in Nat /\ DOMAIN channel = 1..Len(channel)
      /\ \A i \in DOMAIN channel : channel[i] \in Message
      /\ sub \in SubType /\ sub.msg \in Message
      /\ conns \subseteq Clients /\ client \in [Clients -> {"away", "open", "gone"}]
      /\ outdated \in [Clients -> SUBSET Orders] /\ unheard \subseteq Orders
  BY DEF BroadcastTypeOK, SessionType, SubType, Knowledge
<1>2. \A m \in Message : /\ m.order \in Orders
                         /\ m.current => m = Current(m.order)
  BY DEF Message, Current
<1> QED
  BY <1>1, <1>2

\* A commit keeps what a message is about, and makes it outdated if it is about
\* the order.
LEMMA AgedMessageIs ==
  ASSUME NEW o \in Orders, NEW m \in Message
  PROVE  /\ AgedMessage(m, o) \in Message /\ AgedMessage(m, o).order = m.order
         /\ m.order # o => AgedMessage(m, o) = m
<1>1. m = [order |-> m.order, current |-> m.current] /\ m.order \in Orders /\ m.current \in BOOLEAN
  BY DEF Message
<1>2. AgedMessage(m, o) = [order |-> m.order, current |-> m.current /\ m.order # o]
  BY <1>1 DEF AgedMessage
<1>3. m.order # o => (m.current /\ m.order # o) = m.current
  BY <1>1
<1>4. AgedMessage(m, o).order = m.order
  BY <1>2
<1>5. AgedMessage(m, o) \in Message
  BY <1>1, <1>2 DEF Message
<1>6. m.order # o => AgedMessage(m, o) = m
  BY <1>1, <1>2, <1>3
<1> QED
  BY <1>4, <1>5, <1>6

\* What reading, writing and a commit of another session do to the rows a session
\* holds.
LEMMA ViewsAre ==
  ASSUME NEW v \in [Orders -> Knowledge], NEW o \in Orders
  PROVE  /\ Loaded(v, o) \in [Orders -> Knowledge] /\ Written(v, o) \in [Orders -> Knowledge]
         /\ AgedView(v, o) \in [Orders -> Knowledge]
         /\ Loaded(v, o)[o] # "unread" /\ Written(v, o)[o] = "current"
         /\ \A x \in Orders : /\ Loaded(v, o)[x] = "old" => v[x] = "old"
                              /\ Written(v, o)[x] = "old" => v[x] = "old"
                              /\ x # o => AgedView(v, o)[x] = v[x]
                              /\ AgedView(v, o)[x] = "unread" <=> v[x] = "unread"
BY DEF Loaded, Written, AgedView, Knowledge

\* A function on 1..n is a sequence.
LEMMA FunctionIsSeq ==
  ASSUME NEW X, NEW n \in Nat, NEW f \in [1..n -> X]
  PROVE  f \in Seq(X) /\ Len(f) = n /\ DOMAIN f = 1..n
OBVIOUS

\* Session p, which owes nothing, commits a change of o; if that is to be
\* announced the session owes the new row, and holds it or nothing.
CommitStep(p, o, next, announced) ==
  /\ Commit(p, o, next, announced)
  /\ next \in SessionType /\ HasRead(next)
  /\ pub[p].pc \notin {"settle", "read", "publish"}
  /\ \A x \in Orders \ {o} : next.view[x] = "old" => pub[p].view[x] = "old"
  /\ announced => next.pc \in {"settle", "read"} /\ next.order = o /\ next.view[o] # "old"

\* Session p goes on without a commit and still owes what it owed.
ProceedStep(p, next) ==
  /\ Proceed(p, next)
  /\ next \in SessionType /\ HasRead(next)
  /\ \A x \in Orders : next.view[x] = "old" => pub[p].view[x] = "old"
  /\ pub[p].pc \in {"settle", "read", "publish"} =>
       next.pc \in {"settle", "read", "publish"} /\ next.order = pub[p].order

\* Every step of a session before it publishes is of one of these two kinds, or
\* loses the change it owes.
LEMMA SessionSteps ==
  ASSUME BroadcastBasis, NEW p \in Publishers, SessionStep(p) \/ ReadRow(p)
  PROVE  \/ \E o \in Orders : \E next : CommitStep(p, o, next, TRUE) \/ CommitStep(p, o, next, FALSE)
         \/ \E next : ProceedStep(p, next)
         \/ ParentUpdateRaises(p)
<1> DEFINE r == pub[p]
           IsCommit == \E o \in Orders : \E next :
                         CommitStep(p, o, next, TRUE) \/ CommitStep(p, o, next, FALSE)
           IsProceed == \E next : ProceedStep(p, next)
<1>0. /\ r \in SessionType /\ r.order \in Orders /\ r.view \in [Orders -> Knowledge]
      /\ NoRows \in [Orders -> Knowledge] /\ \A x \in Orders : NoRows[x] = "unread"
      /\ NoSession \in SessionType /\ Ended \in SessionType /\ Ended.pc = "ended"
      /\ NoSession.pc = "idle" /\ NoSession.view = NoRows /\ Ended.view = NoRows
      /\ "child" \in Orders /\ "parent" \in Orders
  BY BroadcastTypes
  DEF BroadcastBasis, SessionType, Knowledge, NoRows, NoSession, Ended, Orders, Publishing
<1>v. \A o \in Orders :
        /\ Written(r.view, o) \in [Orders -> Knowledge] /\ Loaded(r.view, o) \in [Orders -> Knowledge]
        /\ Written(NoRows, o) \in [Orders -> Knowledge] /\ Loaded(NoRows, o) \in [Orders -> Knowledge]
        /\ Written(r.view, o)[o] # "old" /\ Loaded(r.view, o)[o] # "unread"
        /\ \A x \in Orders : /\ Written(r.view, o)[x] = "old" => r.view[x] = "old"
                             /\ Loaded(r.view, o)[x] = "old" => r.view[x] = "old"
                             /\ Written(NoRows, o)[x] # "old" /\ Loaded(NoRows, o)[x] # "old"
  <2>1. \A o \in Orders :
          /\ Written(r.view, o) \in [Orders -> Knowledge] /\ Loaded(r.view, o) \in [Orders -> Knowledge]
          /\ Written(r.view, o)[o] # "old" /\ Loaded(r.view, o)[o] # "unread"
          /\ \A x \in Orders : /\ Written(r.view, o)[x] = "old" => r.view[x] = "old"
                               /\ Loaded(r.view, o)[x] = "old" => r.view[x] = "old"
    <3> SUFFICES ASSUME NEW o \in Orders
                 PROVE  /\ Written(r.view, o) \in [Orders -> Knowledge]
                        /\ Loaded(r.view, o) \in [Orders -> Knowledge]
                        /\ Written(r.view, o)[o] # "old" /\ Loaded(r.view, o)[o] # "unread"
                        /\ \A x \in Orders : /\ Written(r.view, o)[x] = "old" => r.view[x] = "old"
                                             /\ Loaded(r.view, o)[x] = "old" => r.view[x] = "old"
      OBVIOUS
    <3>1. r.view \in [Orders -> Knowledge]
      BY <1>0
    <3> HIDE DEF r
    <3> QED
      BY <3>1, ViewsAre
  <2>2. \A o \in Orders :
          /\ Written(NoRows, o) \in [Orders -> Knowledge] /\ Loaded(NoRows, o) \in [Orders -> Knowledge]
          /\ \A x \in Orders : Written(NoRows, o)[x] # "old" /\ Loaded(NoRows, o)[x] # "old"
    BY <1>0, ViewsAre
  <2> QED
    BY <2>1, <2>2
<1>c. \A o \in Orders : \A next : CommitStep(p, o, next, TRUE) \/ CommitStep(p, o, next, FALSE) => IsCommit
  OBVIOUS
<1>e. HasRead(Ended) /\ \A x \in Orders : Ended.view[x] # "old"
  BY <1>0 DEF HasRead
<1>1. ASSUME Proceed(p, Ended), r.pc \notin {"settle", "read", "publish"}
      PROVE  IsProceed
  BY <1>0, <1>1, <1>e DEF ProceedStep
<1>2. CASE ReadOriginal(p)
  <2> DEFINE next == [NoSession EXCEPT !.pc = "create", !.order = "child",
                                       !.view = Loaded(NoRows, "parent")]
  <2>1. Loaded(NoRows, "parent") \in [Orders -> Knowledge]
        /\ \A x \in Orders : Loaded(NoRows, "parent")[x] # "old"
    BY <1>0, <1>v
  <2>2. next \in SessionType /\ next.pc = "create" /\ next.view = Loaded(NoRows, "parent")
    BY <1>0, <2>1 DEF SessionType
  <2>3. r.pc = "idle" /\ Proceed(p, next)
    BY <1>2 DEF ReadOriginal, Begins
  <2> HIDE DEF next
  <2>4. ProceedStep(p, next)
    BY <2>1, <2>2, <2>3 DEF ProceedStep, HasRead
  <2> QED
    BY <2>4
<1>3. CASE RefuseRequest(p) \/ SubmissionFails(p) \/ StopTracking(p) \/ EndTracking(p)
  BY <1>1, <1>3 DEF RefuseRequest, SubmissionFails, StopTracking, EndTracking
<1>4. ASSUME NEW o \in Orders, CreateOrder(p, o)
      PROVE  IsCommit
  <2> DEFINE next == [r EXCEPT !.pc = "read", !.order = o, !.view = Written(@, o)]
  <2>1. /\ next \in SessionType /\ next.pc = "read" /\ next.order = o
        /\ next.view = Written(r.view, o)
    BY <1>0, <1>v DEF SessionType, Publishing
  <2>2. r.pc \in {"create", "idle"} /\ Commit(p, o, next, TRUE)
    BY <1>4 DEF CreateOrder, Begins
  <2> HIDE DEF next
  <2>3. CommitStep(p, o, next, TRUE)
    BY <1>0, <2>1, <2>2, <1>v DEF CommitStep, HasRead
  <2> QED
    BY <1>c, <2>3
<1>5. ASSUME NEW o \in Orders, Claim(p, o)
      PROVE  IsCommit
  <2> DEFINE next == [NoSession EXCEPT !.pc = "submit", !.order = o, !.view = Written(NoRows, o)]
  <2>1. next \in SessionType /\ next.pc = "submit" /\ next.view = Written(NoRows, o)
    BY <1>0, <1>v DEF SessionType
  <2>2. r.pc = "idle" /\ Commit(p, o, next, FALSE)
    BY <1>5 DEF Claim, Begins
  <2> HIDE DEF next
  <2>3. CommitStep(p, o, next, FALSE)
    BY <1>0, <2>1, <2>2, <1>v DEF CommitStep, HasRead
  <2> QED
    BY <1>c, <2>3
<1>6. CASE VetOriginal(p)
  <2> DEFINE next == [r EXCEPT !.pc = "vetted", !.view = Loaded(@, "parent")]
  <2>1. next \in SessionType /\ next.pc = "vetted" /\ next.view = Loaded(r.view, "parent")
    BY <1>0, <1>v DEF SessionType
  <2>2. r.pc = "submit" /\ Proceed(p, next)
    BY <1>6 DEF VetOriginal
  <2> HIDE DEF next
  <2>3. ProceedStep(p, next)
    BY <1>0, <2>1, <2>2, <1>v DEF ProceedStep, HasRead
  <2> QED
    BY <2>3
<1>7. CASE RecordSubmission(p)
  <2> DEFINE next == [r EXCEPT !.pc = "read", !.view = Written(@, r.order)]
  <2>1. /\ next \in SessionType /\ next.pc = "read" /\ next.order = r.order
        /\ next.view = Written(r.view, r.order)
    BY <1>0, <1>v DEF SessionType, Publishing
  <2>2. r.pc \in {"submit", "vetted"} /\ Commit(p, r.order, next, TRUE)
    BY <1>7 DEF RecordSubmission, BrokerCalled
  <2> HIDE DEF next
  <2>3. CommitStep(p, r.order, next, TRUE)
    BY <1>0, <2>1, <2>2, <1>v DEF CommitStep, HasRead
  <2> QED
    BY <1>0, <1>c, <2>3
<1>8. CASE HandBack(p)
  <2>1. r.pc \in {"submit", "vetted"} /\ Commit(p, r.order, Ended, FALSE)
    BY <1>8 DEF HandBack, BrokerCalled
  <2>2. CommitStep(p, r.order, Ended, FALSE)
    BY <1>0, <1>e, <2>1 DEF CommitStep
  <2> QED
    BY <1>0, <1>c, <2>2
<1>9. ASSUME NEW o \in Orders, Poll(p, o)
      PROVE  IsProceed
  <2> DEFINE next == [pc |-> "poll", order |-> o, view |-> Loaded(NoRows, o), tracking |-> TRUE]
  <2>1. next \in SessionType /\ next.pc = "poll" /\ next.view = Loaded(NoRows, o)
    BY <1>0, <1>v DEF SessionType
  <2>2. r.pc = "idle" /\ Proceed(p, next)
    BY <1>9 DEF Poll, Begins
  <2> HIDE DEF next
  <2>3. ProceedStep(p, next)
    BY <1>0, <2>1, <2>2, <1>v DEF ProceedStep, HasRead
  <2> QED
    BY <2>3
<1>10. CASE RecordTracking(p)
  <2> DEFINE next == [r EXCEPT !.pc = IF r.order = "child" THEN "settle" ELSE "read",
                               !.view = Written(@, r.order)]
  <2>1. /\ next \in SessionType /\ next.pc \in {"settle", "read"} /\ next.order = r.order
        /\ next.view = Written(r.view, r.order)
    BY <1>0, <1>v DEF SessionType, Publishing
  <2>2. r.pc = "poll" /\ Commit(p, r.order, next, TRUE)
    BY <1>10 DEF RecordTracking
  <2> HIDE DEF next
  <2>3. CommitStep(p, r.order, next, TRUE)
    BY <1>0, <2>1, <2>2, <1>v DEF CommitStep, HasRead
  <2> QED
    BY <1>0, <1>c, <2>3
<1>11. CASE SettleParent(p)
  <2>1. PICK view \in {r.view, Loaded(r.view, "parent")} :
          r.pc = "settle" /\ Proceed(p, [r EXCEPT !.pc = "read", !.view = view])
    BY <1>11 DEF SettleParent
  <2> DEFINE next == [r EXCEPT !.pc = "read", !.view = view]
  <2>2. view \in [Orders -> Knowledge] /\ \A x \in Orders : view[x] = "old" => r.view[x] = "old"
    BY <1>0, <2>1, <1>v
  <2>3. next \in SessionType /\ next.pc = "read" /\ next.view = view /\ next.order = r.order
    BY <1>0, <2>2 DEF SessionType, Publishing
  <2>4. Proceed(p, next) /\ r.pc = "settle"
    BY <2>1
  <2> HIDE DEF next
  <2>5. ProceedStep(p, next)
    BY <2>2, <2>3, <2>4 DEF ProceedStep, HasRead
  <2> QED
    BY <2>5
<1>12. CASE InquiryRefused(p)
  <2> DEFINE next == [r EXCEPT !.pc = "read", !.view = NoRows, !.tracking = FALSE]
  <2>1. next \in SessionType /\ next.pc = "read" /\ next.view = NoRows /\ next.order = r.order
    BY <1>0 DEF SessionType, Publishing
  <2>2. r.pc = "poll" /\ (Commit(p, r.order, next, TRUE) \/ Proceed(p, next))
    BY <1>12 DEF InquiryRefused
  <2> HIDE DEF next
  <2>3. CASE Commit(p, r.order, next, TRUE)
    <3>1. CommitStep(p, r.order, next, TRUE)
      BY <1>0, <2>1, <2>2, <2>3 DEF CommitStep, HasRead
    <3> QED
      BY <1>0, <1>c, <3>1
  <2>4. CASE Proceed(p, next)
    <3>1. ProceedStep(p, next)
      BY <1>0, <2>1, <2>2, <2>4 DEF ProceedStep, HasRead
    <3> QED
      BY <3>1
  <2> QED
    BY <2>2, <2>3, <2>4
<1>13. CASE TimeOut(p)
  <2> DEFINE next == [r EXCEPT !.pc = "read", !.tracking = FALSE]
             wrote == [next EXCEPT !.view = Written(@, r.order)]
  <2>1. next \in SessionType /\ next.pc = "read" /\ next.view = r.view /\ next.order = r.order
    BY <1>0 DEF SessionType, Publishing
  <2>2. /\ wrote \in SessionType /\ wrote.pc = "read" /\ wrote.view = Written(r.view, r.order)
        /\ wrote.order = r.order
    BY <1>0, <1>v DEF SessionType, Publishing
  <2>3. r.pc = "tracked" /\ (Commit(p, r.order, wrote, TRUE) \/ Proceed(p, next))
    BY <1>13 DEF TimeOut
  <2> HIDE DEF next, wrote
  <2>4. CASE Commit(p, r.order, wrote, TRUE)
    <3>1. CommitStep(p, r.order, wrote, TRUE)
      BY <1>0, <2>2, <2>3, <2>4, <1>v DEF CommitStep, HasRead
    <3> QED
      BY <1>0, <1>c, <3>1
  <2>5. CASE Proceed(p, next)
    <3>1. ProceedStep(p, next)
      BY <1>0, <2>1, <2>3, <2>5 DEF ProceedStep, HasRead
    <3> QED
      BY <3>1
  <2> QED
    BY <2>3, <2>4, <2>5
<1>14. ASSUME NEW o \in Orders, GenerateOrder(p, o)
       PROVE  IsCommit
  <2>1. r.pc = "idle" /\ Commit(p, o, Ended, FALSE)
    BY <1>14 DEF GenerateOrder, Begins
  <2>2. CommitStep(p, o, Ended, FALSE)
    BY <1>0, <1>e, <2>1 DEF CommitStep
  <2> QED
    BY <1>c, <2>2
<1>15. CASE ReadRow(p)
  <2> DEFINE next == [r EXCEPT !.pc = IF @ = "read" THEN "publish" ELSE "publishParent",
                               !.view = Loaded(@, Subject(p))]
  <2>1. r.pc \in {"read", "readParent"} /\ Proceed(p, next)
    BY <1>15 DEF ReadRow
  <2>2. Subject(p) = (IF r.pc = "read" THEN r.order ELSE "parent") /\ Subject(p) \in Orders
    BY <1>0, <2>1 DEF Subject
  <2>3. /\ next \in SessionType /\ next.view = Loaded(r.view, Subject(p)) /\ next.order = r.order
        /\ next.pc = IF r.pc = "read" THEN "publish" ELSE "publishParent"
    BY <1>0, <2>2, <1>v DEF SessionType, Publishing
  <2> HIDE DEF next
  <2>4. HasRead(next)
    BY <1>0, <2>1, <2>2, <2>3, <1>v DEF HasRead
  <2>5. ProceedStep(p, next)
    BY <1>0, <2>1, <2>2, <2>3, <2>4, <1>v DEF ProceedStep
  <2> QED
    BY <2>5
<1> QED
  BY <1>2, <1>3, <1>4, <1>5, <1>6, <1>7, <1>8, <1>9, <1>10, <1>11, <1>12, <1>13, <1>14, <1>15
  DEF SessionStep

\* What a commit does to every part of the state.
LEMMA CommitEffect ==
  ASSUME BroadcastBasis, NEW p \in Publishers, NEW o \in Orders, NEW next \in SessionType,
         NEW a \in BOOLEAN, Commit(p, o, next, a)
  PROVE  /\ pub' \in [Publishers -> SessionType] /\ pub'[p] = next
         /\ \A q \in Publishers \ {p} :
              /\ pub'[q].pc = pub[q].pc /\ pub'[q].order = pub[q].order
              /\ \A x \in Orders : /\ x # o => pub'[q].view[x] = pub[q].view[x]
                                   /\ pub'[q].view[x] = "unread" <=> pub[q].view[x] = "unread"
         /\ DOMAIN channel' = DOMAIN channel
         /\ channel' \in Seq(Message) /\ Len(channel') = Len(channel)
         /\ \A i \in DOMAIN channel : channel'[i] = AgedMessage(channel[i], o)
         /\ sub' \in SubType
         /\ sub'.msg = AgedMessage(sub.msg, o) /\ sub'.pc = sub.pc /\ sub'.todo = sub.todo
<1>0. /\ pub \in [Publishers -> SessionType] /\ channel \in Seq(Message) /\ Len(channel) \in Nat
      /\ DOMAIN channel = 1..Len(channel) /\ sub \in SubType /\ sub.msg \in Message
      /\ \A i \in DOMAIN channel : channel[i] \in Message
  BY BroadcastTypes DEF BroadcastBasis
<1>1. ASSUME NEW q \in Publishers
      PROVE  LET r == [pub[q] EXCEPT !.view = AgedView(@, o)] IN
             /\ r \in SessionType /\ r.pc = pub[q].pc /\ r.order = pub[q].order
             /\ \A x \in Orders : /\ x # o => r.view[x] = pub[q].view[x]
                                  /\ r.view[x] = "unread" <=> pub[q].view[x] = "unread"
  <2> DEFINE r == [pub[q] EXCEPT !.view = AgedView(@, o)]
  <2>1. pub[q] \in SessionType /\ pub[q].view \in [Orders -> Knowledge]
    BY <1>0 DEF SessionType
  <2>2. /\ AgedView(pub[q].view, o) \in [Orders -> Knowledge]
        /\ \A x \in Orders : /\ x # o => AgedView(pub[q].view, o)[x] = pub[q].view[x]
                             /\ AgedView(pub[q].view, o)[x] = "unread" <=> pub[q].view[x] = "unread"
    <3> DEFINE v == pub[q].view
    <3>1. v \in [Orders -> Knowledge]
      BY <2>1
    <3> HIDE DEF v
    <3>2. /\ AgedView(v, o) \in [Orders -> Knowledge]
          /\ \A x \in Orders : /\ x # o => AgedView(v, o)[x] = v[x]
                               /\ AgedView(v, o)[x] = "unread" <=> v[x] = "unread"
      BY <3>1, ViewsAre
    <3> QED
      BY <3>2 DEF v
  <2>3. /\ r \in SessionType /\ r.pc = pub[q].pc /\ r.order = pub[q].order
        /\ r.view = AgedView(pub[q].view, o)
    BY <2>1, <2>2 DEF SessionType
  <2> HIDE DEF r
  <2>4. \A x \in Orders : /\ x # o => r.view[x] = pub[q].view[x]
                          /\ r.view[x] = "unread" <=> pub[q].view[x] = "unread"
    BY <2>2, <2>3
  <2>5. /\ r \in SessionType /\ r.pc = pub[q].pc /\ r.order = pub[q].order
        /\ \A x \in Orders : /\ x # o => r.view[x] = pub[q].view[x]
                             /\ r.view[x] = "unread" <=> pub[q].view[x] = "unread"
    BY <2>3, <2>4
  <2> QED
    BY <2>5 DEF r
<1> DEFINE aged(q) == [pub[q] EXCEPT !.view = AgedView(@, o)]
<1>2. pub' = [q \in Publishers |-> IF q = p THEN next ELSE aged(q)]
  BY DEF Commit
<1>3. \A q \in Publishers :
        /\ aged(q) \in SessionType /\ aged(q).pc = pub[q].pc /\ aged(q).order = pub[q].order
        /\ \A x \in Orders : /\ x # o => aged(q).view[x] = pub[q].view[x]
                             /\ aged(q).view[x] = "unread" <=> pub[q].view[x] = "unread"
  BY <1>1
<1> HIDE DEF aged
<1>4. pub' \in [Publishers -> SessionType] /\ pub'[p] = next
      /\ \A q \in Publishers \ {p} : pub'[q] = aged(q)
  BY <1>2, <1>3
<1>5. \A i \in DOMAIN channel : AgedMessage(channel[i], o) \in Message
  BY <1>0, AgedMessageIs
<1>6. channel' = [i \in DOMAIN channel |-> AgedMessage(channel[i], o)]
  BY DEF Commit
<1>7. channel' \in [1..Len(channel) -> Message]
  BY <1>0, <1>5, <1>6
<1>8. /\ channel' \in Seq(Message) /\ Len(channel') = Len(channel) /\ DOMAIN channel' = DOMAIN channel
      /\ \A i \in DOMAIN channel : channel'[i] = AgedMessage(channel[i], o)
  BY <1>0, <1>6, <1>7, FunctionIsSeq
<1>9. AgedMessage(sub.msg, o) \in Message
  BY <1>0, AgedMessageIs
<1>10. sub' = [sub EXCEPT !.msg = AgedMessage(sub.msg, o)]
  BY DEF Commit
<1>11. /\ sub' \in SubType
       /\ sub'.msg = AgedMessage(sub.msg, o) /\ sub'.pc = sub.pc /\ sub'.todo = sub.todo
  BY <1>0, <1>9, <1>10 DEF SubType
<1> QED
  BY <1>3, <1>4, <1>8, <1>11

\* A session that publishes, or fails to.
LEMMA PublishEffect ==
  ASSUME BroadcastBasis, NEW p \in Publishers,
         Publish(p) \/ PublishFails(p) \/ ParentUpdateRaises(p)
  PROVE  /\ pub' \in [Publishers -> SessionType]
         /\ \A q \in Publishers \ {p} : pub'[q] = pub[q]
         /\ pub'[p].pc \in {"readParent", "tracked", "ended"}
         /\ \A x \in Orders : pub'[p].view[x] = "old" => pub[p].view[x] = "old"
<1> DEFINE r == pub[p]
<1>0. /\ pub \in [Publishers -> SessionType] /\ r \in SessionType
      /\ Ended \in SessionType /\ Ended.pc = "ended" /\ \A x \in Orders : Ended.view[x] # "old"
  BY BroadcastTypes
  DEF BroadcastBasis, SessionType, Knowledge, NoRows, NoSession, Ended, Orders, Publishing
<1>1. \A n \in {"readParent", "tracked"} :
        LET next == [r EXCEPT !.pc = n] IN
        next \in SessionType /\ next.pc = n /\ next.view = r.view
  BY <1>0 DEF SessionType, Publishing
<1>2. pub' = [pub EXCEPT ![p] = Ended] \/ pub' = [pub EXCEPT ![p] = [r EXCEPT !.pc = "readParent"]]
      \/ pub' = [pub EXCEPT ![p] = [r EXCEPT !.pc = "tracked"]]
  BY DEF Publish, PublishFails, ParentUpdateRaises, Return
<1> DEFINE Good(next) ==
             /\ next \in SessionType /\ next.pc \in {"readParent", "tracked", "ended"}
             /\ \A x \in Orders : next.view[x] = "old" => r.view[x] = "old"
<1>3. Good(Ended) /\ Good([r EXCEPT !.pc = "readParent"]) /\ Good([r EXCEPT !.pc = "tracked"])
  <2>1. Good(Ended)
    BY <1>0
  <2>2. ASSUME NEW n \in {"readParent", "tracked"} PROVE Good([r EXCEPT !.pc = n])
    <3> DEFINE next == [r EXCEPT !.pc = n]
    <3>1. next \in SessionType /\ next.pc = n /\ next.view = r.view
      BY <1>1, <2>2
    <3> HIDE DEF next
    <3>2. Good(next)
      BY <2>2, <3>1
    <3> QED
      BY <3>2 DEF next
  <2> HIDE DEF Good
  <2> QED
    BY <2>1, <2>2
<1> HIDE DEF Good
<1>4. \E next : pub' = [pub EXCEPT ![p] = next] /\ Good(next)
  BY <1>2, <1>3, Zenon
<1>5. PICK next : pub' = [pub EXCEPT ![p] = next] /\ Good(next)
  BY <1>4
<1>6. /\ next \in SessionType /\ next.pc \in {"readParent", "tracked", "ended"}
      /\ \A x \in Orders : next.view[x] = "old" => r.view[x] = "old"
  BY <1>5 DEF Good
<1> QED
  BY <1>0, <1>5, <1>6

\* Every step keeps the basis.
LEMMA BasisKept ==
  ASSUME BroadcastBasis, [BroadcastNext]_bcVars
  PROVE  BroadcastBasis'
<1>0. /\ BroadcastTypeOK /\ pub \in [Publishers -> SessionType]
      /\ channel \in Seq(Message) /\ Len(channel) \in Nat /\ Len(channel) <= MaxChannel
      /\ MaxChannel \in Nat
      /\ outdated \in [Clients -> SUBSET Orders] /\ client \in [Clients -> {"away", "open", "gone"}]
      /\ sub \in SubType /\ Listening \in SubType /\ [Listening EXCEPT !.pc = "down"] \in SubType
      /\ conns \subseteq Clients /\ unheard \subseteq Orders
      /\ \A p \in Publishers : Owed(p) \subseteq Orders
  <2>1. /\ BroadcastTypeOK /\ pub \in [Publishers -> SessionType]
        /\ channel \in Seq(Message) /\ Len(channel) \in Nat
        /\ outdated \in [Clients -> SUBSET Orders] /\ client \in [Clients -> {"away", "open", "gone"}]
        /\ sub \in SubType /\ conns \subseteq Clients /\ unheard \subseteq Orders
    BY BroadcastTypes DEF BroadcastBasis
  <2>2. Len(channel) <= MaxChannel /\ MaxChannel \in Nat
    BY BroadcastAssumption DEF BroadcastBasis, BroadcastTypeOK
  <2>3. Listening \in SubType /\ [Listening EXCEPT !.pc = "down"] \in SubType
    BY DEF Listening, SubType, Message, Orders
  <2>4. \A p \in Publishers : Owed(p) \subseteq Orders
    BY <2>1 DEF Owed, SessionType
  <2> QED
    BY <2>1, <2>2, <2>3, <2>4
<1>s. ASSUME /\ pub' \in [Publishers -> SessionType] /\ \A q \in Publishers : HasRead(pub'[q])
             /\ channel' \in Seq(Message) /\ Len(channel') <= MaxChannel
             /\ sub' \in SubType /\ conns' \subseteq Clients
             /\ client' \in [Clients -> {"away", "open", "gone"}]
             /\ outdated' \in [Clients -> SUBSET Orders] /\ unheard' \subseteq Orders
             /\ \A c \in Clients : client'[c] # "open" => outdated'[c] = {}
      PROVE  BroadcastBasis'
  <2>1. BroadcastTypeOK'
    BY <1>s DEF BroadcastTypeOK, SessionType, SubType, Knowledge
  <2>2. \A q \in Publishers : HasRead(pub[q])'
    BY <1>s DEF HasRead
  <2> QED
    BY <1>s, <2>1, <2>2 DEF BroadcastBasis
<1>1. ASSUME NEW p \in Publishers, NEW o \in Orders, NEW next, NEW a \in BOOLEAN,
             CommitStep(p, o, next, a)
      PROVE  BroadcastBasis'
  <2>0. next \in SessionType /\ HasRead(next) /\ Commit(p, o, next, a)
    BY <1>1 DEF CommitStep
  <2>1. /\ pub' \in [Publishers -> SessionType] /\ pub'[p] = next
        /\ \A q \in Publishers \ {p} :
              /\ pub'[q].pc = pub[q].pc /\ pub'[q].order = pub[q].order
              /\ \A x \in Orders : pub'[q].view[x] = "unread" <=> pub[q].view[x] = "unread"
        /\ channel' \in Seq(Message) /\ Len(channel') = Len(channel)
        /\ sub' \in SubType
    BY <2>0, CommitEffect
  <2>2. \A q \in Publishers : HasRead(pub'[q])
    <3> SUFFICES ASSUME NEW q \in Publishers PROVE HasRead(pub'[q])
      OBVIOUS
    <3>1. CASE q = p
      BY <2>0, <2>1, <3>1
    <3>2. CASE q # p
      <4>1. pub[q].order \in Orders /\ "parent" \in Orders /\ HasRead(pub[q])
        BY <1>0 DEF SessionType, Orders, BroadcastBasis
      <4> QED
        BY <2>1, <3>2, <4>1 DEF HasRead
    <3> QED
      BY <3>1, <3>2
  <2>3. /\ outdated' \in [Clients -> SUBSET Orders] /\ conns' = conns /\ client' = client
        /\ \A c \in Clients : client'[c] # "open" => outdated'[c] = {}
    BY <1>0, <2>0 DEF Commit
  <2>4. unheard' \subseteq Orders
    BY <1>0, <2>0 DEF Commit
  <2> QED
    BY <1>0, <1>s, <2>1, <2>2, <2>3, <2>4
<1>2. ASSUME NEW p \in Publishers, NEW next, ProceedStep(p, next)
      PROVE  BroadcastBasis'
  <2>1. /\ pub' \in [Publishers -> SessionType] /\ \A q \in Publishers : HasRead(pub'[q])
    <3>1. next \in SessionType /\ HasRead(next) /\ pub' = [pub EXCEPT ![p] = next]
      BY <1>2 DEF ProceedStep, Proceed
    <3>2. \A q \in Publishers : pub'[q] = IF q = p THEN next ELSE pub[q]
      BY <1>0, <3>1
    <3>3. \A q \in Publishers : HasRead(pub[q])
      BY DEF BroadcastBasis
    <3>4. \A q \in Publishers : HasRead(pub'[q])
      <4> SUFFICES ASSUME NEW q \in Publishers PROVE HasRead(pub'[q])
        OBVIOUS
      <4>1. pub'[q] = next \/ pub'[q] = pub[q]
        BY <3>2
      <4> QED
        BY <3>1, <3>3, <4>1
    <3> QED
      BY <1>0, <3>1, <3>4
  <2>2. UNCHANGED <<channel, sub, conns, client, outdated, unheard>>
    BY <1>2 DEF ProceedStep, Proceed, restVars, subVars
  <2> QED
    BY <1>0, <1>s, <2>1, <2>2 DEF BroadcastBasis
<1>3. ASSUME NEW p \in Publishers, Publish(p) \/ PublishFails(p) \/ ParentUpdateRaises(p)
      PROVE  BroadcastBasis'
  <2>1. pub' \in [Publishers -> SessionType] /\ \A q \in Publishers : HasRead(pub'[q])
    <3>1. /\ pub' \in [Publishers -> SessionType] /\ \A q \in Publishers \ {p} : pub'[q] = pub[q]
          /\ pub'[p].pc \in {"readParent", "tracked", "ended"}
      BY <1>3, PublishEffect
    <3>2. HasRead(pub'[p])
      BY <3>1 DEF HasRead
    <3>3. \A q \in Publishers \ {p} : HasRead(pub'[q])
      BY <3>1 DEF BroadcastBasis
    <3> QED
      BY <3>1, <3>2, <3>3
  <2>2. channel' \in Seq(Message) /\ Len(channel') <= MaxChannel
    <3>1. CASE channel' = channel
      BY <1>0, <3>1
    <3>2. CASE Publish(p)
      <4> DEFINE m == [order |-> Subject(p), current |-> pub[p].view[Subject(p)] = "current"]
      <4>1. Subject(p) \in Orders
        BY <1>0 DEF Subject, SessionType, Orders
      <4>2. m \in Message
        BY <4>1 DEF Message
      <4>3. channel' = channel \/ (channel' = Append(channel, m) /\ Len(channel) < MaxChannel)
        BY <3>2 DEF Publish
      <4> HIDE DEF m
      <4>4. CASE channel' = Append(channel, m) /\ Len(channel) < MaxChannel
        <5>1. channel' \in Seq(Message) /\ Len(channel') = Len(channel) + 1
          BY <1>0, <4>2, <4>4
        <5> QED
          BY <1>0, <4>4, <5>1
      <4> QED
        BY <3>1, <4>3, <4>4
    <3> QED
      BY <1>3, <3>1, <3>2 DEF PublishFails, ParentUpdateRaises, restVars
  <2>3. UNCHANGED <<sub, conns, client, outdated>> /\ unheard' \subseteq Orders
    BY <1>0, <1>3 DEF Publish, PublishFails, ParentUpdateRaises, restVars, subVars
  <2> QED
    BY <1>0, <1>s, <2>1, <2>2, <2>3 DEF BroadcastBasis
<1>4. CASE Receive
  <2>1. /\ Head(channel) \in Message /\ Tail(channel) \in Seq(Message)
        /\ Len(Tail(channel)) <= MaxChannel
    BY <1>0, <1>4 DEF Receive
  <2>2. sub' \in SubType
    BY <1>0, <1>4, <2>1 DEF Receive, SubType
  <2> QED
    BY <1>0, <1>4, <1>s, <2>1, <2>2 DEF Receive, BroadcastBasis
<1>5. ASSUME NEW c \in Clients, SendTo(c)
      PROVE  BroadcastBasis'
  <2>1. sub' \in SubType
    <3>1. \A T, D \in SUBSET Clients : /\ [sub EXCEPT !.todo = T] \in SubType
                                       /\ [sub EXCEPT !.todo = T, !.dead = D] \in SubType
      BY <1>0 DEF SubType
    <3>2. sub.todo \ {c} \in SUBSET Clients /\ sub.dead \cup {c} \in SUBSET Clients
      BY <1>0 DEF SubType
    <3>3. \/ sub' = [sub EXCEPT !.todo = sub.todo \ {c}]
          \/ sub' = [sub EXCEPT !.todo = sub.todo \ {c}, !.dead = sub.dead \cup {c}]
      BY <1>5 DEF SendTo, SendOk, SendFails, SendVanishes, SkipDead
    <3> QED
      BY <3>1, <3>2, <3>3
  <2>2. /\ outdated' \in [Clients -> SUBSET Orders]
        /\ \A x \in Clients : client'[x] # "open" => outdated'[x] = {}
    <3>1. sub.msg.order \in Orders
      BY <1>0, BroadcastTypes
    <3>2. CASE SendOk(c)
      BY <1>0, <3>1, <3>2 DEF SendOk, BroadcastBasis
    <3> QED
      BY <1>0, <1>5, <3>2 DEF SendTo, SendFails, SendVanishes, BroadcastBasis
  <2>3. UNCHANGED <<pub, channel, conns, client, unheard>>
    BY <1>5 DEF SendTo, SendOk, SendFails, SendVanishes
  <2> QED
    BY <1>0, <1>s, <2>1, <2>2, <2>3 DEF BroadcastBasis
<1>6. CASE BroadcastEnds
  BY <1>0, <1>6, <1>s DEF BroadcastEnds, BroadcastBasis
<1>7. CASE SubscriberFails
  <2>1. channel' \in Seq(Message) /\ Len(channel') <= MaxChannel
    BY <1>0, <1>7 DEF SubscriberFails
  <2>2. unheard' \subseteq Orders
    <3>1. \A i \in DOMAIN channel : channel[i].order \in Orders
      BY <1>0, BroadcastTypes
    <3> QED
      BY <1>0, <1>7, <3>1 DEF SubscriberFails
  <2>3. sub' \in SubType /\ UNCHANGED <<pub, conns, outdated, client>>
    BY <1>0, <1>7 DEF SubscriberFails
  <2> QED
    BY <1>0, <1>s, <2>1, <2>2, <2>3 DEF BroadcastBasis
<1>8. ASSUME NEW c \in Clients, Join(c) \/ ClientGone(c) \/ EndpointEnds(c)
      PROVE  BroadcastBasis'
  <2>1. UNCHANGED <<pub, channel, sub, unheard>> /\ conns' \subseteq Clients
    BY <1>0, <1>8 DEF Join, ClientGone, EndpointEnds, Discard, subVars
  <2>2. /\ client' \in [Clients -> {"away", "open", "gone"}] /\ outdated' \in [Clients -> SUBSET Orders]
        /\ \A x \in Clients : client'[x] # "open" => outdated'[x] = {}
    BY <1>0, <1>8 DEF Join, ClientGone, EndpointEnds, BroadcastBasis
  <2> QED
    BY <1>0, <1>s, <2>1, <2>2 DEF BroadcastBasis
<1>9. CASE UNCHANGED bcVars
  BY <1>9 DEF bcVars, BroadcastBasis, BroadcastTypeOK
<1>10. ASSUME NEW p \in Publishers, SessionStep(p) \/ PublisherStep(p) \/ PublishFails(p)
       PROVE  BroadcastBasis'
  <2>1. CASE Publish(p) \/ PublishFails(p)
    BY <1>3, <2>1
  <2>2. CASE SessionStep(p) \/ ReadRow(p)
    BY <1>1, <1>2, <1>3, <2>2, SessionSteps
  <2> QED
    BY <1>10, <2>1, <2>2 DEF PublisherStep
<1> QED
  BY <1>4, <1>5, <1>6, <1>7, <1>8, <1>9, <1>10 DEF BroadcastNext, SubscriberStep

\* Of an order the browsers will hear of, an outdated message is followed by a
\* current one, and a browser that shows an outdated row will get the current one.
LEMMA DeliveryKept ==
  ASSUME BroadcastBasis, DeliveryInv, [BroadcastNext]_bcVars, NEW o \in Orders \ unheard'
  PROVE  Delivery(o)'
<1>t. /\ pub \in [Publishers -> SessionType] /\ o \in Orders /\ "parent" \in Orders
      /\ channel \in Seq(Message) /\ Len(channel) \in Nat /\ DOMAIN channel = 1..Len(channel)
      /\ \A i \in DOMAIN channel : /\ channel[i] \in Message /\ channel[i].order \in Orders
                                   /\ channel[i].current => channel[i] = Current(channel[i].order)
      /\ sub \in SubType /\ sub.msg \in Message /\ sub.msg.order \in Orders
      /\ sub.msg.current => sub.msg = Current(sub.msg.order)
      /\ conns \subseteq Clients /\ client \in [Clients -> {"away", "open", "gone"}]
      /\ outdated \in [Clients -> SUBSET Orders]
      /\ Current(o).order = o /\ Current(o).current
  BY BroadcastTypes DEF BroadcastBasis, Current, Orders
<1>d. o \notin unheard => Delivery(o)
  BY DEF DeliveryInv
<1>1. ASSUME NEW p \in Publishers, NEW k \in Orders, NEW next, NEW a \in BOOLEAN,
             CommitStep(p, k, next, a)
      PROVE  Delivery(o)'
  <2>0. /\ next \in SessionType /\ Commit(p, k, next, a)
        /\ pub[p].pc \notin {"settle", "read", "publish"}
        /\ \A x \in Orders \ {k} : next.view[x] = "old" => pub[p].view[x] = "old"
        /\ a => next.pc \in {"settle", "read"} /\ next.order = k /\ next.view[k] # "old"
    BY <1>1 DEF CommitStep
  <2>1. /\ pub'[p] = next
        /\ \A q \in Publishers \ {p} :
              /\ pub'[q].pc = pub[q].pc /\ pub'[q].order = pub[q].order
              /\ \A x \in Orders : /\ x # k => pub'[q].view[x] = pub[q].view[x]
                                   /\ pub'[q].view[x] = "unread" <=> pub[q].view[x] = "unread"
        /\ DOMAIN channel' = DOMAIN channel
        /\ \A i \in DOMAIN channel : channel'[i] = AgedMessage(channel[i], k)
        /\ sub'.msg = AgedMessage(sub.msg, k) /\ sub'.pc = sub.pc /\ sub'.todo = sub.todo
    BY <2>0, CommitEffect
  <2>2. CASE o = k
    <3>1. a /\ ~ HeldElsewhere(p, k)
      BY <2>0, <2>2 DEF Commit
    <3>2. o \in Owed(p)'
      BY <2>0, <2>1, <2>2, <3>1 DEF Owed
    <3>3. Owes(o)'
      BY <3>2 DEF Owes
    <3>4. \A q \in Publishers : pub'[q].view[o] # "old"
      BY <2>0, <2>1, <2>2, <3>1 DEF HeldElsewhere
    <3> QED
      BY <3>3, <3>4 DEF Delivery
  <2>3. CASE o # k
    <3>1. Delivery(o)
      BY <1>d, <2>0, <2>3 DEF Commit
    <3>2. \A q \in Publishers : pub'[q].view[o] # "old"
      BY <1>t, <2>0, <2>1, <2>3, <3>1 DEF Delivery
    <3>3. Owes(o) => Owes(o)'
      <4>1. \A q \in Publishers \ {p} : Owed(q)' = Owed(q)
        BY <2>1 DEF Owed
      <4>2. Owed(p) = {}
        BY <2>0 DEF Owed
      <4> QED
        BY <4>1, <4>2 DEF Owes
    <3>4. \A m \in Message : /\ AgedMessage(m, k).order = m.order
                             /\ m.order = o => AgedMessage(m, k) = m
      BY <2>3, AgedMessageIs
    <3>5. ASSUME NEW i, WaitsBehind(o, i) PROVE WaitsBehind(o, i)'
      <4>1. PICK j \in DOMAIN channel : j > i /\ channel[j] = Current(o)
        BY <3>5 DEF WaitsBehind
      <4>2. channel'[j] = channel[j]
        BY <1>t, <2>1, <3>4, <4>1
      <4> QED
        BY <2>1, <4>1, <4>2 DEF WaitsBehind, Current
    <3>6. ASSUME NEW i \in DOMAIN channel', channel'[i].order = o
          PROVE  channel'[i].current \/ Owes(o)' \/ WaitsBehind(o, i)'
      <4>1. i \in DOMAIN channel /\ channel'[i] = channel[i] /\ channel[i].order = o
        BY <1>t, <2>1, <3>4, <3>6
      <4> QED
        BY <3>1, <3>3, <3>5, <4>1 DEF Delivery
    <3>7. ASSUME sub'.pc = "send", sub'.msg.order = o
          PROVE  sub'.msg.current \/ Owes(o)' \/ WaitsBehind(o, 0)'
      <4>1. sub'.msg = sub.msg /\ sub.msg.order = o /\ sub.pc = "send"
        BY <1>t, <2>1, <3>4, <3>7
      <4> QED
        BY <3>1, <3>3, <3>5, <4>1 DEF Delivery
    <3>8. ASSUME NEW c \in conns', client'[c] = "open", o \in outdated'[c]
          PROVE  \/ Owes(o)' \/ WaitsBehind(o, 0)'
                 \/ sub'.pc = "send" /\ c \in sub'.todo /\ sub'.msg = Current(o)
      <4>1. c \in conns /\ client[c] = "open" /\ o \in outdated[c]
        BY <1>t, <2>0, <2>3, <3>8 DEF Commit
      <4>2. sub.msg = Current(o) => sub'.msg = Current(o)
        BY <1>t, <2>1, <3>4
      <4> QED
        BY <2>1, <3>1, <3>3, <3>5, <4>1, <4>2 DEF Delivery
    <3> QED
      BY <3>2, <3>6, <3>7, <3>8 DEF Delivery, Current
  <2> QED
    BY <2>2, <2>3
<1>2. ASSUME NEW p \in Publishers, NEW next, ProceedStep(p, next)
      PROVE  Delivery(o)'
  <2>1. /\ UNCHANGED <<channel, sub, conns, client, outdated, unheard>> /\ pub'[p] = next
        /\ \A q \in Publishers \ {p} : pub'[q] = pub[q]
    BY <1>t, <1>2 DEF ProceedStep, Proceed, restVars, subVars
  <2>2. Delivery(o)
    BY <1>d, <2>1
  <2>3. \A q \in Publishers : pub'[q].view[o] # "old"
    BY <1>2, <2>1, <2>2 DEF ProceedStep, Delivery
  <2>4. Owes(o) => Owes(o)'
    BY <1>2, <2>1 DEF ProceedStep, Owes, Owed
  <2>5. \A i : WaitsBehind(o, i)' <=> WaitsBehind(o, i)
    BY <2>1 DEF WaitsBehind, Current
  <2> QED
    BY <2>1, <2>2, <2>3, <2>4, <2>5 DEF Delivery, Current
<1>3. ASSUME NEW p \in Publishers, Publish(p) \/ PublishFails(p) \/ ParentUpdateRaises(p)
      PROVE  Delivery(o)'
  <2>1. /\ \A q \in Publishers \ {p} : pub'[q] = pub[q]
        /\ pub'[p].view[o] = "old" => pub[p].view[o] = "old"
    BY <1>3, PublishEffect
  <2>2. UNCHANGED <<sub, conns, client, outdated>> /\ unheard \subseteq unheard'
    BY <1>3 DEF Publish, PublishFails, ParentUpdateRaises, restVars, subVars
  <2>3. Delivery(o)
    BY <1>d, <2>2
  <2>4. \A q \in Publishers : pub'[q].view[o] # "old"
    BY <2>1, <2>3 DEF Delivery
  <2>5. Owes(o) => Owes(o)' \/ o \in Owed(p)
    <3>1. \A q \in Publishers \ {p} : Owed(q)' = Owed(q)
      BY <2>1 DEF Owed
    <3> QED
      BY <3>1 DEF Owes
  <2>6. CASE channel' = channel
    <3>1. o \notin Owed(p)
      <4>1. CASE PublishFails(p) \/ ParentUpdateRaises(p)
        BY <4>1 DEF PublishFails, ParentUpdateRaises
      <4>2. CASE Publish(p)
        <5> DEFINE m == [order |-> Subject(p), current |-> pub[p].view[Subject(p)] = "current"]
        <5>1. sub.pc = "down"
          <6>1. Subject(p) \in Orders
            BY <1>t DEF Subject, SessionType
          <6>2. m \in Message
            BY <6>1 DEF Message
          <6>3. sub.pc # "down" => channel' = Append(channel, m)
            BY <4>2 DEF Publish
          <6> HIDE DEF m
          <6>4. Len(Append(channel, m)) = Len(channel) + 1
            BY <1>t, <6>2
          <6>5. sub.pc # "down" => Append(channel, m) = channel
            BY <2>6, <6>3
          <6>6. Len(channel) \in Nat
            BY <1>t
          <6>7. Len(channel) + 1 # Len(channel)
            BY <6>6
          <6>8. sub.pc # "down" => Len(Append(channel, m)) = Len(channel)
            BY <6>5, Zenon
          <6> QED
            BY <6>4, <6>7, <6>8, Zenon
        <5> QED
          BY <4>2, <5>1 DEF Publish
      <4> QED
        BY <1>3, <4>1, <4>2
    <3>2. \A i : WaitsBehind(o, i)' <=> WaitsBehind(o, i)
      BY <2>6 DEF WaitsBehind, Current
    <3> QED
      BY <2>2, <2>3, <2>4, <2>5, <2>6, <3>1, <3>2 DEF Delivery, Current
  <2>7. CASE channel' # channel
    <3> DEFINE m == [order |-> Subject(p), current |-> pub[p].view[Subject(p)] = "current"]
               n == Len(channel)
    <3>1. pub[p].pc \in {"publish", "publishParent"} /\ channel' = Append(channel, m)
      BY <1>3, <2>7 DEF Publish, PublishFails, ParentUpdateRaises, restVars
    <3>2. /\ pub[p] \in SessionType /\ pub[p].view[Subject(p)] # "unread" /\ Subject(p) \in Orders
          /\ pub[p].view[Subject(p)] \in Knowledge
      BY <1>t, <3>1 DEF BroadcastBasis, HasRead, Subject, SessionType
    <3>3. Subject(p) = o => m = Current(o)
      BY <2>3, <3>2 DEF Delivery, Current, Knowledge
    <3>4. o \in Owed(p) => Subject(p) = o
      BY <3>1 DEF Owed, Subject
    <3>5. m \in Message /\ m.order = Subject(p)
      BY <3>2 DEF Message
    <3> HIDE DEF m
    <3>6. /\ DOMAIN channel' = 1..(n + 1) /\ channel'[n + 1] = m
          /\ \A i \in DOMAIN channel : channel'[i] = channel[i]
      BY <1>t, <3>1, <3>5
    <3>7. ASSUME NEW i \in 0..n, Subject(p) = o PROVE WaitsBehind(o, i)'
      <4>1. n + 1 \in DOMAIN channel' /\ n + 1 > i
        BY <1>t, <3>6
      <4> QED
        BY <3>3, <3>6, <3>7, <4>1 DEF WaitsBehind, Current
    <3>8. ASSUME NEW i, WaitsBehind(o, i) PROVE WaitsBehind(o, i)'
      <4>1. DOMAIN channel \subseteq DOMAIN channel'
        BY <1>t, <3>6
      <4> QED
        BY <3>6, <3>8, <4>1 DEF WaitsBehind, Current
    <3>9. ASSUME NEW i \in 0..n, Owes(o) \/ WaitsBehind(o, i)
          PROVE  Owes(o)' \/ WaitsBehind(o, i)'
      BY <2>5, <3>4, <3>7, <3>8, <3>9
    <3>10. ASSUME NEW i \in DOMAIN channel', channel'[i].order = o
           PROVE  channel'[i].current \/ Owes(o)' \/ WaitsBehind(o, i)'
      <4>1. CASE i = n + 1
        BY <1>t, <3>3, <3>5, <3>6, <3>10, <4>1
      <4>2. CASE i # n + 1
        <5>1. i \in DOMAIN channel /\ i \in 0..n /\ channel'[i] = channel[i]
          BY <1>t, <3>6, <3>10, <4>2
        <5> QED
          BY <2>3, <3>9, <3>10, <5>1 DEF Delivery
      <4> QED
        BY <4>1, <4>2
    <3>11. 0 \in 0..n
      BY <1>t
    <3>12. ASSUME sub'.pc = "send", sub'.msg.order = o
           PROVE  sub'.msg.current \/ Owes(o)' \/ WaitsBehind(o, 0)'
      BY <2>2, <2>3, <3>9, <3>11, <3>12 DEF Delivery
    <3>13. ASSUME NEW c \in conns', client'[c] = "open", o \in outdated'[c]
           PROVE  \/ Owes(o)' \/ WaitsBehind(o, 0)'
                  \/ sub'.pc = "send" /\ c \in sub'.todo /\ sub'.msg = Current(o)
      BY <2>2, <2>3, <3>9, <3>11, <3>13 DEF Delivery
    <3> QED
      BY <2>4, <3>10, <3>12, <3>13 DEF Delivery, Current
  <2> QED
    BY <2>6, <2>7
<1>4. CASE Receive
  <2>1. /\ channel # <<>> /\ sub.pc = "listen" /\ sub'.pc = "send" /\ sub'.msg = channel[1]
        /\ sub'.todo = conns /\ channel' = Tail(channel)
        /\ UNCHANGED <<pub, conns, outdated, client, unheard>>
    BY <1>t, <1>4 DEF Receive
  <2>2. /\ 1 \in DOMAIN channel /\ DOMAIN channel' = 1..(Len(channel) - 1)
        /\ \A i \in DOMAIN channel' : i + 1 \in DOMAIN channel /\ channel'[i] = channel[i + 1]
    BY <1>t, <2>1
  <2>3. Delivery(o) /\ (Owes(o)' <=> Owes(o))
    BY <1>d, <2>1 DEF Owes, Owed
  <2>4. ASSUME NEW i \in Nat, WaitsBehind(o, i + 1) PROVE WaitsBehind(o, i)'
    <3>1. PICK j \in DOMAIN channel : j > i + 1 /\ channel[j] = Current(o)
      BY <2>4 DEF WaitsBehind
    <3>2. j - 1 \in DOMAIN channel' /\ j - 1 > i /\ channel'[j - 1] = Current(o)
      BY <1>t, <2>2, <3>1
    <3> QED
      BY <3>2 DEF WaitsBehind, Current
  <2>5. ASSUME NEW i \in DOMAIN channel', channel'[i].order = o
        PROVE  channel'[i].current \/ Owes(o)' \/ WaitsBehind(o, i)'
    <3>1. channel'[i] = channel[i + 1] /\ i + 1 \in DOMAIN channel /\ i \in Nat
      BY <1>t, <2>2, <2>5
    <3>2. channel[i + 1].current \/ Owes(o) \/ WaitsBehind(o, i + 1)
      BY <2>3, <2>5, <3>1 DEF Delivery
    <3> QED
      BY <2>3, <2>4, <3>1, <3>2
  <2>6. ASSUME sub'.msg.order = o
        PROVE  sub'.msg.current \/ Owes(o)' \/ WaitsBehind(o, 0)'
    <3>1. channel[1].current \/ Owes(o) \/ WaitsBehind(o, 1)
      BY <2>1, <2>2, <2>3, <2>6 DEF Delivery
    <3> QED
      BY <2>1, <2>3, <2>4, <3>1
  <2>7. ASSUME NEW c \in conns', client'[c] = "open", o \in outdated'[c]
        PROVE  \/ Owes(o)' \/ WaitsBehind(o, 0)'
               \/ sub'.pc = "send" /\ c \in sub'.todo /\ sub'.msg = Current(o)
    <3>1. Owes(o) \/ WaitsBehind(o, 0)
      BY <2>1, <2>3, <2>7 DEF Delivery
    <3>2. CASE WaitsBehind(o, 0)
      <4>1. PICK j \in DOMAIN channel : channel[j] = Current(o)
        BY <3>2 DEF WaitsBehind
      <4>2. CASE j = 1
        BY <2>1, <2>7, <4>1, <4>2
      <4>3. CASE j # 1
        <5>1. WaitsBehind(o, 0 + 1)
          BY <1>t, <4>1, <4>3 DEF WaitsBehind
        <5> QED
          BY <2>4, <5>1
      <4> QED
        BY <4>2, <4>3
    <3> QED
      BY <2>3, <3>1, <3>2
  <2>8. \A q \in Publishers : pub'[q].view[o] # "old"
    BY <2>1, <2>3 DEF Delivery
  <2> QED
    BY <2>5, <2>6, <2>7, <2>8 DEF Delivery, Current
<1>5. ASSUME NEW d \in Clients, SendTo(d)
      PROVE  Delivery(o)'
  <2>1. /\ sub.pc = "send" /\ sub'.pc = "send" /\ sub'.msg = sub.msg /\ sub'.todo = sub.todo \ {d}
        /\ UNCHANGED <<pub, channel, conns, client, unheard>>
    BY <1>t, <1>5 DEF SendTo, SendOk, SendFails, SendVanishes, SkipDead, SubType
  <2>2. /\ Delivery(o) /\ (Owes(o)' <=> Owes(o))
        /\ \A i : WaitsBehind(o, i)' <=> WaitsBehind(o, i)
    BY <1>d, <2>1 DEF Owes, Owed, WaitsBehind, Current
  <2>3. /\ \A c \in Clients \ {d} : outdated'[c] = outdated[c]
        /\ client[d] = "open" =>
             outdated'[d] = IF sub.msg.current THEN outdated[d] \ {sub.msg.order}
                            ELSE outdated[d] \cup {sub.msg.order}
    BY <1>t, <1>5 DEF SendTo, SendOk, SendFails, SendVanishes
  <2>4. ASSUME NEW c \in conns, client[c] = "open", o \in outdated'[c]
        PROVE  \/ Owes(o) \/ WaitsBehind(o, 0)
               \/ sub'.pc = "send" /\ c \in sub'.todo /\ sub'.msg = Current(o)
    <3>1. c \in Clients
      BY <1>t
    <3>2. o \in outdated[c] =>
             \/ Owes(o) \/ WaitsBehind(o, 0)
             \/ sub.pc = "send" /\ c \in sub.todo /\ sub.msg = Current(o)
      BY <2>2, <2>4 DEF Delivery
    <3>3. CASE c # d
      BY <2>1, <2>3, <2>4, <3>1, <3>2, <3>3
    <3>4. CASE c = d
      <4>1. o = sub.msg.order => ~ sub.msg.current
        BY <2>3, <2>4, <3>4
      <4>2. o # sub.msg.order => o \in outdated[c]
        BY <2>3, <2>4, <3>4
      <4>3. sub.msg.order = o => sub.msg.current \/ Owes(o) \/ WaitsBehind(o, 0)
        BY <2>1, <2>2 DEF Delivery
      <4> QED
        BY <1>t, <3>2, <4>1, <4>2, <4>3
    <3> QED
      BY <3>3, <3>4
  <2> QED
    BY <2>1, <2>2, <2>4 DEF Delivery, Current
<1>6. CASE BroadcastEnds
  <2>1. /\ sub.todo = {} /\ sub'.pc = "listen" /\ conns' \subseteq conns
        /\ UNCHANGED <<pub, channel, outdated, client, unheard>>
    BY <1>6 DEF BroadcastEnds, Listening
  <2>2. /\ Delivery(o) /\ (Owes(o)' <=> Owes(o))
        /\ \A i : WaitsBehind(o, i)' <=> WaitsBehind(o, i)
    BY <1>d, <2>1 DEF Owes, Owed, WaitsBehind, Current
  <2> QED
    BY <2>1, <2>2 DEF Delivery, Current
<1>7. CASE SubscriberFails
  <2>1. /\ channel' = <<>> /\ sub.pc = "listen" /\ sub'.pc = "down"
        /\ UNCHANGED <<pub, conns, outdated, client>>
        /\ unheard' = unheard \cup {channel[i].order : i \in DOMAIN channel}
    BY <1>7 DEF SubscriberFails, Listening
  <2>2. Delivery(o) /\ (Owes(o)' <=> Owes(o))
    BY <1>d, <2>1 DEF Owes, Owed
  <2>3. \A i \in DOMAIN channel : channel[i].order # o
    BY <2>1
  <2>4. \A i : ~ WaitsBehind(o, i)
    BY <1>t, <2>3 DEF WaitsBehind
  <2>5. DOMAIN channel' = {}
    BY <2>1
  <2>6. \A q \in Publishers : pub'[q].view[o] # "old"
    BY <2>1, <2>2 DEF Delivery
  <2>7. \A c \in conns' : client'[c] = "open" /\ o \in outdated'[c] => Owes(o)'
    BY <2>1, <2>2, <2>4 DEF Delivery
  <2> QED
    BY <2>1, <2>5, <2>6, <2>7 DEF Delivery
<1>8. CASE UNCHANGED bcVars \/ \E c \in Clients : Join(c) \/ ClientGone(c) \/ EndpointEnds(c)
  <2>1. /\ UNCHANGED <<pub, channel, sub, unheard>>
        /\ \A c \in conns' : client'[c] = "open" =>
             outdated'[c] = {} \/ (c \in conns /\ client[c] = "open" /\ outdated'[c] = outdated[c])
    BY <1>t, <1>8 DEF bcVars, Join, ClientGone, EndpointEnds, Discard, subVars, BroadcastBasis
  <2>2. /\ Delivery(o) /\ (Owes(o)' <=> Owes(o))
        /\ \A i : WaitsBehind(o, i)' <=> WaitsBehind(o, i)
    BY <1>d, <2>1 DEF Owes, Owed, WaitsBehind, Current
  <2> QED
    BY <2>1, <2>2 DEF Delivery, Current
<1>9. ASSUME NEW p \in Publishers, SessionStep(p) \/ PublisherStep(p) \/ PublishFails(p)
      PROVE  Delivery(o)'
  <2>1. CASE Publish(p) \/ PublishFails(p)
    BY <1>3, <2>1
  <2>2. CASE SessionStep(p) \/ ReadRow(p)
    BY <1>1, <1>2, <1>3, <2>2, SessionSteps
  <2> QED
    BY <1>9, <2>1, <2>2 DEF PublisherStep
<1> QED
  BY <1>4, <1>5, <1>6, <1>7, <1>8, <1>9 DEF BroadcastNext, SubscriberStep

\* Once the messages are sent, an open browser shows an outdated row only of an
\* order whose last change is still to be published, is not published by the code,
\* was made while another session held the row, or whose message was lost: in
\* particular no browser that vanishes in the middle of a broadcast keeps the
\* message from the others (ConnectionManager.broadcast), and messages of several
\* sessions that cross in the channel do no harm.
THEOREM BrowsersDoCatchUp == BroadcastSpec => []BrowsersCatchUp
<1>1. BroadcastInit => BroadcastInv
  <2> SUFFICES ASSUME BroadcastInit PROVE BroadcastInv
    OBVIOUS
  <2>1. NoSession \in SessionType /\ HasRead(NoSession) /\ \A o \in Orders : NoSession.view[o] = "unread"
    BY DEF NoSession, SessionType, HasRead, NoRows, Knowledge, Orders, Publishing
  <2>2. Listening \in SubType /\ Listening.pc = "listen"
    BY DEF Listening, SubType, Message, Orders
  <2>3. channel \in Seq(Message) /\ Len(channel) <= MaxChannel
    BY BroadcastAssumption DEF BroadcastInit
  <2>4. pub \in [Publishers -> SessionType] /\ \A p \in Publishers : pub[p] = NoSession
    BY <2>1 DEF BroadcastInit
  <2>5. BroadcastTypeOK
    BY <2>2, <2>3, <2>4 DEF BroadcastInit, BroadcastTypeOK, SessionType, SubType, Knowledge
  <2>6. BroadcastBasis
    BY <2>1, <2>4, <2>5 DEF BroadcastInit, BroadcastBasis
  <2>7. \A o \in Orders : Delivery(o)
    BY <2>1, <2>2, <2>4 DEF BroadcastInit, Delivery
  <2> QED
    BY <2>6, <2>7 DEF BroadcastInv, DeliveryInv
<1>2. BroadcastInv /\ [BroadcastNext]_bcVars => BroadcastInv'
  <2> SUFFICES ASSUME BroadcastInv, [BroadcastNext]_bcVars PROVE BroadcastInv'
    OBVIOUS
  <2>1. BroadcastBasis'
    BY BasisKept DEF BroadcastInv
  <2>2. \A o \in Orders \ unheard' : Delivery(o)'
    BY DeliveryKept DEF BroadcastInv
  <2> QED
    BY <2>1, <2>2 DEF BroadcastInv, DeliveryInv, Orders
<1>3. BroadcastInv => BrowsersCatchUp
  <2> SUFFICES ASSUME BroadcastInv, channel = <<>>, sub.pc # "send",
                      NEW c \in conns, client[c] = "open", NEW o \in outdated[c], o \notin unheard
               PROVE  Owes(o)
    BY DEF BrowsersCatchUp, Owes
  <2>1. o \in Orders
    BY BroadcastTypes DEF BroadcastInv, BroadcastBasis
  <2>2. ~ WaitsBehind(o, 0)
    BY DEF WaitsBehind
  <2> QED
    BY <2>1, <2>2 DEF BroadcastInv, DeliveryInv, Delivery
<1> QED
  BY <1>1, <1>2, <1>3, PTL DEF BroadcastSpec

-----------------------------------------------------------------------------
(* Screening                                                                 *)

\* What the averaged ranks of pandas select from a finite set of stocks, for any
\* returns with any ties.
LEMMA RankingOf ==
  ASSUME NEW S, IsFiniteSet(S), NEW ret, \A s \in S : ret[s] \in Int
  PROVE  LET buys == BuySignals(S, ret)
             Higher(s) == {t \in S : ret[t] > ret[s]}
             tied == \E s, t \in S : s # t /\ ret[s] = ret[t]
         IN /\ \A s \in buys : Higher(s) \subseteq buys /\ Cardinality(Higher(s)) < TopN /\ ret[s] > 0
            /\ TopN > 0 => Cardinality(buys) < 2 * TopN
            /\ ~tied => buys = {s \in S : Cardinality(Higher(s)) < TopN /\ ret[s] > 0}
<1> DEFINE buys == BuySignals(S, ret)
           H(s) == {t \in S : ret[t] > ret[s]}
           E(s) == {t \in S : ret[t] = ret[s]}
           h(s) == Cardinality(H(s))
           e(s) == Cardinality(E(s))
           tied == \E s, t \in S : s # t /\ ret[s] = ret[t]
<1>1. TopN \in Nat /\ IsFiniteSet(S) /\ \A s \in S : ret[s] \in Int
  BY ScreeningAssumption
<1>2. \A s \in S : /\ h(s) \in Nat /\ e(s) \in Nat \ {0}
                   /\ \A T \in SUBSET (H(s) \cup E(s)) : Cardinality(T) <= h(s) + e(s)
                   /\ TwiceRank(S, ret, s) = 2 * h(s) + e(s) + 1
  <2> SUFFICES ASSUME NEW s \in S
               PROVE  /\ h(s) \in Nat /\ e(s) \in Nat \ {0}
                      /\ \A T \in SUBSET (H(s) \cup E(s)) : Cardinality(T) <= h(s) + e(s)
                      /\ TwiceRank(S, ret, s) = 2 * h(s) + e(s) + 1
    OBVIOUS
  <2>1. IsFiniteSet(H(s)) /\ IsFiniteSet(E(s)) /\ h(s) \in Nat /\ e(s) \in Nat
    BY <1>1, FS_Subset, FS_CardinalityType
  <2>2. s \in E(s) /\ H(s) \cap E(s) = {}
    BY <1>1
  <2>3. e(s) # 0
    BY <2>1, <2>2, FS_EmptySet
  <2>4. IsFiniteSet(H(s) \cup E(s)) /\ Cardinality(H(s) \cup E(s)) = h(s) + e(s)
    <3>1. /\ IsFiniteSet(H(s) \cup E(s))
          /\ Cardinality(H(s) \cup E(s)) = h(s) + e(s) - Cardinality(H(s) \cap E(s))
      BY <2>1, FS_Union
    <3>2. Cardinality(H(s) \cap E(s)) = 0
      BY <2>2, FS_EmptySet
    <3> HIDE DEF h, e
    <3> QED
      BY <2>1, <3>1, <3>2
  <2>5. \A T \in SUBSET (H(s) \cup E(s)) : Cardinality(T) <= h(s) + e(s)
    BY <2>4, FS_Subset
  <2>6. TwiceRank(S, ret, s) = 2 * h(s) + e(s) + 1
    BY DEF TwiceRank
  <2> HIDE DEF h, e
  <2> QED
    BY <2>1, <2>3, <2>5, <2>6
<1>3. \A s \in S : s \in buys <=> 2 * h(s) + e(s) + 1 <= 2 * TopN /\ ret[s] > 0
  BY <1>2 DEF BuySignals
<1>4. buys \subseteq S
  BY DEF BuySignals
<1>5. \A s, t \in S : ret[t] > ret[s] => H(t) \cup E(t) \subseteq H(s)
  BY <1>1
<1>6. \A s \in S : IsFiniteSet(H(s))
  BY <1>1, FS_Subset
<1> HIDE DEF buys
<1>7. ASSUME NEW s \in S, NEW t \in S, ret[t] > ret[s] PROVE h(t) + e(t) <= h(s)
  <2>1. IsFiniteSet(H(t)) /\ IsFiniteSet(E(t)) /\ H(t) \cap E(t) = {}
    BY <1>1, FS_Subset
  <2>2. IsFiniteSet(H(t) \cup E(t)) /\ Cardinality(H(t) \cup E(t)) = h(t) + e(t) - Cardinality(H(t) \cap E(t))
    BY <2>1, FS_Union
  <2>3. Cardinality(H(t) \cap E(t)) = 0
    BY <2>1, FS_EmptySet
  <2>4. Cardinality(H(t) \cup E(t)) <= h(s)
    BY <1>5, <1>6, <1>7, FS_Subset
  <2>5. h(t) \in Nat /\ e(t) \in Nat /\ h(s) \in Nat
    BY <1>2
  <2> QED
    <3> DEFINE c == Cardinality(H(t) \cup E(t))
               d == Cardinality(H(t) \cap E(t))
    <3>1. c = h(t) + e(t) - d /\ d = 0 /\ c <= h(s)
      BY <2>2, <2>3, <2>4
    <3> HIDE DEF c, d, h, e
    <3> QED
      BY <2>5, <3>1
<1> HIDE DEF h, e
<1>8. ASSUME NEW s \in buys PROVE H(s) \subseteq buys /\ h(s) < TopN /\ ret[s] > 0
  <2>1. s \in S /\ 2 * h(s) + e(s) + 1 <= 2 * TopN /\ ret[s] > 0 /\ h(s) \in Nat /\ e(s) \in Nat \ {0}
    BY <1>2, <1>3, <1>4
  <2>2. h(s) < TopN
    BY <1>1, <2>1
  <2>3. ASSUME NEW t \in H(s) PROVE t \in buys
    <3>1. t \in S /\ ret[t] > ret[s] /\ ret[t] \in Int /\ ret[s] \in Int
      BY <1>1, <2>1, <2>3
    <3>2. h(t) + e(t) <= h(s) /\ h(t) \in Nat /\ e(t) \in Nat
      BY <1>2, <1>7, <2>1, <3>1
    <3>3. 2 * h(t) + e(t) + 1 <= 2 * TopN
      <4> DEFINE a == h(s)
                 b == e(s)
                 c == h(t)
                 d == e(t)
      <4>1. /\ a \in Nat /\ b \in Nat \ {0} /\ c \in Nat /\ d \in Nat /\ TopN \in Nat
            /\ 2 * a + b + 1 <= 2 * TopN /\ c + d <= a
        BY <1>1, <2>1, <3>2
      <4> HIDE DEF a, b, c, d
      <4>2. 2 * c + d + 1 <= 2 * TopN
        BY <4>1
      <4> QED
        BY <4>2 DEF c, d
    <3>4. ret[t] > 0
      BY <2>1, <3>1
    <3> QED
      BY <1>3, <3>1, <3>3, <3>4
  <2> QED
    BY <2>1, <2>2, <2>3
<1>9. ASSUME TopN > 0 PROVE Cardinality(buys) < 2 * TopN
  <2>1. CASE buys = {}
    BY <1>1, <1>9, <2>1, FS_EmptySet
  <2>2. CASE buys # {}
    <3> DEFINE T == {m \in Nat : \E s \in buys : m = TopN - h(s)}
    <3>1. \A s \in buys : TopN - h(s) \in T
      BY <1>1, <1>2, <1>4, <1>8
    <3>2. T \in SUBSET Nat /\ T # {}
      BY <2>2, <3>1
    <3>3. PICK m \in T : \A k \in T : m <= k
      <4> HIDE DEF T
      <4> QED
        BY <3>2, LeastElement
    <3>4. PICK s \in buys : m = TopN - h(s)
      BY <3>3
    <3>5. \A t \in buys : h(t) <= h(s)
      <4> HIDE DEF T
      <4>1. \A t \in buys : TopN - h(s) <= TopN - h(t)
        BY <3>1, <3>3, <3>4
      <4> QED
        BY <1>1, <1>2, <1>4, <4>1
    <3>6. buys \subseteq H(s) \cup E(s)
      <4> SUFFICES ASSUME NEW t \in buys, ~ (ret[t] > ret[s]), ret[t] # ret[s] PROVE FALSE
        BY <1>4
      <4>1. s \in S /\ t \in S /\ ret[s] > ret[t]
        BY <1>1, <1>4
      <4>2. h(s) + e(s) <= h(t) /\ h(t) <= h(s) /\ h(s) \in Nat /\ e(s) \in Nat \ {0} /\ h(t) \in Nat
        BY <1>2, <1>7, <3>5, <4>1
      <4> QED
        BY <4>2
    <3>7. Cardinality(buys) <= h(s) + e(s)
      BY <1>2, <1>4, <3>6
    <3>8. 2 * h(s) + e(s) + 1 <= 2 * TopN /\ h(s) \in Nat /\ e(s) \in Nat
      BY <1>2, <1>3, <1>4
    <3>9. Cardinality(buys) \in Nat
      BY <1>1, <1>4, FS_Subset, FS_CardinalityType
    <3> QED
      BY <1>1, <3>7, <3>8, <3>9
  <2> QED
    BY <2>1, <2>2
<1>10. ASSUME ~ tied PROVE buys = {s \in S : h(s) < TopN /\ ret[s] > 0}
  <2>1. ASSUME NEW s \in S PROVE e(s) = 1
    <3>1. E(s) = {s}
      BY <1>10
    <3> QED
      BY <3>1, FS_Singleton DEF e
  <2>2. \A s \in S : s \in buys <=> h(s) < TopN /\ ret[s] > 0
    BY <1>1, <1>2, <1>3, <2>1
  <2> QED
    BY <1>4, <2>2
<1> QED
  BY <1>8, <1>9, <1>10 DEF buys, h

\* In particular from any number of stocks.
LEMMA RankingIsSound == RankingSound
<1> SUFFICES ASSUME NEW n \in 0..RankedStocks, NEW ret \in [1..n -> StockReturns]
             PROVE  LET buys == BuySignals(1..n, ret)
                        Higher(s) == {t \in 1..n : ret[t] > ret[s]}
                        tied == \E s, t \in 1..n : s # t /\ ret[s] = ret[t]
                    IN /\ \A s \in buys : Higher(s) \subseteq buys /\ Cardinality(Higher(s)) < TopN /\ ret[s] > 0
                       /\ TopN > 0 => Cardinality(buys) < 2 * TopN
                       /\ ~tied => buys = {s \in 1..n : Cardinality(Higher(s)) < TopN /\ ret[s] > 0}
  BY DEF RankingSound
<1>1. n \in Nat /\ StockReturns \subseteq Int
  BY ScreeningAssumption
<1>2. IsFiniteSet(1..n) /\ \A s \in 1..n : ret[s] \in Int
  <2>1. 1 \in Int /\ n \in Int
    BY <1>1
  <2>2. IsFiniteSet(1..n)
    BY <2>1, FS_Interval
  <2>3. \A s \in 1..n : ret[s] \in StockReturns
    OBVIOUS
  <2>4. \A s \in 1..n : ret[s] \in Int
    BY <1>1, <2>3, Zenon
  <2> QED
    BY <2>2, <2>4
<1> DEFINE S == 1..n
<1>3. IsFiniteSet(S) /\ \A s \in S : ret[s] \in Int
  BY <1>2
<1> HIDE DEF S
<1>4. LET buys == BuySignals(S, ret)
          Higher(s) == {t \in S : ret[t] > ret[s]}
          tied == \E s, t \in S : s # t /\ ret[s] = ret[t]
      IN /\ \A s \in buys : Higher(s) \subseteq buys /\ Cardinality(Higher(s)) < TopN /\ ret[s] > 0
         /\ TopN > 0 => Cardinality(buys) < 2 * TopN
         /\ ~tied => buys = {s \in S : Cardinality(Higher(s)) < TopN /\ ret[s] > 0}
  BY <1>3, RankingOf
<1> QED
  BY <1>4 DEF S

\* A statement that is stored in part has fewer accounts than the whole, with the
\* same amounts, and those of the balance sheet all or not at all.
LEMMA PartOfWhole ==
  ASSUME NEW s \in Universe, NEW d \in Divs, NEW st \in [Sheets -> Divs \cup {"none"}],
         \A x \in Sheets : st[x] \in {d, "none"}
  PROVE  LET part == Amounts(s, st)
             whole == Amounts(s, Whole(s, d))
         IN  /\ DOMAIN part \subseteq DOMAIN whole
             /\ \A a \in DOMAIN part : part[a] = whole[a]
             /\ \A a, b \in Accounts : Sheet[a] = "BS" /\ Sheet[b] = "BS" /\ a \in DOMAIN part
                                       /\ b \in DOMAIN whole => b \in DOMAIN part
<1> DEFINE w == Whole(s, d)
           On(x, a) == a \in Report[s][d].lines[x]
           Has(v, x, a) == v[x] = d /\ On(x, a)
<1>1. \A x \in Sheets : w[x] \in {d, "none"} /\ (w[x] = d <=> Report[s][d].lines[x] # {})
  BY DEF Whole, Answers, Divs
<1>2. \A a \in Accounts : Sheet[a] \in {"BS", "IS", "CF"} /\ d # "none"
  BY DEF Sheet, Accounts, Divs
<1>3. \A a \in Accounts, x \in Sheets : Has(st, x, a) => Has(w, x, a)
  BY <1>1
<1>4. ASSUME NEW v, \A x \in Sheets : v[x] \in {d, "none"}, NEW a \in Accounts
      PROVE  /\ FoundOn(s, v, a) \in Sheets \cup {"none"}
             /\ FoundOn(s, v, a) # "none" <=>
                  Has(v, Sheet[a], a) \/ (Sheet[a] = "IS" /\ Has(v, "CIS", a))
             /\ FoundOn(s, v, a) # "none" => v[FoundOn(s, v, a)] = d
  <2>1. Sheet[a] \in Sheets /\ "CIS" \in Sheets /\ "none" \notin Sheets
    BY <1>2 DEF Sheets
  <2>2. \A x \in Sheets : (v[x] # "none" /\ a \in Report[s][v[x]].lines[x]) <=> Has(v, x, a)
    BY <1>2, <1>4
  <2> HIDE DEF Has
  <2>3. FoundOn(s, v, a) = CASE Has(v, Sheet[a], a) -> Sheet[a]
                             [] ~Has(v, Sheet[a], a) /\ Sheet[a] = "IS" /\ Has(v, "CIS", a) -> "CIS"
                             [] OTHER -> "none"
    BY <2>1, <2>2 DEF FoundOn
  <2>4. \A x \in Sheets : Has(v, x, a) => v[x] = d
    BY DEF Has
  <2> QED
    BY <1>2, <2>1, <2>3, <2>4
<1>5. ASSUME NEW v, \A x \in Sheets : v[x] \in {d, "none"}
      PROVE  /\ DOMAIN Amounts(s, v) = {a \in Accounts : FoundOn(s, v, a) # "none"}
             /\ \A a \in DOMAIN Amounts(s, v) : Amounts(s, v)[a] = Report[s][d].amount[a]
  BY <1>4, <1>5 DEF Amounts
<1> DEFINE part == Amounts(s, st)
           whole == Amounts(s, w)
<1>6. /\ \A a \in Accounts : FoundOn(s, st, a) # "none" <=>
           Has(st, Sheet[a], a) \/ (Sheet[a] = "IS" /\ Has(st, "CIS", a))
      /\ \A a \in Accounts : FoundOn(s, w, a) # "none" <=>
           Has(w, Sheet[a], a) \/ (Sheet[a] = "IS" /\ Has(w, "CIS", a))
  BY <1>1, <1>4
<1>7. /\ DOMAIN part = {a \in Accounts : FoundOn(s, st, a) # "none"}
      /\ DOMAIN whole = {a \in Accounts : FoundOn(s, w, a) # "none"}
      /\ \A a \in DOMAIN part : part[a] = Report[s][d].amount[a]
      /\ \A a \in DOMAIN whole : whole[a] = Report[s][d].amount[a]
  BY <1>1, <1>5
<1>8. DOMAIN part \subseteq DOMAIN whole
  <2>1. \A a \in Accounts : Sheet[a] \in Sheets /\ "CIS" \in Sheets
    BY <1>2 DEF Sheets
  <2> HIDE DEF part, whole, Has, w
  <2> QED
    BY <1>3, <1>6, <1>7, <2>1
<1>9. \A a, b \in Accounts : Sheet[a] = "BS" /\ Sheet[b] = "BS" /\ a \in DOMAIN part
                             /\ b \in DOMAIN whole => b \in DOMAIN part
  <2> HIDE DEF part, whole, w
  <2> QED
    BY <1>6, <1>7
<1>10. /\ DOMAIN part \subseteq DOMAIN whole
       /\ \A a \in DOMAIN part : part[a] = whole[a]
       /\ \A a, b \in Accounts : Sheet[a] = "BS" /\ Sheet[b] = "BS" /\ a \in DOMAIN part
                                 /\ b \in DOMAIN whole => b \in DOMAIN part
  <2> HIDE DEF part, whole, w
  <2> QED
    BY <1>7, <1>8, <1>9
<1> QED
  BY <1>10 DEF part, whole, w

\* A ratio with a missing account has not risen.
LEMMA NoRiseWithout ==
  ASSUME NEW fs, NEW a, NEW b, ~ ({a, b} \subseteq DOMAIN fs)
  PROVE  ~ Rises(fs, a, b)
<1>1. Ratio(fs, a, b, "cur") = <<0, 1>> /\ Ratio(fs, a, b, "prev") = <<0, 1>>
  BY DEF Ratio
<1>2. ~ Less(<<0, 1>>, <<0, 1>>)
  BY DEF Less
<1> QED
  BY <1>1, <1>2 DEF Rises

Metrics == {"f_roa", "f_cfo", "f_delta_roa", "f_accrual", "f_delta_lever",
            "f_delta_liquid", "f_eq_offer", "f_delta_margin", "f_delta_turnover"}

\* The score is a number of metrics.
LEMMA ScoresAreFinite ==
  ASSUME NEW fs
  PROVE  RawScores(fs) \subseteq Metrics /\ IsFiniteSet(RawScores(fs))
<1>1. RawScores(fs) \subseteq Metrics
  BY DEF RawScores, Metrics
<1>2. IsFiniteSet({"f_roa"} \cup {"f_cfo"} \cup {"f_delta_roa"})
  BY FS_Singleton, FS_Union
<1>3. IsFiniteSet({"f_accrual"} \cup {"f_delta_lever"} \cup {"f_delta_liquid"})
  BY FS_Singleton, FS_Union
<1>4. IsFiniteSet({"f_eq_offer"} \cup {"f_delta_margin"} \cup {"f_delta_turnover"})
  BY FS_Singleton, FS_Union
<1> DEFINE A == {"f_roa"} \cup {"f_cfo"} \cup {"f_delta_roa"}
           B == {"f_accrual"} \cup {"f_delta_lever"} \cup {"f_delta_liquid"}
           C == {"f_eq_offer"} \cup {"f_delta_margin"} \cup {"f_delta_turnover"}
<1>5. Metrics = (A \cup B) \cup C
  BY DEF Metrics
<1>6. IsFiniteSet(A) /\ IsFiniteSet(B) /\ IsFiniteSet(C)
  BY <1>2, <1>3, <1>4
<1> HIDE DEF A, B, C
<1>7. IsFiniteSet((A \cup B) \cup C)
  BY <1>6, FS_Union
<1> QED
  BY <1>1, <1>5, <1>7, FS_Subset

\* What a statement lacks costs points and earns none.
LEMMA LessScoresLess ==
  ASSUME NEW part, NEW whole, Computable(part),
         DOMAIN whole \subseteq Accounts, DOMAIN part \subseteq DOMAIN whole,
         \A a \in DOMAIN part : part[a] = whole[a],
         \A a, b \in Accounts : Sheet[a] = "BS" /\ Sheet[b] = "BS" /\ a \in DOMAIN part
                                 /\ b \in DOMAIN whole => b \in DOMAIN part
  PROVE  Computable(whole) /\ RawScores(part) \subseteq RawScores(whole)
<1>1. /\ {"assets", "equity", "income", "cfo", "capital"} \subseteq DOMAIN part
      /\ {"assets", "equity", "income", "cfo", "capital"} \subseteq DOMAIN whole
      /\ \A a \in {"assets", "equity", "income", "cfo", "capital"} : part[a] = whole[a]
  BY DEF Computable
<1>2. \A b \in {"liab", "curAssets", "curLiab"} : b \in DOMAIN whole <=> b \in DOMAIN part
  <2>1. \A b \in {"assets", "liab", "curAssets", "curLiab"} : b \in Accounts /\ Sheet[b] = "BS"
    BY DEF Sheet, Accounts
  <2> QED
    BY <1>1, <2>1
<1>3. Computable(whole)
  BY <1>1, <1>2 DEF Computable
<1>4. \A a, b, term : {a, b} \subseteq DOMAIN part => Ratio(part, a, b, term) = Ratio(whole, a, b, term)
  BY DEF Ratio
<1>5. \A a, b : {a, b} \subseteq DOMAIN part => (Rises(part, a, b) <=> Rises(whole, a, b))
  BY <1>4 DEF Rises
<1>6. \A a, b : Rises(part, a, b) => Rises(whole, a, b)
  BY <1>5, NoRiseWithout
<1>7. \A term : Ratio(part, "liab", "equity", term) = Ratio(whole, "liab", "equity", term)
  BY <1>1, <1>2 DEF Ratio
<1> DEFINE Point(fs, m) ==
     CASE m = "f_roa"            -> Less(<<0, 1>>, Ratio(fs, "income", "assets", "cur"))
       [] m = "f_cfo"            -> fs["cfo"].cur > 0
       [] m = "f_delta_roa"      -> Rises(fs, "income", "assets")
       [] m = "f_accrual"        -> fs["cfo"].cur * fs["assets"].cur > fs["income"].cur * fs["assets"].cur
       [] m = "f_delta_lever"    -> Less(Ratio(fs, "liab", "equity", "cur"),
                                         Ratio(fs, "liab", "equity", "prev"))
       [] m = "f_delta_liquid"   -> Rises(fs, "curAssets", "curLiab")
       [] m = "f_eq_offer"       -> fs["capital"].cur <= fs["capital"].prev
       [] m = "f_delta_margin"   -> Rises(fs, "gross", "revenue")
       [] m = "f_delta_turnover" -> Rises(fs, "revenue", "assets")
<1>8. RawScores(part) = {m \in Metrics : Point(part, m)} /\ RawScores(whole) = {m \in Metrics : Point(whole, m)}
  BY DEF RawScores, Metrics
<1>9. ASSUME NEW m \in Metrics, Point(part, m) PROVE Point(whole, m)
  <2>1. CASE m = "f_roa"
    BY <1>1, <1>4, <1>9, <2>1
  <2>2. CASE m \in {"f_cfo", "f_accrual", "f_eq_offer"}
    BY <1>1, <1>9, <2>2
  <2>3. CASE m = "f_delta_lever"
    BY <1>7, <1>9, <2>3
  <2>4. CASE m \in {"f_delta_roa", "f_delta_liquid", "f_delta_margin", "f_delta_turnover"}
    BY <1>6, <1>9, <2>4
  <2> QED
    BY <2>1, <2>2, <2>3, <2>4 DEF Metrics
<1> HIDE DEF Point
<1> QED
  BY <1>3, <1>8, <1>9

\* A stock that passes on part of a statement passes on the whole.
LEMMA WholePassesToo ==
  ASSUME NEW s \in Universe, NEW d \in Divs, NEW st \in [Sheets -> Divs \cup {"none"}],
         \A x \in Sheets : st[x] \in {d, "none"}, Passes(s, st)
  PROVE  Passes(s, Whole(s, d))
<1> DEFINE part == Amounts(s, st)
           whole == Amounts(s, Whole(s, d))
<1>1. /\ DOMAIN part \subseteq DOMAIN whole
      /\ \A a \in DOMAIN part : part[a] = whole[a]
      /\ \A a, b \in Accounts : Sheet[a] = "BS" /\ Sheet[b] = "BS" /\ a \in DOMAIN part
                                /\ b \in DOMAIN whole => b \in DOMAIN part
  BY PartOfWhole
<1>2. DOMAIN whole \subseteq Accounts
  BY DEF Amounts
<1>3. Computable(part) /\ Cardinality(RawScores(part)) >= Threshold
  BY DEF Passes, CanScore
<1> HIDE DEF part, whole
<1>4. Computable(whole) /\ RawScores(part) \subseteq RawScores(whole)
  BY <1>1, <1>2, <1>3, LessScoresLess
<1>5. /\ IsFiniteSet(RawScores(whole)) /\ Cardinality(RawScores(part)) <= Cardinality(RawScores(whole))
      /\ Cardinality(RawScores(part)) \in Nat /\ Cardinality(RawScores(whole)) \in Nat
  BY <1>4, ScoresAreFinite, FS_Subset, FS_CardinalityType
<1>6. Cardinality(RawScores(whole)) >= Threshold
  BY <1>3, <1>5, ScreeningAssumption
<1> QED
  BY <1>4, <1>6 DEF Passes, CanScore, whole

ScreenType ==
  [pc: {"idle", "fetch", "score", "failed", "done"},
   todo: SUBSET Universe, noData: SUBSET Universe, buys: SUBSET Universe]
StatementType == [Sheets -> Divs \cup {"none"}]

\* The stocks S may be bought.
MayBuy(S) ==
  /\ \A s \in S : \A d \in Divs : AllFrom(s, d) => Passes(s, Whole(s, d))
  /\ TopN > 0 => Cardinality(S) < 2 * TopN

\* What a run is about to mark as unavailable, DART had nothing of.
ScreeningInv ==
  /\ ScreeningTypeOK
  /\ ~throttled => /\ unavailable \subseteq absent
                   /\ \A r \in ScreenRuns : screen[r].noData \subseteq absent
                   /\ \A s \in Universe \ caught : stored[s] \in {Nothing, Preferred(s)}
  /\ \A r \in ScreenRuns : MayBuy(screen[r].buys)

\* The types of one run, and what holds of a run that has bought nothing.
LEMMA ScreenTypes ==
  ASSUME ScreeningTypeOK
  PROVE  /\ screen \in [ScreenRuns -> ScreenType]
         /\ \A r \in ScreenRuns : screen[r] \in ScreenType /\ screen[r].buys \subseteq Universe
         /\ stored \in [Universe -> StatementType]
         /\ NoRun \in ScreenType /\ NoRun.noData = {} /\ NoRun.buys = {}
BY DEF ScreeningTypeOK, ScreenType, StatementType, NoRun

LEMMA NothingToBuy == MayBuy({})
<1>1. Cardinality({}) = 0
  BY FS_EmptySet
<1> QED
  BY <1>1, ScreeningAssumption DEF MayBuy

\* The rows stored of a statement, or another's, are there or not: an insert adds
\* to them and changes none.
LEMMA InsertAdds ==
  ASSUME NEW s \in Universe, stored[s] \in StatementType, NEW what \in StatementType
  PROVE  /\ Insert(s, what) \in StatementType
         /\ \A x \in Sheets : stored[s][x] # "none" => Insert(s, what)[x] = stored[s][x]
         /\ what = Nothing => Insert(s, what) = stored[s]
         /\ stored[s] = Nothing => Insert(s, what) = what
         /\ stored[s] = what => Insert(s, what) = what
<1> DEFINE old == stored[s]
           both == [x \in Sheets |-> IF what[x] # "none" THEN what[x] ELSE old[x]]
           clash == \E x \in Sheets : what[x] # "none" /\ old[x] # "none"
<1>1. Insert(s, what) = IF clash THEN old ELSE both
  BY DEF Insert
<1>2. old \in StatementType /\ old = [x \in Sheets |-> old[x]] /\ what = [x \in Sheets |-> what[x]]
  BY DEF StatementType
<1>3. \A x \in Sheets : Nothing[x] = "none"
  BY DEF Nothing
<1> HIDE DEF old
<1>4. both \in StatementType
  BY <1>2 DEF StatementType
<1>5. ~clash => \A x \in Sheets : old[x] # "none" => both[x] = old[x]
  OBVIOUS
<1>6. what = Nothing => ~clash /\ both = old
  <2>1. what = Nothing => \A x \in Sheets : both[x] = old[x]
    BY <1>3
  <2> QED
    BY <1>2, <1>3, <2>1
<1>7. old = Nothing => ~clash /\ both = what
  <2>1. old = Nothing => \A x \in Sheets : both[x] = what[x]
    BY <1>3
  <2> QED
    BY <1>2, <1>3, <2>1
<1>8. old = what => both = what
  BY <1>2
<1> HIDE DEF clash, both
<1> QED
  BY <1>1, <1>2, <1>4, <1>5, <1>6, <1>7, <1>8 DEF old

\* What the answers add up to.
LEMMA AnswersAre ==
  ASSUME NEW s \in Universe
  PROVE  /\ \A d \in Divs : \A given : Answers(s, d, given) \in StatementType
         /\ \A d \in Divs : Answers(s, d, {}) = Nothing
         /\ ~ (Whole(s, "cfs") = Nothing /\ Whole(s, "ofs") = Nothing)
<1>1. \A d \in Divs : \A given : Answers(s, d, given) \in StatementType
  BY DEF Answers, StatementType
<1>2. \A d \in Divs : Answers(s, d, {}) = Nothing
  BY DEF Answers, Nothing
<1>3. PICK d \in Divs, x \in Sheets : Report[s][d].lines[x] # {}
  BY ScreeningAssumption
<1>4. Whole(s, d)[x] = d /\ Nothing[x] = "none" /\ d # "none"
  BY <1>3 DEF Whole, Answers, Nothing, Divs
<1>5. d \in {"cfs", "ofs"}
  BY DEF Divs
<1> QED
  BY <1>1, <1>2, <1>4, <1>5

\* One run steps, to a state whose purchases are sound and whose stocks without
\* data are known to be absent.
LEMMA RunStepKeeps ==
  ASSUME ScreeningInv, NEW r \in ScreenRuns, NEW next \in ScreenType,
         screen' = [screen EXCEPT ![r] = next],
         next.noData \subseteq screen[r].noData,
         MayBuy(next.buys),
         UNCHANGED <<filed, stored, scrHistory>>,
         unavailable' \subseteq unavailable \cup screen[r].noData
  PROVE  ScreeningInv'
<1>0. UNCHANGED <<absent, caught, throttled>> /\ stored \in [Universe -> StatementType]
  BY ScreenTypes DEF scrHistory, ScreeningInv
<1>1. screen \in [ScreenRuns -> ScreenType] /\ screen[r].noData \subseteq Universe
  BY ScreenTypes DEF ScreeningInv, ScreenType
<1>2. screen' \in [ScreenRuns -> ScreenType] /\ screen'[r] = next
      /\ \A q \in ScreenRuns \ {r} : screen'[q] = screen[q]
  BY <1>1
<1>3. ScreeningTypeOK'
  BY <1>0, <1>1, <1>2 DEF ScreeningInv, ScreeningTypeOK, ScreenType
<1>4. \A q \in ScreenRuns : screen'[q].noData \subseteq screen[q].noData
  BY <1>2
<1>5. ASSUME NEW q \in ScreenRuns PROVE MayBuy(screen'[q].buys)
  <2>1. CASE q = r
    BY <1>2, <2>1
  <2>2. CASE q # r
    BY <1>2, <2>2 DEF ScreeningInv
  <2> QED
    BY <2>1, <2>2
<1>6. ASSUME NEW q \in ScreenRuns PROVE MayBuy(screen[q].buys)'
  <2> DEFINE S == screen'[q].buys
  <2>1. S \in SUBSET Universe /\ MayBuy(S)
    BY <1>2, <1>5, <1>6 DEF ScreenType
  <2> HIDE DEF S
  <2>2. MayBuy(S) => \A s \in S : \A d \in Divs : AllFrom(s, d)' => Passes(s, Whole(s, d))'
    BY DEF MayBuy, AllFrom, Passes, Whole
  <2>3. \A s \in S : \A d \in Divs : AllFrom(s, d)' => Passes(s, Whole(s, d))'
    BY <2>1, <2>2
  <2>4. TopN > 0 => Cardinality(S) < 2 * TopN
    BY <2>1 DEF MayBuy
  <2> QED
    BY <2>3, <2>4 DEF MayBuy, S
<1>7. \A s \in Universe : Preferred(s)' = Preferred(s)
  BY DEF Preferred, Whole
<1> QED
  BY <1>0, <1>3, <1>4, <1>6, <1>7 DEF ScreeningInv

\* A fetch keeps the invariant.
LEMMA FetchKeeps ==
  ASSUME ScreeningInv, NEW r \in ScreenRuns, NEW s \in Universe, NEW d \in Divs,
         NEW refused \in SUBSET Sheets, Fetch(r, s, d, refused)
  PROVE  ScreeningInv'
<1>0. /\ ScreeningTypeOK /\ screen \in [ScreenRuns -> ScreenType]
      /\ stored \in [Universe -> StatementType] /\ stored[s] \in StatementType
      /\ throttled \in BOOLEAN /\ filed \subseteq Universe
      /\ absent \subseteq Universe /\ caught \subseteq Universe /\ unavailable \subseteq Universe
  BY ScreenTypes DEF ScreeningInv, ScreeningTypeOK
<1> DEFINE What(there) == Answers(s, d, there[d] \ refused)
           NoCfs(there) == Answers(s, "cfs", there["cfs"]) = Nothing
<1>1. PICK there \in FiledFor(s) :
        /\ d = "cfs" => What(there) # Nothing
        /\ stored' = [stored EXCEPT ![s] = Insert(s, What(there))]
        /\ screen' = [screen EXCEPT ![r].todo = @ \ {s},
                                    ![r].noData = IF What(there) = Nothing THEN @ \cup {s} ELSE @]
        /\ throttled' = (throttled \/ refused # {} \/ (d = "ofs" /\ ~NoCfs(there)))
        /\ filed' = IF there = NotFiled THEN filed ELSE filed \cup {s}
        /\ caught' = IF there \in {NotFiled, AlwaysFiled} THEN caught ELSE caught \cup {s}
  BY DEF Fetch
<1>2. /\ absent' = IF s \in filed THEN absent ELSE absent \cup {s}
      /\ unavailable' = unavailable
  BY DEF Fetch
<1> DEFINE what == What(there)
<1>3. what \in StatementType
  BY AnswersAre
<1>4. /\ throttled' \in BOOLEAN
      /\ ~throttled' => ~throttled /\ refused = {} /\ (d = "ofs" => NoCfs(there))
  BY <1>0, <1>1
\* The whole of the preferred statement, if it was there all the time
<1>5. ASSUME ~throttled', there = AlwaysFiled PROVE what = Preferred(s) /\ what # Nothing
  <2>1. \A x \in Divs : there[x] = Sheets
    BY <1>5 DEF AlwaysFiled
  <2>2. what = Whole(s, d) /\ (NoCfs(there) <=> Whole(s, "cfs") = Nothing)
    <3>1. there[d] \ refused = Sheets /\ there["cfs"] = Sheets
      BY <1>4, <1>5, <2>1 DEF Divs
    <3> QED
      BY <3>1 DEF Whole
  <2>3. CASE d = "cfs"
    BY <1>1, <2>2, <2>3 DEF Preferred
  <2>4. CASE d = "ofs"
    BY <1>4, <1>5, <2>2, <2>4, AnswersAre DEF Preferred
  <2> QED
    BY <2>3, <2>4 DEF Divs
<1>6. ASSUME there = NotFiled PROVE what = Nothing
  <2>1. there[d] \ refused = {}
    BY <1>6 DEF NotFiled
  <2> QED
    BY <2>1, AnswersAre
<1>7. there # AlwaysFiled => s \notin filed
  BY DEF FiledFor
<1>8. stored' = [stored EXCEPT ![s] = Insert(s, what)]
      /\ screen' = [screen EXCEPT ![r].todo = @ \ {s},
                                  ![r].noData = IF what = Nothing THEN @ \cup {s} ELSE @]
  BY <1>1
<1> HIDE DEF what
<1>9. /\ Insert(s, what) \in StatementType
      /\ \A x \in Sheets : stored[s][x] # "none" => Insert(s, what)[x] = stored[s][x]
      /\ what = Nothing => Insert(s, what) = stored[s]
      /\ stored[s] = Nothing => Insert(s, what) = what
      /\ stored[s] = what => Insert(s, what) = what
  BY <1>0, <1>3, InsertAdds
<1>10. /\ stored' \in [Universe -> StatementType]
       /\ stored'[s] = Insert(s, what) /\ \A t \in Universe \ {s} : stored'[t] = stored[t]
  BY <1>0, <1>8, <1>9
<1>11. /\ screen' \in [ScreenRuns -> ScreenType]
       /\ \A q \in ScreenRuns : screen'[q].buys = screen[q].buys
       /\ \A q \in ScreenRuns : screen'[q].noData \subseteq screen[q].noData \cup {s}
       /\ what # Nothing => \A q \in ScreenRuns : screen'[q].noData = screen[q].noData
  <2> DEFINE gone == screen[r].todo \ {s}
             none == IF what = Nothing THEN screen[r].noData \cup {s} ELSE screen[r].noData
             next == [screen[r] EXCEPT !.todo = gone, !.noData = none]
  <2>1. screen[r] \in ScreenType
    BY <1>0
  <2>2. gone \subseteq Universe /\ none \subseteq Universe
    BY <2>1 DEF ScreenType
  <2>3. screen' = [screen EXCEPT ![r] = next]
    BY <1>0, <1>8
  <2>4. none \subseteq screen[r].noData \cup {s} /\ (what # Nothing => none = screen[r].noData)
    OBVIOUS
  <2>5. next \in ScreenType /\ next.noData = none /\ next.buys = screen[r].buys
    <3> HIDE DEF gone, none
    <3> QED
      BY <2>1, <2>2 DEF ScreenType
  <2> HIDE DEF next, none, gone
  <2>6. /\ screen' \in [ScreenRuns -> ScreenType]
        /\ \A q \in ScreenRuns : screen'[q] = IF q = r THEN next ELSE screen[q]
    BY <1>0, <2>3, <2>5
  <2> QED
    BY <2>4, <2>5, <2>6
<1>12. ScreeningTypeOK'
  <2>1. /\ filed' \subseteq Universe /\ absent' \subseteq Universe
        /\ caught' \subseteq Universe /\ unavailable' \subseteq Universe
    BY <1>0, <1>1, <1>2
  <2> QED
    BY <1>4, <1>10, <1>11, <2>1 DEF ScreeningTypeOK, ScreenType, StatementType
<1>13. ASSUME ~throttled'
       PROVE  /\ unavailable' \subseteq absent'
              /\ \A q \in ScreenRuns : screen'[q].noData \subseteq absent'
              /\ \A t \in Universe \ caught' : stored'[t] \in {Nothing, Preferred(t)}
  <2>1. /\ unavailable \subseteq absent
        /\ \A q \in ScreenRuns : screen[q].noData \subseteq absent
        /\ \A t \in Universe \ caught : stored[t] \in {Nothing, Preferred(t)}
    BY <1>4, <1>13 DEF ScreeningInv
  <2>2. absent \subseteq absent' /\ caught \subseteq caught'
    BY <1>1, <1>2
  <2>3. what = Nothing => s \in absent'
    BY <1>2, <1>5, <1>7, <1>13
  <2>4. \A q \in ScreenRuns : screen'[q].noData \subseteq absent'
    <3>1. CASE what = Nothing
      BY <1>11, <2>1, <2>2, <2>3, <3>1
    <3>2. CASE what # Nothing
      BY <1>11, <2>1, <2>2, <3>2
    <3> QED
      BY <3>1, <3>2
  <2>5. ASSUME NEW t \in Universe \ caught' PROVE stored'[t] \in {Nothing, Preferred(t)}
    <3>1. CASE t # s
      BY <1>10, <2>1, <2>2, <2>5, <3>1
    <3>2. CASE t = s
      <4>1. there \in {NotFiled, AlwaysFiled} /\ stored[s] \in {Nothing, Preferred(s)}
        BY <1>1, <2>1, <2>2, <2>5, <3>2
      <4>2. CASE there = NotFiled
        BY <1>6, <1>9, <1>10, <3>2, <4>1, <4>2
      <4>3. CASE there = AlwaysFiled
        <5>1. what = Preferred(s)
          BY <1>5, <1>13, <4>3
        <5>2. stored[s] = Nothing \/ stored[s] = what
          BY <4>1, <5>1
        <5>3. stored'[s] = what
          BY <1>9, <1>10, <5>2
        <5> QED
          BY <3>2, <5>1, <5>3
      <4> QED
        BY <4>1, <4>2, <4>3
    <3> QED
      BY <3>1, <3>2
  <2> QED
    BY <1>2, <2>1, <2>2, <2>4, <2>5
<1>14. ASSUME NEW q \in ScreenRuns PROVE MayBuy(screen[q].buys)'
  <2> DEFINE S == screen[q].buys
  <2>1. S \in SUBSET Universe /\ MayBuy(S) /\ screen'[q].buys = S
    BY <1>0, <1>11, <1>14, ScreenTypes DEF ScreeningInv
  <2>2. \A t \in Universe, x \in Sheets : stored[t][x] # "none" => stored'[t][x] = stored[t][x]
    BY <1>9, <1>10
  <2>3. ASSUME NEW t \in S, NEW e \in Divs, AllFrom(t, e)' PROVE Passes(t, Whole(t, e))
    <3>1. t \in Universe
      BY <2>1
    <3>2. AllFrom(t, e)
      BY <2>2, <2>3, <3>1 DEF AllFrom
    <3> QED
      BY <2>1, <3>2 DEF MayBuy
  <2>4. TopN > 0 => Cardinality(S) < 2 * TopN
    BY <2>1 DEF MayBuy
  <2>5. \A t \in screen'[q].buys : \A e \in Divs : AllFrom(t, e)' => Passes(t, Whole(t, e))'
    BY <2>1, <2>3 DEF Passes, Whole
  <2> QED
    BY <2>1, <2>4, <2>5 DEF MayBuy
<1>15. \A t \in Universe : Preferred(t)' = Preferred(t)
  BY DEF Preferred, Whole
<1> QED
  BY <1>12, <1>13, <1>14, <1>15 DEF ScreeningInv

\* What Select buys passes on the whole statement, and is fewer than 2 * TopN.
LEMMA SelectedMayBeBought ==
  ASSUME ScreeningTypeOK, NEW ret \in PastReturns
  PROVE  LET S == BuySignals(Screened \cap DOMAIN ret, ret)
         IN  S \subseteq Universe /\ MayBuy(S)
<1> DEFINE from == Screened \cap DOMAIN ret
           S == BuySignals(from, ret)
<1>1. from \subseteq Universe /\ \A s \in from : Passes(s, stored[s])
  BY DEF Screened
<1>2. IsFiniteSet(from) /\ \A s \in from : ret[s] \in Int
  <2>1. PICK D \in SUBSET Universe : ret \in [D -> StockReturns]
    BY DEF PastReturns
  <2>2. \A s \in from : ret[s] \in StockReturns
    BY <2>1
  <2> QED
    BY <1>1, <2>2, ScreeningAssumption, FS_Subset
<1> HIDE DEF from
<1>3. S \subseteq from
  BY DEF BuySignals
<1>4. TopN > 0 => Cardinality(S) < 2 * TopN
  BY <1>2, RankingOf
<1> HIDE DEF S
<1>5. ASSUME NEW s \in S, NEW d \in Divs, AllFrom(s, d) PROVE Passes(s, Whole(s, d))
  <2>1. s \in Universe /\ Passes(s, stored[s])
    BY <1>1, <1>3
  <2>2. stored[s] \in [Sheets -> Divs \cup {"none"}]
    BY <2>1 DEF ScreeningTypeOK
  <2>3. \A x \in Sheets : stored[s][x] \in {d, "none"}
    BY <1>5 DEF AllFrom
  <2> DEFINE st == stored[s]
  <2>4. st \in [Sheets -> Divs \cup {"none"}] /\ Passes(s, st) /\ \A x \in Sheets : st[x] \in {d, "none"}
    BY <2>1, <2>2, <2>3
  <2> HIDE DEF st
  <2> QED
    BY <2>1, <2>4, WholePassesToo
<1>6. S \subseteq Universe /\ MayBuy(S)
  BY <1>1, <1>3, <1>4, <1>5 DEF MayBuy
<1> QED
  BY <1>6 DEF S, from

\* The invariant holds at the start, and every step keeps it.
LEMMA ScreeningInvHolds == ScreeningSpec => []ScreeningInv
<1>1. ScreeningInit => ScreeningInv
  <2> SUFFICES ASSUME ScreeningInit PROVE ScreeningInv
    OBVIOUS
  <2>1. NoRun \in ScreenType /\ NoRun.noData = {} /\ NoRun.buys = {}
    BY DEF NoRun, ScreenType
  <2>2. screen \in [ScreenRuns -> ScreenType] /\ \A r \in ScreenRuns : screen[r] = NoRun
    BY <2>1 DEF ScreeningInit
  <2>3. stored \in [Universe -> [Sheets -> Divs \cup {"none"}]] /\ \A s \in Universe : stored[s] = Nothing
    BY DEF ScreeningInit, Nothing
  <2>4. ScreeningTypeOK
    BY <2>2, <2>3 DEF ScreeningInit, ScreeningTypeOK, ScreenType
  <2> QED
    BY <2>1, <2>2, <2>3, <2>4, NothingToBuy DEF ScreeningInit, ScreeningInv
<1>2. ScreeningInv /\ [ScreeningNext]_scrVars => ScreeningInv'
  <2> SUFFICES ASSUME ScreeningInv, [ScreeningNext]_scrVars PROVE ScreeningInv'
    OBVIOUS
  <2>0. /\ \A r \in ScreenRuns : screen[r] \in ScreenType /\ screen \in [ScreenRuns -> ScreenType]
        /\ NoRun \in ScreenType /\ NoRun.noData = {} /\ NoRun.buys = {}
        /\ \A r \in ScreenRuns : MayBuy(screen[r].buys)
    BY ScreenTypes DEF ScreeningInv
  <2>k. ASSUME UNCHANGED <<stored, unavailable, screen, absent, caught, throttled>>,
               filed' \subseteq Universe
        PROVE  ScreeningInv'
    <3>1. ScreeningTypeOK'
      BY <2>k DEF ScreeningInv, ScreeningTypeOK
    <3>2. \A r \in ScreenRuns : MayBuy(screen[r].buys)'
      BY <2>k DEF ScreeningInv, MayBuy, AllFrom, Passes, Whole
    <3>3. \A s \in Universe : Preferred(s)' = Preferred(s)
      BY DEF Preferred, Whole
    <3> QED
      BY <2>k, <3>1, <3>2, <3>3 DEF ScreeningInv
  <2>1. ASSUME NEW s \in Universe, File(s) PROVE ScreeningInv'
    BY <2>1, <2>k DEF File, scrHistory, ScreeningInv, ScreeningTypeOK
  <2>2. ASSUME NEW r \in ScreenRuns, BeginScreen(r) PROVE ScreeningInv'
    <3> DEFINE todo == {s \in Universe \ unavailable : stored[s] = Nothing}
               next == [NoRun EXCEPT !.pc = "fetch", !.todo = todo]
    <3>1. todo \subseteq Universe
      OBVIOUS
    <3>2. screen' = [screen EXCEPT ![r] = next] /\ UNCHANGED <<filed, stored, unavailable, scrHistory>>
      BY <2>2 DEF BeginScreen
    <3> HIDE DEF todo
    <3>3. next \in ScreenType /\ next.noData = {} /\ next.buys = {}
      BY <3>1 DEF NoRun, ScreenType
    <3> HIDE DEF next
    <3>4. MayBuy(next.buys) /\ next.noData \subseteq screen[r].noData
          /\ unavailable' \subseteq unavailable \cup screen[r].noData
      BY <3>2, <3>3, NothingToBuy
    <3> QED
      BY <3>2, <3>3, <3>4, RunStepKeeps
  <2>3. ASSUME NEW r \in ScreenRuns, MarkUnavailable(r) PROVE ScreeningInv'
    <3> DEFINE next == [NoRun EXCEPT !.pc = "score"]
    <3>1. next \in ScreenType /\ next.noData = {} /\ next.buys = {}
      BY DEF NoRun, ScreenType
    <3>2. screen' = [screen EXCEPT ![r] = next] /\ UNCHANGED <<filed, stored, scrHistory>>
          /\ unavailable' = unavailable \cup screen[r].noData
      BY <2>3 DEF MarkUnavailable
    <3> HIDE DEF next
    <3>3. MayBuy(next.buys) /\ next.noData \subseteq screen[r].noData
          /\ unavailable' \subseteq unavailable \cup screen[r].noData
      BY <3>1, <3>2, NothingToBuy
    <3> QED
      BY <3>1, <3>2, <3>3, RunStepKeeps
  <2>4. ASSUME NEW r \in ScreenRuns, NothingScored(r) PROVE ScreeningInv'
    <3> DEFINE next == [NoRun EXCEPT !.pc = "failed"]
    <3>1. next \in ScreenType /\ next.noData = {} /\ next.buys = {}
      BY DEF NoRun, ScreenType
    <3>2. screen' = [screen EXCEPT ![r] = next] /\ UNCHANGED <<filed, stored, unavailable, scrHistory>>
      BY <2>4 DEF NothingScored
    <3> HIDE DEF next
    <3>3. MayBuy(next.buys) /\ next.noData \subseteq screen[r].noData
          /\ unavailable' \subseteq unavailable \cup screen[r].noData
      BY <3>1, <3>2, NothingToBuy
    <3> QED
      BY <3>1, <3>2, <3>3, RunStepKeeps
  <2>5. ASSUME NEW r \in ScreenRuns, NEW s \in Universe, FetchFails(r, s) PROVE ScreeningInv'
    <3> DEFINE next == [screen[r] EXCEPT !.todo = @ \ {s}]
    <3>1. next \in ScreenType /\ next.noData = screen[r].noData /\ next.buys = screen[r].buys
      BY <2>0 DEF ScreenType
    <3>2. screen' = [screen EXCEPT ![r] = next] /\ UNCHANGED <<filed, stored, unavailable, scrHistory>>
      BY <2>5 DEF FetchFails, SkipStock
    <3> HIDE DEF next
    <3>3. MayBuy(next.buys) /\ next.noData \subseteq screen[r].noData
          /\ unavailable' \subseteq unavailable \cup screen[r].noData
      BY <2>0, <3>1, <3>2
    <3> QED
      BY <3>1, <3>2, <3>3, RunStepKeeps
  <2>6. ASSUME NEW r \in ScreenRuns, NEW ret \in PastReturns, Select(r, ret) PROVE ScreeningInv'
    <3> DEFINE buys == BuySignals(Screened \cap DOMAIN ret, ret)
               next == [screen[r] EXCEPT !.pc = "done", !.buys = buys]
    <3>1. buys \subseteq Universe /\ MayBuy(buys)
      BY SelectedMayBeBought DEF ScreeningInv
    <3>2. screen' = [screen EXCEPT ![r] = next] /\ UNCHANGED <<filed, stored, unavailable, scrHistory>>
      BY <2>6 DEF Select
    <3> HIDE DEF buys
    <3>3. next \in ScreenType /\ next.noData = screen[r].noData /\ next.buys = buys
      BY <2>0, <3>1 DEF ScreenType
    <3> HIDE DEF next
    <3>4. MayBuy(next.buys) /\ next.noData \subseteq screen[r].noData
          /\ unavailable' \subseteq unavailable \cup screen[r].noData
      BY <3>1, <3>2, <3>3
    <3> QED
      BY <3>2, <3>3, <3>4, RunStepKeeps
  <2>7. ASSUME NEW r \in ScreenRuns, ScreenCrash(r) \/ EndRun(r) PROVE ScreeningInv'
    <3>1. screen' = [screen EXCEPT ![r] = NoRun] /\ UNCHANGED <<filed, stored, unavailable, scrHistory>>
      BY <2>7 DEF ScreenCrash, EndRun
    <3>2. MayBuy(NoRun.buys) /\ NoRun.noData \subseteq screen[r].noData
          /\ unavailable' \subseteq unavailable \cup screen[r].noData
      BY <2>0, <3>1, NothingToBuy
    <3> QED
      BY <2>0, <3>1, <3>2, RunStepKeeps
  <2>8. CASE UNCHANGED scrVars
    BY <2>8, <2>k DEF scrVars, ScreeningInv, ScreeningTypeOK
  <2> QED
    BY <2>1, <2>2, <2>3, <2>4, <2>5, <2>6, <2>7, <2>8, FetchKeeps DEF ScreeningNext, FetchStep
<1> QED
  BY <1>1, <1>2, PTL DEF ScreeningSpec

\* As long as DART answers no request with an error status, the cache excludes only
\* stocks DART had nothing of when it was asked, and has the whole of the right
\* statement or nothing, save of a report filed amid the requests for it
\* (fetch_and_store_bulk, mark_unavailable_bulk).
THEOREM OnlyRefusalsExclude == ScreeningSpec => []OnlyRefusalExcludes
<1>1. ScreeningInv => OnlyRefusalExcludes
  BY DEF ScreeningInv, OnlyRefusalExcludes
<1> QED
  BY <1>1, ScreeningInvHolds, PTL

\* Whatever returns and ties there are, a stock is ranked in only with every stock
\* of a higher return, without ties exactly the TopN best of the rising ones are,
\* and no run ever buys 2 * TopN stocks or more (MomentumStrategy).
THEOREM SelectionIsSound == ScreeningSpec => []SelectionSound
<1>1. ScreeningInv => SelectionSound
  BY RankingIsSound DEF ScreeningInv, SelectionSound, MayBuy
<1> QED
  BY <1>1, ScreeningInvHolds, PTL

\* A stock that was bought on part of a statement - without its CIS or its IS, say -
\* reaches the threshold on the whole of it as well (FScore._get_amount,
\* _calculate_fscore), as long as all rows are of one statement.
THEOREM BoughtIsMerited == ScreeningSpec => []BoughtOnMerit
<1>1. ScreeningInv => BoughtOnMerit
  BY DEF ScreeningInv, BoughtOnMerit, MayBuy
<1> QED
  BY <1>1, ScreeningInvHolds, PTL

-----------------------------------------------------------------------------
(* Backtest: popping the closed positions                                    *)

\* `pop' gives the list after the closed positions from i on are popped, from
\* the last to the i-th.
IsPop(pop, ps, closed) ==
  pop = [i \in 1..Len(ps) + 1 |->
           IF i > Len(ps) THEN ps
           ELSE IF i \in closed THEN RemoveAt(pop[i + 1], i) ELSE pop[i + 1]]

\* There is such a function: it is built up from the last index to the first.
LEMMA PopExists ==
  ASSUME NEW ps, Len(ps) \in Nat, NEW closed
  PROVE  \E pop : IsPop(pop, ps, closed)
<1> DEFINE N == Len(ps)
           D(k) == (N + 1 - k)..(N + 1)
           Popped(g, i) == IF i > N THEN ps ELSE IF i \in closed THEN RemoveAt(g[i + 1], i) ELSE g[i + 1]
           Row(g, k) == g = [i \in D(k) |-> Popped(g, i)]
           T == {k \in Nat : \E g : Row(g, k)}
<1>1. 0 \in T
  <2> DEFINE g == [i \in D(0) |-> ps]
  <2>1. \A i \in D(0) : i > N
    OBVIOUS
  <2>2. Row(g, 0)
    BY <2>1
  <2> HIDE DEF g, Row
  <2> QED
    BY <2>2
<1>2. ASSUME NEW k \in T PROVE k + 1 \in T
  <2>1. PICK g : Row(g, k)
    OBVIOUS
  <2> DEFINE h == [i \in D(k + 1) |-> Popped(g, i)]
  <2>2. \A i \in D(k) : h[i] = g[i]
    <3>1. \A i \in D(k) : i \in D(k + 1)
      OBVIOUS
    <3>2. \A i \in D(k) : g[i] = Popped(g, i)
      BY <2>1
    <3> QED
      BY <3>1, <3>2
  <2>3. \A i \in D(k + 1) : ~(i > N) => i + 1 \in D(k)
    OBVIOUS
  <2>4. \A i \in D(k + 1) : Popped(g, i) = Popped(h, i)
    BY <2>2, <2>3
  <2>5. h = [i \in D(k + 1) |-> Popped(h, i)]
    BY <2>4
  <2>6. Row(h, k + 1)
    BY <2>5
  <2> HIDE DEF h, Row
  <2> QED
    BY <2>6
<1>3. T = Nat
  <2> HIDE DEF T
  <2>1. T \in SUBSET Nat
    BY DEF T
  <2> QED
    BY <1>1, <1>2, <2>1, Induction
<1>4. PICK g : Row(g, N)
  BY <1>3
<1>5. D(N) = 1..N + 1
  OBVIOUS
<1> QED
  BY <1>4, <1>5 DEF IsPop

\* What is left of ps after the closed positions from i on are popped: those
\* before i where they were, of the others those that are not closed.
Kept(s, ps, closed, i) ==
  /\ i - 1 <= Len(s) /\ Len(s) <= Len(ps)
  /\ \E g \in [1..Len(s) -> 1..Len(ps)] :
       /\ \A j, k \in 1..Len(s) : g[j] = g[k] => j = k
       /\ \A k \in 1..Len(s) : /\ s[k] = ps[g[k]]
                               /\ k < i => g[k] = k
                               /\ k >= i => g[k] >= i /\ g[k] \notin closed

\* What removing one element of a sequence leaves.
LEMMA RemoveAtIs ==
  ASSUME NEW R, NEW s \in Seq(R), NEW i \in 1..Len(s)
  PROVE  /\ RemoveAt(s, i) \in Seq(R) /\ Len(RemoveAt(s, i)) = Len(s) - 1
         /\ \A k \in 1..Len(s) - 1 : RemoveAt(s, i)[k] = IF k < i THEN s[k] ELSE s[k + 1]
<1> DEFINE a == SubSeq(s, 1, i - 1)
           b == SubSeq(s, i + 1, Len(s))
<1>1. Len(s) \in Nat /\ i \in Int
  OBVIOUS
<1>2. a \in Seq(R) /\ Len(a) = i - 1 /\ \A k \in 1..i - 1 : a[k] = s[k]
  BY <1>1
<1>3. b \in Seq(R) /\ Len(b) = Len(s) - i /\ \A k \in 1..Len(s) - i : b[k] = s[i + k]
  BY <1>1
<1>4. RemoveAt(s, i) = a \o b
  BY DEF RemoveAt
<1> HIDE DEF a, b
<1>5. a \o b \in Seq(R) /\ Len(a \o b) = Len(a) + Len(b)
      /\ \A k \in 1..Len(a) + Len(b) : (a \o b)[k] = IF k <= Len(a) THEN a[k] ELSE b[k - Len(a)]
  BY <1>2, <1>3, ConcatProperties
<1>6. ASSUME NEW k \in 1..Len(s) - 1 PROVE (a \o b)[k] = IF k < i THEN s[k] ELSE s[k + 1]
  <2>1. CASE k < i
    BY <1>1, <1>2, <1>3, <1>5, <2>1
  <2>2. CASE ~(k < i)
    <3>1. k - (i - 1) \in 1..Len(s) - i /\ i + (k - (i - 1)) = k + 1
      BY <1>1, <2>2
    <3>2. (a \o b)[k] = b[k - (i - 1)]
      BY <1>1, <1>2, <1>3, <1>5, <2>2
    <3> QED
      BY <1>3, <2>2, <3>1, <3>2
  <2> QED
    BY <2>1, <2>2
<1> QED
  BY <1>1, <1>2, <1>3, <1>4, <1>5, <1>6

\* One index of the loop: the i-th position is popped if it is closed.
LEMMA PopStep ==
  ASSUME NEW R, NEW ps \in Seq(R), NEW closed, NEW i \in 1..Len(ps), NEW s \in Seq(R),
         Kept(s, ps, closed, i + 1),
         NEW t, t = IF i \in closed THEN RemoveAt(s, i) ELSE s
  PROVE  t \in Seq(R) /\ Kept(t, ps, closed, i)
<1>0. Len(s) \in Nat /\ Len(ps) \in Nat /\ i \in Int /\ i <= Len(s) /\ Len(s) <= Len(ps) /\ 1 <= i
  BY DEF Kept
<1>1. PICK g \in [1..Len(s) -> 1..Len(ps)] :
        /\ \A j, k \in 1..Len(s) : g[j] = g[k] => j = k
        /\ \A k \in 1..Len(s) : /\ s[k] = ps[g[k]]
                                /\ k < i + 1 => g[k] = k
                                /\ k >= i + 1 => g[k] >= i + 1 /\ g[k] \notin closed
  BY DEF Kept
<1>2. CASE i \notin closed
  <2>1. t = s
    BY <1>2
  <2>2. \A k \in 1..Len(s) : /\ s[k] = ps[g[k]]
                             /\ k < i => g[k] = k
                             /\ k >= i => g[k] >= i /\ g[k] \notin closed
    BY <1>0, <1>1, <1>2
  <2>3. i - 1 <= Len(s)
    BY <1>0
  <2>4. Kept(s, ps, closed, i)
    BY <1>0, <1>1, <2>2, <2>3 DEF Kept
  <2> QED
    BY <2>1, <2>4
<1>3. CASE i \in closed
  <2>1. /\ t \in Seq(R) /\ Len(t) = Len(s) - 1
        /\ \A k \in 1..Len(t) : t[k] = IF k < i THEN s[k] ELSE s[k + 1]
    <3>1. i \in 1..Len(s) /\ t = RemoveAt(s, i)
      BY <1>0, <1>3
    <3>2. /\ RemoveAt(s, i) \in Seq(R) /\ Len(RemoveAt(s, i)) = Len(s) - 1
          /\ \A k \in 1..Len(s) - 1 : RemoveAt(s, i)[k] = IF k < i THEN s[k] ELSE s[k + 1]
      BY <3>1, RemoveAtIs
    <3> QED
      BY <3>1, <3>2
  <2> DEFINE f == [k \in 1..Len(t) |-> IF k < i THEN k ELSE g[k + 1]]
  <2>2. Len(t) \in Nat /\ \A k \in 1..Len(t) : k \in 1..Len(s) /\ k + 1 \in 1..Len(s)
    BY <1>0, <2>1
  <2>3. \A k \in 1..Len(t) : k < i => f[k] = k /\ f[k] \in 1..Len(ps) /\ t[k] = ps[f[k]]
    <3> SUFFICES ASSUME NEW k \in 1..Len(t), k < i
                 PROVE  f[k] = k /\ f[k] \in 1..Len(ps) /\ t[k] = ps[f[k]]
      OBVIOUS
    <3>1. f[k] = k /\ k \in 1..Len(s) /\ k < i + 1
      BY <1>0, <2>2
    <3> QED
      BY <1>0, <1>1, <2>1, <3>1
  <2>4. \A k \in 1..Len(t) : k >= i => /\ f[k] = g[k + 1] /\ f[k] \in 1..Len(ps) /\ t[k] = ps[f[k]]
                                       /\ f[k] >= i + 1 /\ f[k] \notin closed
    <3> SUFFICES ASSUME NEW k \in 1..Len(t), k >= i
                 PROVE  /\ f[k] = g[k + 1] /\ f[k] \in 1..Len(ps) /\ t[k] = ps[f[k]]
                        /\ f[k] >= i + 1 /\ f[k] \notin closed
      OBVIOUS
    <3>1. ~(k < i) /\ k + 1 \in 1..Len(s) /\ k + 1 >= i + 1
      BY <1>0, <2>2
    <3>2. f[k] = g[k + 1]
      BY <3>1
    <3> HIDE DEF f
    <3> QED
      BY <1>1, <2>1, <3>1, <3>2
  <2>5. f \in [1..Len(t) -> 1..Len(ps)]
    BY <1>0, <2>2, <2>3, <2>4
  <2> HIDE DEF f
  <2>6. ASSUME NEW j \in 1..Len(t), NEW k \in 1..Len(t), f[j] = f[k] PROVE j = k
    <3>1. CASE j < i /\ k < i
      BY <2>3, <2>6, <3>1
    <3>2. CASE j >= i /\ k >= i
      <4>1. g[j + 1] = g[k + 1] /\ j + 1 \in 1..Len(s) /\ k + 1 \in 1..Len(s)
        BY <2>2, <2>4, <2>6, <3>2
      <4>2. j + 1 = k + 1
        BY <1>1, <4>1
      <4> QED
        BY <4>2
    <3>3. CASE j < i /\ k >= i
      BY <1>0, <2>3, <2>4, <2>6, <3>3
    <3>4. CASE j >= i /\ k < i
      BY <1>0, <2>3, <2>4, <2>6, <3>4
    <3> QED
      BY <1>0, <3>1, <3>2, <3>3, <3>4
  <2>7. \A k \in 1..Len(t) : /\ t[k] = ps[f[k]]
                             /\ k < i => f[k] = k
                             /\ k >= i => f[k] >= i /\ f[k] \notin closed
    <3> SUFFICES ASSUME NEW k \in 1..Len(t)
                 PROVE  /\ t[k] = ps[f[k]]
                        /\ k < i => f[k] = k
                        /\ k >= i => f[k] >= i /\ f[k] \notin closed
      OBVIOUS
    <3>1. k < i \/ k >= i
      BY <1>0
    <3> QED
      BY <1>0, <2>3, <2>4, <2>5, <3>1
  <2>8. i - 1 <= Len(t) /\ Len(t) <= Len(ps)
    BY <1>0, <2>1
  <2> QED
    BY <2>1, <2>5, <2>6, <2>7, <2>8 DEF Kept
<1> QED
  BY <1>2, <1>3

\* What is left after the whole loop: some of the positions, each once, and
\* none that is closed.
LEMMA PopClosedKeeps ==
  ASSUME NEW R, NEW ps \in Seq(R), NEW closed
  PROVE  /\ PopClosed(ps, closed) \in Seq(R)
         /\ Kept(PopClosed(ps, closed), ps, closed, 1)
<1>0. Len(ps) \in Nat
  OBVIOUS
<1> DEFINE N == Len(ps)
           pop == CHOOSE q : IsPop(q, ps, closed)
<1>1. IsPop(pop, ps, closed)
  BY <1>0, PopExists
<1>2. PopClosed(ps, closed) = pop[1]
  BY DEF PopClosed, IsPop
<1> HIDE DEF pop
<1> DEFINE P(i) == pop[i] \in Seq(R) /\ Kept(pop[i], ps, closed, i)
           T == {k \in Nat : k <= N => P(N + 1 - k)}
<1>3. 0 \in T
  <2>1. pop[N + 1] = ps
    BY <1>0, <1>1 DEF IsPop
  <2>2. Kept(ps, ps, closed, N + 1)
    <3> DEFINE g == [k \in 1..N |-> k]
    <3>1. g \in [1..N -> 1..N] /\ \A k \in 1..N : g[k] = k
      OBVIOUS
    <3> HIDE DEF g
    <3>2. /\ \A j, k \in 1..N : g[j] = g[k] => j = k
          /\ \A k \in 1..N : /\ ps[k] = ps[g[k]]
                             /\ k < N + 1 => g[k] = k
                             /\ k >= N + 1 => g[k] >= N + 1 /\ g[k] \notin closed
      BY <1>0, <3>1
    <3>3. N + 1 - 1 <= N /\ N <= N
      BY <1>0
    <3> QED
      BY <3>1, <3>2, <3>3 DEF Kept
  <2>3. N + 1 - 0 = N + 1
    BY <1>0
  <2> QED
    BY <2>1, <2>2, <2>3
<1>4. ASSUME NEW k \in T PROVE k + 1 \in T
  <2> SUFFICES ASSUME k + 1 <= N PROVE P(N + 1 - (k + 1))
    OBVIOUS
  <2> DEFINE i == N + 1 - (k + 1)
  <2>1. k \in Nat /\ k <= N /\ i \in 1..N /\ i \in 1..N + 1 /\ ~(i > N) /\ i + 1 = N + 1 - k
    BY <1>0
  <2>2. P(i + 1)
    BY <2>1
  <2> HIDE DEF i
  <2>3. pop[i] = IF i \in closed THEN RemoveAt(pop[i + 1], i) ELSE pop[i + 1]
    BY <1>1, <2>1 DEF IsPop
  <2>4. P(i)
    BY <2>1, <2>2, <2>3, PopStep
  <2> QED
    BY <2>4 DEF i
<1>5. T = Nat
  <2> HIDE DEF T
  <2>1. T \in SUBSET Nat
    BY DEF T
  <2> QED
    BY <1>3, <1>4, <2>1, Induction
<1>6. P(N + 1 - N)
  BY <1>0, <1>5
<1>7. N + 1 - N = 1
  BY <1>0
<1> QED
  BY <1>2, <1>6, <1>7

-----------------------------------------------------------------------------
(* Backtest: the position book                                               *)

BookType == [stock: Stocks, held: 0..MaxHolding, traded: Nat]

\* The inductive invariant.  A position was never held for fewer days than it
\* could have been sold on, so that holding it for MaxHolding days comes first.
BookInv ==
  /\ BacktestTypeOK /\ BookSound /\ NeverOverheld
  /\ \A i \in DOMAIN positions : positions[i].traded <= positions[i].held

\* What the exit phase decides about one position.
LEMMA AgedIs ==
  ASSUME BookInv, NEW today \in SUBSET Stocks
  PROVE  /\ Aged(today) \in Seq(BookType) /\ Len(Aged(today)) = Len(positions)
         /\ \A i \in 1..Len(positions) :
              LET p == positions[i]
                  q == Aged(today)[i]
              IN /\ q.stock = p.stock /\ q.traded <= q.held
                 /\ q.held < MaxHolding \/ p.stock \notin today => q.traded < MaxHolding
<1>0. positions \in Seq(BookType) /\ Len(positions) \in Nat /\ DOMAIN positions = 1..Len(positions)
      /\ MaxHolding \in Nat \ {0}
  BY BacktestAssumption DEF BookInv, BacktestTypeOK, BookType
<1> DEFINE aged == Aged(today)
<1>1. ASSUME NEW i \in 1..Len(positions)
      PROVE  /\ aged[i] \in BookType
             /\ aged[i].stock = positions[i].stock /\ aged[i].traded <= aged[i].held
             /\ aged[i].held < MaxHolding \/ positions[i].stock \notin today => aged[i].traded < MaxHolding
  <2> DEFINE p == positions[i]
             held == IF p.held < MaxHolding THEN p.held + 1 ELSE p.held
             traded == IF p.stock \in today THEN p.traded + 1 ELSE p.traded
  <2>1. p \in BookType /\ p.traded <= p.held /\ p.traded < MaxHolding
    BY <1>0 DEF BookInv, NeverOverheld
  <2>2. aged[i] = [p EXCEPT !.held = held, !.traded = traded]
    BY <1>0 DEF Aged
  <2>3. /\ p.stock \in Stocks /\ p.held \in 0..MaxHolding /\ p.traded \in Nat
        /\ p = [stock |-> p.stock, held |-> p.held, traded |-> p.traded]
    BY <2>1 DEF BookType
  <2>4. /\ held \in 0..MaxHolding /\ traded \in Nat /\ traded <= held
        /\ held < MaxHolding \/ p.stock \notin today => traded < MaxHolding
    <3> HIDE DEF p
    <3> QED
      BY <1>0, <2>1, <2>3
  <2> HIDE DEF held, traded
  <2>5. aged[i] = [stock |-> p.stock, held |-> held, traded |-> traded]
    BY <2>2, <2>3
  <2> HIDE DEF p, aged
  <2>6. aged[i] \in BookType /\ aged[i].stock = p.stock /\ aged[i].held = held /\ aged[i].traded = traded
    BY <2>3, <2>4, <2>5 DEF BookType
  <2> QED
    BY <2>4, <2>6 DEF p
<1>2. aged = [i \in 1..Len(positions) |-> aged[i]]
  BY <1>0 DEF Aged
<1>3. aged \in Seq(BookType) /\ Len(aged) = Len(positions)
  <2> HIDE DEF aged
  <2>1. aged \in [1..Len(positions) -> BookType]
    BY <1>1, <1>2
  <2> QED
    BY <1>0, <2>1
<1> QED
  BY <1>1, <1>3

\* The exit phase keeps the invariant.
LEMMA ExitsKeep ==
  ASSUME BookInv, NEW gap \in Gaps, NEW today \in SUBSET Stocks,
         NEW hit \in SUBSET (today \cap Holding), Exits(gap, today, hit)
  PROVE  BookInv'
<1> DEFINE n == Len(positions)
           aged == Aged(today)
           closed == {i \in DOMAIN aged : should_exit(aged[i], today, hit)}
           sold == {aged[i].stock : i \in closed}
<1>0. /\ positions \in Seq(BookType) /\ n \in Nat /\ DOMAIN positions = 1..n /\ MaxHolding \in Nat \ {0}
      /\ MaxPositions \in Nat /\ Cooldown \in Nat /\ Lookback \in Nat /\ Cooldown <= Lookback
      /\ gap \in Nat \ {0} /\ exitAge \in [Stocks -> 0..LongAgo] /\ LongAgo = Lookback + 1
  BY BacktestAssumption DEF BookInv, BacktestTypeOK, BookType, LongAgo
<1>1. /\ aged \in Seq(BookType) /\ Len(aged) = n
      /\ \A i \in 1..n :
           /\ aged[i].stock = positions[i].stock /\ aged[i].traded <= aged[i].held
           /\ aged[i].held < MaxHolding \/ positions[i].stock \notin today => aged[i].traded < MaxHolding
  BY AgedIs
<1>2. /\ positions' = PopClosed(aged, closed)
      /\ exitAge' = [s \in Stocks |-> IF s \in sold THEN 0
                                      ELSE IF exitAge[s] + gap > Lookback THEN LongAgo
                                      ELSE exitAge[s] + gap]
      /\ trading' = today /\ phase' = "entry" /\ broke' = (broke /\ closed = {})
  BY DEF Exits
<1> HIDE DEF aged
<1>3. DOMAIN aged = 1..n
  BY <1>1
<1>4. \A i \in 1..n : i \notin closed =>
        aged[i].stock \notin today \/ ~(aged[i].held >= MaxHolding)
  BY <1>3 DEF should_exit
<1> HIDE DEF closed
<1>5. positions' \in Seq(BookType) /\ Kept(positions', aged, closed, 1)
  BY <1>1, <1>2, PopClosedKeeps
<1> DEFINE m == Len(positions')
<1>6. m \in Nat /\ DOMAIN positions' = 1..m /\ m <= n
  BY <1>1, <1>5 DEF Kept
<1>7. PICK g \in [1..m -> 1..n] :
        /\ \A j, k \in 1..m : g[j] = g[k] => j = k
        /\ \A k \in 1..m : positions'[k] = aged[g[k]] /\ g[k] \notin closed
  BY <1>1, <1>5, <1>6 DEF Kept
<1>8. \A k \in 1..m : /\ g[k] \in 1..n /\ positions'[k].stock = positions[g[k]].stock
                      /\ positions'[k].traded <= positions'[k].held
                      /\ positions'[k].traded < MaxHolding
  <2> SUFFICES ASSUME NEW k \in 1..m
               PROVE  /\ g[k] \in 1..n /\ positions'[k].stock = positions[g[k]].stock
                      /\ positions'[k].traded <= positions'[k].held
                      /\ positions'[k].traded < MaxHolding
    OBVIOUS
  <2>1. g[k] \in 1..n /\ positions'[k] = aged[g[k]] /\ g[k] \notin closed
    BY <1>7
  <2>2. aged[g[k]] \in BookType
    BY <1>1, <2>1
  <2>3. aged[g[k]].held \in Int
    BY <1>0, <2>2 DEF BookType
  <2>4. aged[g[k]].stock \notin today \/ aged[g[k]].held < MaxHolding
    BY <1>0, <1>4, <2>1, <2>3
  <2> QED
    BY <1>1, <2>1, <2>4
<1>9. BacktestTypeOK'
  <2>1. exitAge' \in [Stocks -> 0..LongAgo]
    <3>1. \A s \in Stocks : exitAge'[s] \in 0..LongAgo
      BY <1>0, <1>2
    <3> QED
      BY <1>2, <3>1
  <2>2. broke' \in BOOLEAN
    BY <1>2
  <2>3. positions' \in Seq([stock: Stocks, held: 0..MaxHolding, traded: Nat])
    BY <1>5 DEF BookType
  <2> QED
    BY <1>2, <2>1, <2>2, <2>3 DEF BacktestTypeOK, LongAgo
<1>10. BookSound'
  <2>1. m <= MaxPositions
    BY <1>0, <1>6 DEF BookInv, BookSound
  <2>2. \A i, j \in 1..n : positions[i].stock = positions[j].stock => i = j
    BY <1>0 DEF BookInv, BookSound
  <2>3. \A i, j \in 1..m : positions'[i].stock = positions'[j].stock => i = j
    BY <1>7, <1>8, <2>2
  <2>4. ASSUME NEW k \in 1..m PROVE exitAge'[positions'[k].stock] > Cooldown
    <3> DEFINE s == positions'[k].stock
    <3>1. g[k] \in 1..n /\ s = positions[g[k]].stock /\ g[k] \notin closed
      BY <1>7, <1>8
    <3>2. s \in Stocks /\ exitAge[s] > Cooldown
      <4>1. positions[g[k]] \in BookType
        BY <1>0, <3>1
      <4> QED
        BY <1>0, <3>1, <4>1 DEF BookInv, BookSound, Holding, BookType
    <3>3. s \notin sold
      <4> SUFFICES ASSUME NEW i \in closed, aged[i].stock = s PROVE FALSE
        OBVIOUS
      <4>1. i \in 1..n
        BY <1>3 DEF closed
      <4>2. positions[i].stock = positions[g[k]].stock
        BY <1>1, <3>1, <4>1
      <4> QED
        BY <2>2, <3>1, <4>1, <4>2
    <3> HIDE DEF s, sold
    <3>4. exitAge'[s] = IF exitAge[s] + gap > Lookback THEN LongAgo ELSE exitAge[s] + gap
      BY <1>2, <3>2, <3>3
    <3>5. exitAge[s] \in Int
      BY <1>0, <3>2
    <3>6. exitAge'[s] > Cooldown
      BY <1>0, <3>2, <3>4, <3>5
    <3> QED
      BY <3>6 DEF s
  <2>5. (\A s \in Holding : exitAge[s] > Cooldown)'
    BY <1>6, <2>4 DEF Holding
  <2> QED
    BY <1>6, <2>1, <2>3, <2>5 DEF BookSound
<1>11. NeverOverheld' /\ (\A i \in DOMAIN positions : positions[i].traded <= positions[i].held)'
  BY <1>6, <1>8 DEF NeverOverheld
<1> QED
  BY <1>9, <1>10, <1>11 DEF BookInv

\* What is picked of the candidates, and how many.
LEMMA LowestIs ==
  ASSUME NEW S, IsFiniteSet(S), NEW ret, NEW n \in Nat, NEW T \in Lowest(S, ret, n)
  PROVE  T \subseteq S /\ IsFiniteSet(T) /\ Cardinality(T) \in Nat /\ Cardinality(T) <= n
<1>1. T \in SUBSET S /\ Cardinality(T) = IF n < Cardinality(S) THEN n ELSE Cardinality(S)
  BY DEF Lowest
<1>2. IsFiniteSet(T) /\ Cardinality(T) \in Nat /\ Cardinality(S) \in Nat
  BY <1>1, FS_Subset, FS_CardinalityType
<1> QED
  BY <1>1, <1>2

\* Every candidate is a stock that is not held and was not sold within the cooldown.
LEMMA SignalsAre ==
  ASSUME BookInv, NEW known \in SUBSET Stocks, NEW spike, NEW ret, DOMAIN ret = known,
         NEW signals \in EntrySignals(ret, spike)
  PROVE  /\ signals \subseteq Stocks /\ IsFiniteSet(signals)
         /\ \A s \in signals : s \notin Holding /\ exitAge[s] > Cooldown
<1>1. PICK T \in scan_from_data(ret, spike) : signals = T \ (Holding \cup RecentExits)
  BY DEF EntrySignals
<1>2. T \subseteq DOMAIN ret
  BY DEF scan_from_data, Lowest
<1>3. signals \subseteq Stocks
  BY <1>1, <1>2
<1>4. \A s \in signals : s \notin Holding /\ s \notin RecentExits
  BY <1>1
<1>5. ASSUME NEW s \in signals PROVE exitAge[s] > Cooldown
  <2>1. s \in Stocks /\ exitAge[s] \in 0..LongAgo /\ LongAgo \in Nat
        /\ Cooldown \in Nat /\ Lookback \in Nat /\ Cooldown <= Lookback
    BY <1>3, BacktestAssumption DEF BookInv, BacktestTypeOK, LongAgo
  <2>2. ~(exitAge[s] <= Lookback /\ exitAge[s] <= Cooldown)
    BY <1>4, <2>1 DEF RecentExits
  <2> DEFINE a == exitAge[s]
  <2>3. a \in Int /\ ~(a <= Lookback /\ a <= Cooldown)
    BY <2>1, <2>2
  <2> HIDE DEF a
  <2>4. a > Cooldown
    BY <2>1, <2>3
  <2> QED
    BY <2>4 DEF a
<1>6. IsFiniteSet(signals)
  BY <1>3, BacktestAssumption, FS_Subset
<1> QED
  BY <1>3, <1>4, <1>5, <1>6

\* The entry phase keeps the invariant.
LEMMA EntriesKeep ==
  ASSUME BookInv, NEW known \in SUBSET Stocks, NEW spike \in SUBSET known,
         NEW ret \in [known -> Moves], Entries(ret, spike)
  PROVE  BookInv'
<1> DEFINE n == Len(positions)
           free == MaxPositions - n
<1>0. /\ positions \in Seq(BookType) /\ n \in Nat /\ DOMAIN positions = 1..n /\ n < MaxPositions
      /\ MaxHolding \in Nat \ {0} /\ MaxPositions \in Nat /\ free \in Nat
  BY BacktestAssumption DEF BookInv, BacktestTypeOK, BookType, Entries
<1>1. PICK signals \in EntrySignals(ret, spike) :
      \E picked \in Lowest(signals, ret, free) :
      \E entered \in SetToSeqs(IF broke THEN {} ELSE picked \cap trading) :
        /\ positions' = positions \o [i \in DOMAIN entered |-> Position(entered[i])]
        /\ broke' \in CashAfter(Cardinality(picked), entered)
  BY DEF Entries
<1>1a. PICK picked \in Lowest(signals, ret, free) :
      \E entered \in SetToSeqs(IF broke THEN {} ELSE picked \cap trading) :
        /\ positions' = positions \o [i \in DOMAIN entered |-> Position(entered[i])]
        /\ broke' \in CashAfter(Cardinality(picked), entered)
  BY <1>1
<1>1b. PICK entered \in SetToSeqs(IF broke THEN {} ELSE picked \cap trading) :
        /\ positions' = positions \o [i \in DOMAIN entered |-> Position(entered[i])]
        /\ broke' \in CashAfter(Cardinality(picked), entered)
  BY <1>1a
<1>2. phase' = "exit" /\ UNCHANGED <<trading, exitAge>>
  BY DEF Entries
<1>3. DOMAIN ret = known
  OBVIOUS
<1>4. /\ signals \subseteq Stocks /\ IsFiniteSet(signals)
      /\ \A s \in signals : s \notin Holding /\ exitAge[s] > Cooldown
  BY <1>3, SignalsAre
<1>5. picked \subseteq signals /\ IsFiniteSet(picked) /\ Cardinality(picked) \in Nat /\ Cardinality(picked) <= free
  BY <1>0, <1>4, LowestIs
<1> DEFINE in == IF broke THEN {} ELSE picked \cap trading
           c == Cardinality(in)
<1>6. in \subseteq signals /\ c \in Nat /\ c <= free
  <2>1. in \in SUBSET picked
    OBVIOUS
  <2>2. IsFiniteSet(in) /\ c \in Nat /\ c <= Cardinality(picked)
    BY <1>5, <2>1, FS_Subset, FS_CardinalityType
  <2> HIDE DEF in, c
  <2> QED
    BY <1>0, <1>5, <2>1, <2>2
<1>7. entered \in [1..c -> in] /\ \A i, j \in 1..c : i # j => entered[i] # entered[j]
  BY DEF SetToSeqs
<1> HIDE DEF in, c, free
<1> DEFINE added == [i \in 1..c |-> Position(entered[i])]
<1>8. /\ \A i \in 1..c : /\ entered[i] \in signals /\ entered[i] \in Stocks
                         /\ added[i] \in BookType /\ added[i].stock = entered[i]
                         /\ added[i].held = 0 /\ added[i].traded = 0
  BY <1>0, <1>4, <1>6, <1>7 DEF Position, BookType
<1>9. added \in Seq(BookType) /\ Len(added) = c
  <2>1. added \in [1..c -> BookType]
    BY <1>8
  <2> HIDE DEF added
  <2> QED
    BY <1>6, <2>1
<1>10. positions' = positions \o added
  BY <1>1b, <1>7
<1> HIDE DEF added
<1> DEFINE m == Len(positions')
<1>11. /\ positions' \in Seq(BookType) /\ m = n + c /\ DOMAIN positions' = 1..n + c
       /\ \A i \in 1..n + c : positions'[i] = IF i <= n THEN positions[i] ELSE added[i - n]
  <2>1. /\ positions \o added \in Seq(BookType) /\ Len(positions \o added) = n + c
        /\ \A i \in 1..n + c : (positions \o added)[i] = IF i <= n THEN positions[i] ELSE added[i - n]
    BY <1>0, <1>9, ConcatProperties
  <2>2. DOMAIN (positions \o added) = 1..n + c
    BY <2>1
  <2> QED
    BY <1>10, <2>1, <2>2
<1>12. ASSUME NEW i \in 1..n + c, i <= n
       PROVE  i \in 1..n /\ positions'[i] = positions[i] /\ positions'[i].stock \in Holding
  <2>1. i \in 1..n
    BY <1>0, <1>6, <1>12
  <2>2. positions'[i] = positions[i]
    BY <1>11, <1>12
  <2>3. positions[i].stock \in Holding
    BY <1>0, <2>1 DEF Holding
  <2> QED
    BY <2>1, <2>2, <2>3
<1>13. ASSUME NEW i \in 1..n + c, ~(i <= n)
       PROVE  /\ i - n \in 1..c /\ positions'[i].stock = entered[i - n]
              /\ positions'[i].held = 0 /\ positions'[i].traded = 0
              /\ entered[i - n] \in signals
  <2>1. i - n \in 1..c
    BY <1>0, <1>6, <1>13
  <2>2. positions'[i] = added[i - n]
    BY <1>11, <1>13
  <2> QED
    BY <1>8, <2>1, <2>2
<1>14. BacktestTypeOK'
  <2>1. positions' \in Seq([stock: Stocks, held: 0..MaxHolding, traded: Nat])
    BY <1>11 DEF BookType
  <2>2. broke' \in BOOLEAN
    BY <1>1b DEF CashAfter, BookInv, BacktestTypeOK
  <2> QED
    BY <1>2, <2>1, <2>2 DEF BookInv, BacktestTypeOK, LongAgo
<1>15. BookSound'
  <2>1. m <= MaxPositions
    BY <1>0, <1>6, <1>11 DEF free
  <2>2. ASSUME NEW i \in 1..n + c, NEW j \in 1..n + c, positions'[i].stock = positions'[j].stock
        PROVE  i = j
    <3>1. CASE i <= n /\ j <= n
      <4>1. i \in 1..n /\ j \in 1..n /\ positions[i].stock = positions[j].stock
        BY <1>12, <2>2, <3>1
      <4> QED
        BY <1>0, <4>1 DEF BookInv, BookSound
    <3>2. CASE i <= n /\ ~(j <= n)
      BY <1>4, <1>12, <1>13, <2>2, <3>2
    <3>3. CASE ~(i <= n) /\ j <= n
      BY <1>4, <1>12, <1>13, <2>2, <3>3
    <3>4. CASE ~(i <= n) /\ ~(j <= n)
      <4>1. i - n \in 1..c /\ j - n \in 1..c /\ entered[i - n] = entered[j - n]
        BY <1>13, <2>2, <3>4
      <4>2. i - n = j - n
        BY <1>7, <4>1
      <4> QED
        BY <1>0, <4>2
    <3> QED
      BY <3>1, <3>2, <3>3, <3>4
  <2>3. ASSUME NEW i \in 1..n + c PROVE exitAge'[positions'[i].stock] > Cooldown
    <3>1. exitAge' = exitAge
      BY <1>2
    <3>2. \A s \in Holding : exitAge[s] > Cooldown
      BY DEF BookInv, BookSound
    <3>3. CASE i <= n
      BY <1>12, <3>1, <3>2, <3>3
    <3>4. CASE ~(i <= n)
      BY <1>4, <1>13, <3>1, <3>4
    <3> QED
      BY <3>3, <3>4
  <2>4. (\A s \in Holding : exitAge[s] > Cooldown)'
    BY <1>11, <2>3 DEF Holding
  <2> QED
    BY <1>11, <2>1, <2>2, <2>4 DEF BookSound
<1>16. \A i \in 1..n + c : positions'[i].traded < MaxHolding /\ positions'[i].traded <= positions'[i].held
  <2> SUFFICES ASSUME NEW i \in 1..n + c
               PROVE  positions'[i].traded < MaxHolding /\ positions'[i].traded <= positions'[i].held
    OBVIOUS
  <2>1. CASE i <= n
    BY <1>0, <1>12, <2>1 DEF BookInv, NeverOverheld
  <2>2. CASE ~(i <= n)
    BY <1>0, <1>13, <2>2
  <2> QED
    BY <2>1, <2>2
<1>17. NeverOverheld' /\ (\A i \in DOMAIN positions : positions[i].traded <= positions[i].held)'
  BY <1>11, <1>16 DEF NeverOverheld
<1> QED
  BY <1>14, <1>15, <1>17 DEF BookInv

\* The invariant holds at the start, and every phase of every day keeps it.
LEMMA BookInvHolds == BacktestSpec => []BookInv
<1>1. BacktestInit => BookInv
  <2> SUFFICES ASSUME BacktestInit PROVE BookInv
    OBVIOUS
  <2>1. positions = <<>> /\ Len(positions) = 0 /\ DOMAIN positions = {} /\ MaxPositions \in Nat
    BY BacktestAssumption DEF BacktestInit
  <2>2. exitAge \in [Stocks -> 0..LongAgo]
    BY BacktestAssumption DEF BacktestInit, LongAgo
  <2>3. BacktestTypeOK
    <3>1. positions \in Seq([stock: Stocks, held: 0..MaxHolding, traded: Nat])
      BY <2>1, EmptySeq
    <3>2. broke \in BOOLEAN /\ phase \in {"exit", "entry"} /\ trading \subseteq Stocks
      BY DEF BacktestInit
    <3> QED
      BY <2>2, <3>1, <3>2 DEF BacktestTypeOK
  <2>4. BookSound
    BY <2>1 DEF BookSound, Holding
  <2> QED
    BY <2>1, <2>3, <2>4 DEF BookInv, NeverOverheld
<1>2. BookInv /\ [BacktestNext]_btVars => BookInv'
  <2> SUFFICES ASSUME BookInv, [BacktestNext]_btVars PROVE BookInv'
    OBVIOUS
  <2>1. CASE NoEntries \/ UNCHANGED btVars
    <3>1. UNCHANGED <<positions, exitAge, trading, broke>> /\ phase' \in {"exit", "entry"}
      BY <2>1 DEF NoEntries, btVars, BookInv, BacktestTypeOK
    <3>2. BacktestTypeOK'
      BY <3>1 DEF BookInv, BacktestTypeOK, LongAgo
    <3>3. BookSound' /\ NeverOverheld'
      BY <3>1 DEF BookInv, BookSound, NeverOverheld, Holding
    <3> QED
      BY <3>1, <3>2, <3>3 DEF BookInv
  <2> QED
    BY <2>1, ExitsKeep, EntriesKeep DEF BacktestNext
<1> QED
  BY <1>1, <1>2, PTL DEF BacktestSpec

\* Whatever the prices, the suspensions and the days between two trading days,
\* the book of _run_direct_trade holds no stock twice, at most MaxPositions
\* stocks, and none that was sold within the cooldown.
THEOREM BookIsSound == BacktestSpec => []BookSound
<1>1. BookInv => BookSound
  BY DEF BookInv
<1> QED
  BY <1>1, BookInvHolds, PTL

\* However often a stock is suspended, should_exit lets no position survive
\* MaxHolding days on which it could have been sold.
THEOREM NobodyIsOverheld == BacktestSpec => []NeverOverheld
<1>1. BookInv => NeverOverheld
  BY DEF BookInv
<1> QED
  BY <1>1, BookInvHolds, PTL
=============================================================================
