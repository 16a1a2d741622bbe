------------------------ MODULE RealtimeClientProofs ------------------------
(***************************************************************************)
(* Proofs that the loop of RealtimeClient is typed, that the feed of an    *)
(* open connection is what the client believes it to be, and that the loop *)
(* gives up only after MAX_RECONNECT_ATTEMPTS + 1 failures in a row, for   *)
(* every set of stock codes and every limit.                               *)
(***************************************************************************)
EXTENDS RealtimeClient, TLAPS

\* Only a loop past connect has an open socket, and a loop that receives has
\* come to all its codes.
LoopAndSocket ==
  /\ ws = "open" => loop \in {"resubscribe", "receive"}
  /\ loop # "resubscribe" => todo = {}

\* FeedFollowsCodes before the resubscription is through: a code that is neither
\* sent nor refused is still to be resubscribed.
FeedPartial ==
  ws = "open" =>
    /\ feed \subseteq codes /\ refused \subseteq codes
    /\ feed \cap refused = {}
    /\ codes \ (feed \cup refused) \subseteq todo

\* The counter of the code counts the failures in a row, a loop with a failure
\* to spare has not ended, and a shutdown clears _running first.
CounterSound ==
  /\ streak = attempts
  /\ attempts > MaxReconnect => loop = "ended"
  /\ loop = "ended" /\ running => attempts > MaxReconnect
  /\ shutdown # "no" => ~running

RealtimeInv == RealtimeTypeOK /\ LoopAndSocket /\ FeedPartial /\ CounterSound

-----------------------------------------------------------------------------
\* lifespan starts with no socket, no code and no failure.
LEMMA InitInv == RealtimeInit => RealtimeInv
  BY RealtimeAssumption
     DEF RealtimeInit, RealtimeInv, RealtimeTypeOK, LoopAndSocket, FeedPartial, CounterSound

-----------------------------------------------------------------------------
\* Every step keeps the types; the counter stops at the limit because the loop
\* does.
LEMMA TypeStep == RealtimeInv /\ [RealtimeNext]_rtVars => RealtimeTypeOK'
<1> SUFFICES ASSUME RealtimeInv, [RealtimeNext]_rtVars PROVE RealtimeTypeOK'
  OBVIOUS
<1> USE RealtimeAssumption DEF RealtimeInv, RealtimeTypeOK
<1>1. CASE Connect
  BY <1>1 DEF Connect, AttemptsAfterConnect, ToResubscribe
<1>2. CASE ConnectFails
  BY <1>2 DEF ConnectFails
<1>3. ASSUME NEW c \in Codes, NEW accepted \in BOOLEAN, Resubscribe(c, accepted)
      PROVE  RealtimeTypeOK'
  BY <1>3 DEF Resubscribe, Subscribed
<1>4. CASE LoopBreaks
  BY <1>4 DEF LoopBreaks
<1>5. CASE AfterFailure
  BY <1>5 DEF AfterFailure, CounterSound
<1>6. CASE Wake
  BY <1>6 DEF Wake
<1>7. CASE MessageFails
  BY <1>7 DEF MessageFails
<1>8. ASSUME NEW c \in Codes, unsubscribe(c) PROVE RealtimeTypeOK'
  BY <1>8 DEF unsubscribe
<1>9. ASSUME NEW c \in Codes, NEW accepted \in BOOLEAN, subscribe(c, accepted)
      PROVE  RealtimeTypeOK'
  BY <1>9 DEF subscribe, Subscribed
<1>10. CASE ConnectionLost
  BY <1>10 DEF ConnectionLost
<1>11. CASE disconnect
  BY <1>11 DEF disconnect
<1>12. CASE DisconnectEnds
  BY <1>12 DEF DisconnectEnds
<1>13. CASE CancelTask
  BY <1>13 DEF CancelTask, LoopAfterCancel
<1>14. CASE UNCHANGED rtVars
  BY <1>14 DEF rtVars
<1> QED
  BY <1>1, <1>2, <1>3, <1>4, <1>5, <1>6, <1>7, <1>8, <1>9, <1>10, <1>11, <1>12,
     <1>13, <1>14 DEF RealtimeNext, LoopStep

-----------------------------------------------------------------------------
\* Every step keeps what the feed and the resubscription have to do with the
\* codes: a call that comes during a resubscription only moves its own code.
LEMMA FeedStep ==
  RealtimeInv /\ [RealtimeNext]_rtVars => LoopAndSocket' /\ FeedPartial'
<1> SUFFICES ASSUME RealtimeInv, [RealtimeNext]_rtVars PROVE LoopAndSocket' /\ FeedPartial'
  OBVIOUS
<1> USE DEF RealtimeInv, LoopAndSocket, FeedPartial
<1>1. CASE Connect
  BY <1>1 DEF Connect, ToResubscribe
<1>2. CASE ConnectFails
  BY <1>2 DEF ConnectFails
<1>3. ASSUME NEW c \in Codes, NEW accepted \in BOOLEAN, Resubscribe(c, accepted)
      PROVE  LoopAndSocket' /\ FeedPartial'
  <2>1. CASE accepted
    BY <1>3, <2>1 DEF Resubscribe, Subscribed
  <2>2. CASE ~accepted
    BY <1>3, <2>2 DEF Resubscribe, Subscribed
  <2> QED
    BY <2>1, <2>2
<1>4. CASE LoopBreaks
  BY <1>4 DEF LoopBreaks
<1>5. CASE AfterFailure
  BY <1>5 DEF AfterFailure
<1>6. CASE Wake
  BY <1>6 DEF Wake
<1>7. CASE MessageFails
  BY <1>7 DEF MessageFails
<1>8. ASSUME NEW c \in Codes, unsubscribe(c) PROVE LoopAndSocket' /\ FeedPartial'
  BY <1>8 DEF unsubscribe
<1>9. ASSUME NEW c \in Codes, NEW accepted \in BOOLEAN, subscribe(c, accepted)
      PROVE  LoopAndSocket' /\ FeedPartial'
  <2>1. CASE accepted
    BY <1>9, <2>1 DEF subscribe, Subscribed
  <2>2. CASE ~accepted
    BY <1>9, <2>2 DEF subscribe, Subscribed
  <2> QED
    BY <2>1, <2>2
<1>10. CASE ConnectionLost
  BY <1>10 DEF ConnectionLost
<1>11. CASE disconnect
  BY <1>11 DEF disconnect
<1>12. CASE DisconnectEnds
  BY <1>12 DEF DisconnectEnds
<1>13. CASE CancelTask
  BY <1>13 DEF CancelTask, LoopAfterCancel
<1>14. CASE UNCHANGED rtVars
  BY <1>14 DEF rtVars
<1> QED
  BY <1>1, <1>2, <1>3, <1>4, <1>5, <1>6, <1>7, <1>8, <1>9, <1>10, <1>11, <1>12,
     <1>13, <1>14 DEF RealtimeNext, LoopStep

-----------------------------------------------------------------------------
\* Every step keeps the counter true: Connect resets it, AfterFailure counts and
\* is the only step that ends a running loop.
LEMMA CounterStep == RealtimeInv /\ [RealtimeNext]_rtVars => CounterSound'
<1> SUFFICES ASSUME RealtimeInv, [RealtimeNext]_rtVars PROVE CounterSound'
  OBVIOUS
<1> USE RealtimeAssumption DEF RealtimeInv, CounterSound, RealtimeTypeOK
<1>1. CASE Connect
  BY <1>1 DEF Connect, AttemptsAfterConnect, ToResubscribe
<1>2. CASE ConnectFails
  BY <1>2 DEF ConnectFails
<1>3. ASSUME NEW c \in Codes, NEW accepted \in BOOLEAN, Resubscribe(c, accepted)
      PROVE  CounterSound'
  BY <1>3 DEF Resubscribe
<1>4. CASE LoopBreaks
  BY <1>4 DEF LoopBreaks
<1>5. CASE AfterFailure
  BY <1>5 DEF AfterFailure
<1>6. CASE Wake
  BY <1>6 DEF Wake
<1>7. CASE MessageFails
  BY <1>7 DEF MessageFails
<1>8. ASSUME NEW c \in Codes,
             unsubscribe(c) \/ \E accepted \in BOOLEAN : subscribe(c, accepted)
      PROVE  CounterSound'
  BY <1>8 DEF unsubscribe, subscribe
<1>9. CASE ConnectionLost
  BY <1>9 DEF ConnectionLost
<1>10. CASE disconnect
  BY <1>10 DEF disconnect
<1>11. CASE DisconnectEnds
  BY <1>11 DEF DisconnectEnds
<1>12. CASE CancelTask
  BY <1>12 DEF CancelTask, LoopAfterCancel
<1>13. CASE UNCHANGED rtVars
  BY <1>13 DEF rtVars
<1> QED
  BY <1>1, <1>2, <1>3, <1>4, <1>5, <1>6, <1>7, <1>8, <1>9, <1>10, <1>11, <1>12,
     <1>13 DEF RealtimeNext, LoopStep

-----------------------------------------------------------------------------
\* The invariant holds in every state: the induction the theorems share.
THEOREM InvHolds == RealtimeSpec => []RealtimeInv
<1>1. RealtimeInv /\ [RealtimeNext]_rtVars => RealtimeInv'
  BY TypeStep, FeedStep, CounterStep DEF RealtimeInv
<1> QED
  BY InitInv, <1>1, PTL DEF RealtimeSpec

\* While start() receives, the server sends what _subscribed_codes says, except
\* for the codes it refused: whatever connections are lost, and whenever the API
\* subscribes and unsubscribes.
THEOREM FeedFollowsCodesHolds == RealtimeSpec => []FeedFollowsCodes
<1>1. RealtimeInv => FeedFollowsCodes
  BY DEF RealtimeInv, LoopAndSocket, FeedPartial, FeedFollowsCodes
<1> QED
  BY InvHolds, <1>1, PTL

\* A loop that nobody stopped has met MAX_RECONNECT_ATTEMPTS + 1 failures since
\* its last connection.
THEOREM GivesUpOnlyWhenDownHolds == RealtimeSpec => []GivesUpOnlyWhenDown
<1>1. RealtimeInv => GivesUpOnlyWhenDown
  BY RealtimeAssumption
     DEF RealtimeInv, RealtimeTypeOK, CounterSound, GivesUpOnlyWhenDown
<1> QED
  BY InvHolds, <1>1, PTL
=============================================================================
