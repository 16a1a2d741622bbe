---------------------------- MODULE MCComponents ----------------------------
(***************************************************************************)
(* The components that share no state, checked together: `active' chooses  *)
(* which of them a behaviour is about.                                     *)
(***************************************************************************)
EXTENDS RebalanceSchedule, TokenCache, RealtimeClient, OrderBroadcast, Screening, Backtest

VARIABLE active

Components == {"schedule", "token", "realtime", "broadcast", "screening", "backtest"}
allVars == <<active, schedVars, tokenVars, rtVars, bcVars, scrVars, btVars>>

Init ==
  /\ active \in Components
  /\ ScheduleInit /\ TokenInit /\ RealtimeInit /\ BroadcastInit /\ ScreeningInit /\ BacktestInit

Next ==
  \/ /\ active = "schedule" /\ ScheduleNext
     /\ UNCHANGED <<active, tokenVars, rtVars, bcVars, scrVars, btVars>>
  \/ /\ active = "token" /\ TokenNext
     /\ UNCHANGED <<active, schedVars, rtVars, bcVars, scrVars, btVars>>
  \/ /\ active = "realtime" /\ RealtimeNext
     /\ UNCHANGED <<active, schedVars, tokenVars, bcVars, scrVars, btVars>>
  \/ /\ active = "broadcast" /\ BroadcastNext
     /\ UNCHANGED <<active, schedVars, tokenVars, rtVars, scrVars, btVars>>
  \/ /\ active = "screening" /\ ScreeningNext
     /\ UNCHANGED <<active, schedVars, tokenVars, rtVars, bcVars, btVars>>
  \/ /\ active = "backtest" /\ BacktestNext
     /\ UNCHANGED <<active, schedVars, tokenVars, rtVars, bcVars, scrVars>>

\* The fairness of each component, while it is the one that runs
Fairness ==
  /\ WF_schedVars(active = "schedule" /\ Clock)
  /\ WF_schedVars(active = "schedule" /\ ManualStep)
  /\ WF_schedVars(active = "schedule" /\ LockExpires)
  /\ WF_schedVars(active = "schedule" /\ ReleaseKill)
  /\ \A w \in Workers : WF_schedVars(active = "schedule" /\ TaskStep(w))
  /\ WF_rtVars(active = "realtime" /\ LoopStep)
  /\ WF_rtVars(active = "realtime" /\ DisconnectEnds)
  /\ WF_rtVars(active = "realtime" /\ CancelTask)
  /\ WF_bcVars(active = "broadcast" /\ SubscriberStep)
  /\ \A p \in Publishers : WF_bcVars(active = "broadcast" /\ PublisherStep(p))
  /\ \A c \in Clients : WF_bcVars(active = "broadcast" /\ EndpointEnds(c))

Spec == Init /\ [][Next]_allVars /\ Fairness

-----------------------------------------------------------------------------
\* Consolidated, A earns less than before; its parent alone earns more.  Revenue
\* and gross profit are in the income statement only.
Both(cur, prev) == [cur |-> cur, prev |-> prev]
Falling == [assets |-> Both(10, 10), liab |-> Both(4, 4), equity |-> Both(6, 6),
            curAssets |-> Both(3, 4), curLiab |-> Both(2, 2), capital |-> Both(1, 1),
            income |-> Both(2, 3), revenue |-> Both(7, 8), gross |-> Both(3, 4), cfo |-> Both(1, 2)]
Rising == [Falling EXCEPT !.income = Both(2, 1), !.revenue = Both(8, 7)]
MCLines == [BS |-> {a \in Accounts : Sheet[a] = "BS"}, CF |-> {"cfo"},
            IS |-> {"income", "revenue", "gross"}, CIS |-> {"income"}]
MCReport == [s \in Universe |-> [d \in Divs |->
  [lines |-> MCLines, amount |-> IF d = "cfs" THEN Falling ELSE Rising]]]
MCMoves == {-3, -1}
MCMaxDrawdown == -3
MCReversalShare == <<1, 2>>
=============================================================================
