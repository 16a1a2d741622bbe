--------------------------- MODULE MCRebalanceRun ---------------------------
(* Three stocks: one to sell, one to keep and one or two to buy.  No price   *)
(* divides the cash, and the buffer of the plan is not 0.                    *)
EXTENDS RebalanceRun, TLC

CONSTANTS a, b, c

MCPrice == a :> 50 @@ b :> 50 @@ c :> 49
MCInvested == {a :> 2 @@ b :> 2 @@ c :> 0}
MCPortfolios == MCInvested \cup {a :> 0 @@ b :> 0 @@ c :> 0}
MCCashes == {130}
MCTargets == {{b, c}}
=============================================================================
