--------------------------- MODULE TrackingRules ---------------------------
(***************************************************************************)
(* How worker-2 turns one row of the broker's daily execution inquiry into *)
(* the next state of an order: _extract_order_tracking_snapshot,           *)
(* _resolve_parent_after_child and the cancel delta of                     *)
(* _process_order_status (app/worker/tasks_order_status.py).  A row has    *)
(* the remaining (rmn_qty), cancel-confirmed (cncl_cfrm_qty) and rejected  *)
(* (rjct_qty) quantities; ord is its ord_qty.                              *)
(***************************************************************************)
EXTENDS OrderState

AtLeastZero(n) == IF n < 0 THEN 0 ELSE n

\* Mutants: rejected, or cancelled, quantities are counted as filled.
RowFilledWithRejected(ord, row) == AtLeastZero(ord - row.rmn - row.cncl)
RowFilledWithCanceled(ord, row) == AtLeastZero(ord - row.rmn - row.rjct)

RowFilled(ord, row) == AtLeastZero(ord - row.rmn - row.cncl - row.rjct)

\* _resolve_parent_after_child: the rule for an order that has children.
ParentStatus(ord, fill, rem) ==
  CASE fill >= ord /\ ord > 0               -> "FILLED"
    [] ~(fill >= ord /\ ord > 0) /\ rem > 0 ->
         IF fill > 0 THEN "PARTIAL_FILLED" ELSE "ACCEPTED"
    [] OTHER                                -> "CANCELED"

\* Mutant: a cancelled part closes the order although the rest is open.
LeafStatusCancelFirst(ord, row) ==
  IF row.cncl > 0 THEN "CANCELED" ELSE IF row.rmn > 0 THEN "ACCEPTED" ELSE "FILLED"

\* The rule for an order without children: open while something remains,
\* otherwise filled, cancelled or rejected.
LeafStatus(ord, row) ==
  LET fill == RowFilled(ord, row) IN
  CASE row.rmn > 0 -> IF fill > 0 THEN "PARTIAL_FILLED" ELSE "ACCEPTED"
    [] row.rmn = 0 /\ ord > 0 /\ fill >= ord -> "FILLED"
    [] row.rmn = 0 /\ ~(ord > 0 /\ fill >= ord) ->
         IF row.cncl > 0 THEN "CANCELED"
         ELSE IF row.rjct > 0 THEN "FAILED"
         ELSE IF fill > 0 THEN "CANCELED"
         ELSE "ACCEPTED"

RowStatus(kind, hasChild, ord, row) ==
  IF kind = "NEW" /\ hasChild
  THEN ParentStatus(ord, RowFilled(ord, row), row.rmn)
  ELSE LeafStatus(ord, row)

\* The quantity a cancel order would take from its parent.  `fill' is the
\* child's own filled_qty: the session already holds the value that
\* update_order_tracking_result has just written, not the previous one.
DeltaCancelQty(ord, rem, rjct, fill) == AtLeastZero(AtLeastZero(ord - rem - rjct) - fill)
=============================================================================
