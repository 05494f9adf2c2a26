----------------------------- MODULE OrderPage ------------------------------
(***************************************************************************)
(* What a customer sees of an order: the page behind the tracking link     *)
(* (services/order_tracking.py, api/public_orders.py) and the answer to    *)
(* "where is my order" in the chat (services/gift_automation.py).  Both    *)
(* are computed from the row when they are asked for.                      *)
(***************************************************************************)
EXTENDS Fulfillment

(* _TIMELINE_LABELS after "brief": the stage each step of the page is for. *)
PageSteps == <<"sourcing_in_progress", "quality_check", "packing",
               "ready_for_dispatch", "out_for_delivery", "delivered">>

\* Packed counts as ready.
ActiveStepEarly(status) ==
    CASE status \in {"sourcing_approved", "runner_assigned", "sourcing_in_progress"} -> 1
      [] status = "quality_check" -> 2
      [] status \in {"packing", "ready_for_dispatch"} -> 4
      [] status = "out_for_delivery" -> 5
      [] status = "delivered" -> 6
      [] OTHER -> 0

(* The step that is under way; the issue_pending and cancelled orders are  *)
(* shown at sourcing, wherever they were.                                  *)
ActiveStep(status) ==
    CASE status \in {"sourcing_approved", "runner_assigned", "sourcing_in_progress"} -> 1
      [] status \in {"issue_pending", "cancelled"} -> 1
      [] status = "quality_check" -> 2
      [] status = "packing" -> 3
      [] status = "ready_for_dispatch" -> 4
      [] status = "out_for_delivery" -> 5
      [] status = "delivered" -> 6
      [] OTHER -> 0

(* The timeline; of a delivered order every step is complete.              *)
Timeline(status) ==
    [n \in DOMAIN PageSteps |->
        IF n < ActiveStep(status) \/ status = "delivered" THEN "complete"
        ELSE IF n = ActiveStep(status) THEN "active" ELSE "upcoming"]

(* build_public_order_payload, as far as it depends on the state.          *)
Page(row) == [payment  |-> row.pay,
              status   |-> Normalize(row.details.status),
              timeline |-> Timeline(Normalize(row.details.status))]

(* _track_delivery_reply.                                                  *)
ChatStatus(row) ==
    IF row.pay = "paid"
      THEN CASE row.details.status = "pending_payment"  -> "dispatch being scheduled"
             [] row.details.status = "out_for_delivery" -> "out for delivery"
             [] row.details.status = "delivered"        -> "delivered"
             [] OTHER -> "dispatch being prepared"
      ELSE IF row.pay = "pending" THEN "awaiting payment" ELSE row.pay

(* A step the page shows as complete was made and the next one begun,      *)
(* whatever documents overwrote one another in between, and what the chat  *)
(* calls on its way or delivered had been packed and checked.              *)
Begun(n) == PageSteps[IF n < Len(PageSteps) THEN n + 1 ELSE n]

PageIsEarned ==
    \A o \in Orders :
        /\ \A n \in DOMAIN PageSteps :
              Page(order[o]).timeline[n] = "complete" => {PageSteps[n], Begun(n)} \subseteq been[o]
        /\ ChatStatus(order[o]) \in {"out for delivery", "delivered"} =>
              {"quality_check", "packing"} \subseteq been[o]
=============================================================================
