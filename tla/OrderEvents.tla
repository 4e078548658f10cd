---------------------------- MODULE OrderEvents ----------------------------
(***************************************************************************)
(* The order events of the workflow, the deterministic wake policy that    *)
(* says what an event does to the supervisor, and the order-state          *)
(* projection an event is folded into.                                     *)
(*                                                                         *)
(* Sources: backend/app/temporal/models.py, wake_policy.py and the         *)
(* _apply_event_to_order_state method of workflows.py.                     *)
(***************************************************************************)

EventType == {"order_created", "payment_confirmed", "payment_failed",
              "shipment_created", "shipment_delayed", "delivered",
              "refund_requested", "customer_message_received",
              "no_update_for_n_hours", "unknown"}

ROUTINE_EVENTS == {"order_created", "payment_confirmed", "shipment_created"}

WakePolicyOutcome == {"suppress", "wake", "complete"}

(* Every type that is neither terminal nor routine wakes the supervisor:   *)
(* the code tests IMPORTANT_EVENTS and then falls through to WAKE as well. *)
ClassifyEvent(type) ==
  IF type = "delivered" THEN "complete"
  ELSE IF type \in ROUTINE_EVENTS THEN "suppress" ELSE "wake"

OrderState == [lifecycle : {"open", "completed"},
               payment   : {"pending", "confirmed", "failed"},
               shipment  : {"not_created", "created", "delayed", "delivered"},
               refund    : {"not_requested", "requested"}]

NewOrder == [lifecycle |-> "open",          payment |-> "pending",
             shipment  |-> "not_created",   refund  |-> "not_requested"]

(* Fault: a confirmed payment is written into the wrong field.             *)
ApplyToWrongField(order, type) ==
  IF type = "payment_confirmed" THEN [order EXCEPT !.shipment = "confirmed"] ELSE order

(* The fields one event type sets; the others keep their value.            *)
ApplyEvent(order, type) ==
  CASE type = "order_created"     -> [order EXCEPT !.lifecycle = "open"]
    [] type = "payment_confirmed" -> [order EXCEPT !.payment = "confirmed"]
    [] type = "payment_failed"    -> [order EXCEPT !.payment = "failed"]
    [] type = "shipment_created"  -> [order EXCEPT !.shipment = "created"]
    [] type = "shipment_delayed"  -> [order EXCEPT !.shipment = "delayed"]
    [] type = "delivered"         -> [order EXCEPT !.shipment = "delivered",
                                                   !.lifecycle = "completed"]
    [] type = "refund_requested"  -> [order EXCEPT !.refund = "requested"]
    [] OTHER                      -> order
=============================================================================
