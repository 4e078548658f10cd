-------------------------- MODULE MCOrderWorkflow --------------------------
(* Instances of OrderWorkflow for TLC.                                     *)
EXTENDS OrderWorkflowRefinement

(* One event of every class of the wake policy, under the types that touch *)
(* different fields of the order.                                          *)
MCTypeOf == [e \in Events |->
  CASE e = "paid"      -> "payment_confirmed"
    [] e = "delayed"   -> "shipment_delayed"
    [] e = "refund"    -> "refund_requested"
    [] e = "delivered" -> "delivered"
    [] OTHER           -> "unknown"]

NoActions == {<<>>}
OneAction == {<<>>, <<"notify_customer">>}
(* A repetition.                                                           *)
OnePlan == {<<"notify_customer", "notify_customer">>}
=============================================================================
