------------------------- MODULE MCSupervisorReview -------------------------
(* Instances of SupervisorReview for TLC.                                  *)
EXTENDS SupervisorReview

(* A name that begins with "d" is an event of a delay, others are routine. *)
MCTypeOf == [e \in Events |-> IF e \in {"d1", "d2"} THEN "shipment_delayed"
                             ELSE IF e = "c1" THEN "customer_message_received"
                             ELSE "payment_confirmed"]
MCCut == [t \in Texts \cap {"long"} |-> "long..."]
MCTextChars == [t \in Texts |-> IF t = "long" THEN 3 ELSE 1]
(* Events and instructions do not meet in the data: many of the former for *)
(* the analytics, many of the latter for memory and context.  With the     *)
(* longer frame even the barest context may be too long.                   *)
Scenario(p, f, events, i, n) ==
  [provider |-> p, frame |-> f, events |-> events, instructions |-> i, reviews |-> n]
MCConfigurations ==
  {Scenario("deterministic", 2, Events, 0, 4),
   Scenario("deterministic", 2, {"d1"}, 4, 3),
   Scenario("ollama", 2, {"d1"}, 3, 3),
   Scenario("ollama", 11, {}, 2, 2)}
MCPlans == {<<>>, <<"message_logistics_team">>}
MCRecollections == {[actions |-> <<"message_customer">>, constraints |-> <<"a", "b">>]}
=============================================================================
