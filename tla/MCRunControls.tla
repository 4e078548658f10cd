--------------------------- MODULE MCRunControls ---------------------------
(* Instances of RunControls for TLC.                                       *)
EXTENDS RunControls

(* The controls meet a review at the start of the run and at every         *)
(* deadline, so the event need not wake the supervisor too.                *)
MCTypeOf == [e \in Events |-> "payment_confirmed"]

NoActions == {<<>>}

(* A request is named for what it asks.                                    *)
MCAsks == [r \in Requests |-> r]
=============================================================================
