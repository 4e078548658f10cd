------------------------ MODULE SupervisionContract ------------------------
(***************************************************************************)
(* What supervising one order promises its operators and its clients,      *)
(* without coroutines, queues, timers or a database:                       *)
(*                                                                         *)
(*   - an accepted event is folded into the order exactly once, in the     *)
(*     order of arrival, while the run is open, and between reviews;       *)
(*   - work (a review, a business action) starts only while the run is     *)
(*     open, one piece at a time;                                          *)
(*   - a delivered event, and a request to stop, close the run; the first  *)
(*     of the two decides the result and nothing reopens it.               *)
(***************************************************************************)
EXTENDS Naturals, Sequences

CONSTANTS Events, Deliveries

VARIABLES phase, accepted, applied, busy, result

contractVars == <<phase, accepted, applied, busy, result>>

ContractInit ==
  /\ phase = "open"
  /\ accepted = <<>> /\ applied = <<>>
  /\ busy = FALSE /\ result = "none"

Accept(event) ==
  /\ phase \in {"open", "held"}
  /\ \A i \in 1..Len(accepted) : accepted[i] # event
  /\ accepted' = Append(accepted, event)
  /\ UNCHANGED <<phase, applied, busy, result>>

(* The next event in order of arrival; it may set a review going.          *)
Apply(event) ==
  /\ phase = "open" /\ ~busy
  /\ Len(applied) < Len(accepted)
  /\ event = accepted[Len(applied) + 1]
  /\ applied' = Append(applied, event)
  /\ IF event \in Deliveries
     THEN phase' = "closing" /\ result' = "completed" /\ UNCHANGED busy
     ELSE busy' \in BOOLEAN /\ UNCHANGED <<phase, result>>
  /\ UNCHANGED accepted

StartWork ==
  /\ phase = "open" /\ ~busy
  /\ busy' = TRUE
  /\ UNCHANGED <<phase, accepted, applied, result>>

FinishWork ==
  /\ busy
  /\ busy' = FALSE
  /\ UNCHANGED <<phase, accepted, applied, result>>

Hold ==
  /\ phase = "open"
  /\ phase' = "held"
  /\ UNCHANGED <<accepted, applied, busy, result>>

Release ==
  /\ phase = "held"
  /\ phase' = "open"
  /\ UNCHANGED <<accepted, applied, busy, result>>

RequestStop ==
  /\ phase \in {"open", "held"}
  /\ phase' = "stopping"
  /\ UNCHANGED <<accepted, applied, busy, result>>

Stop ==
  /\ phase = "stopping" /\ ~busy
  /\ phase' = "closing"
  /\ result' = "terminated"
  /\ UNCHANGED <<accepted, applied, busy>>

End ==
  /\ phase = "closing" /\ ~busy
  /\ phase' = "ended"
  /\ UNCHANGED <<accepted, applied, busy, result>>

ContractNext ==
  \/ \E event \in Events : Accept(event) \/ Apply(event)
  \/ StartWork \/ FinishWork \/ Hold \/ Release \/ RequestStop \/ Stop \/ End

(* Work in progress ends, and a run that was stopped or delivered closes.  *)
ContractSpec ==
  /\ ContractInit /\ [][ContractNext]_contractVars
  /\ WF_contractVars(FinishWork) /\ WF_contractVars(Stop) /\ WF_contractVars(End)

ContractSafety == ContractInit /\ [][ContractNext]_contractVars
=============================================================================
