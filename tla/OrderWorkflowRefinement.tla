---------------------- MODULE OrderWorkflowRefinement ----------------------
(* OrderWorkflow implements SupervisionContract: the mapping.              *)
EXTENDS OrderWorkflow

ContractPhase ==
  IF pc = "done" THEN "ended"
  ELSE IF outcome # "none" THEN "closing"
  ELSE IF terminating THEN "stopping"
  ELSE IF IsBlocked THEN "held" ELSE "open"

Contract == INSTANCE SupervisionContract WITH
  Deliveries <- {event \in Events : ClassifyEvent(TypeOf[event]) = "complete"},
  phase      <- ContractPhase,
  accepted   <- seen,
  applied    <- applied,
  busy       <- pc \in {"review", "action"},
  result     <- outcome

(* Every behaviour of the workflow is one the contract allows.             *)
ImplementsContract == Contract!ContractSafety

(* With the fairness of the worker, the workflow also makes the progress   *)
(* the contract promises.                                                  *)
KeepsContract == Contract!ContractSpec
=============================================================================
