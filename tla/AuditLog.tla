------------------------------ MODULE AuditLog ------------------------------
(***************************************************************************)
(* What the store promises to one run of the workflow, without attempts,   *)
(* transactions, timeouts or lost answers:                                 *)
(*                                                                         *)
(*   - the audit log grows by one transition at a time, in order, and the  *)
(*     run row always shows the transition the log ends with;              *)
(*   - a transition is acknowledged after it is in the log, and the next   *)
(*     one is written only after that;                                     *)
(*   - a business action is entered in the log at most once, and it is     *)
(*     confirmed only after it is.                                         *)
(***************************************************************************)
EXTENDS Naturals

CONSTANT Deeds  \* the idempotency keys of business actions

VARIABLES log, shown, known, done, confirmed

logVars == <<log, shown, known, done, confirmed>>

LogInit == log = 0 /\ shown = 0 /\ known = 0 /\ done = {} /\ confirmed = {}

Append ==
  /\ log = known
  /\ log' = log + 1
  /\ shown' = log + 1
  /\ UNCHANGED <<known, done, confirmed>>

Acknowledge ==
  /\ known < log
  /\ known' = log
  /\ UNCHANGED <<log, shown, done, confirmed>>

Enter(deed) ==
  /\ deed \notin done
  /\ done' = done \cup {deed}
  /\ UNCHANGED <<log, shown, known, confirmed>>

Confirm(deed) ==
  /\ deed \in done \ confirmed
  /\ confirmed' = confirmed \cup {deed}
  /\ UNCHANGED <<log, shown, known, done>>

LogNext == Append \/ Acknowledge \/ \E deed \in Deeds : Enter(deed) \/ Confirm(deed)

LogSpec == LogInit /\ [][LogNext]_logVars
=============================================================================
