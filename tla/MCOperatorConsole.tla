------------------------- MODULE MCOperatorConsole -------------------------
(* Instances of OperatorConsole for TLC.                                   *)
EXTENDS OperatorConsole

Use(begin, mounts, records, actions, others, button) ==
  [start |-> begin, mounts |-> mounts, records |-> records, actions |-> actions,
   others |-> others, button |-> button]

(* Several actions of one operator; another operator who gets in the way;  *)
(* a row that is marked failed, and a page that is refreshed at any time.  *)
MCUses ==
  {Use("known", 3, 3, {"pause", "resume"}, FALSE, FALSE),
   Use("known", 2, 2, {"pause", "interrupt"}, TRUE, FALSE),
   Use("lost", 2, 2, {"terminate"}, FALSE, TRUE)}
=============================================================================
