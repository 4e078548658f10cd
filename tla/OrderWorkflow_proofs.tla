----------------------- MODULE OrderWorkflow_proofs -----------------------
(***************************************************************************)
(* Theorems about OrderWorkflow, for every set of events, every set of     *)
(* enabled actions, every set of decisions and every bound.                *)
(***************************************************************************)
EXTENDS OrderWorkflow, SequenceTheorems, TLAPS

(* The tuples of variables that UNCHANGED names are always expanded.       *)
USE DEF holdVars, signalVars, closeVars, wakeVars, eventVars, guardVars, auditVars

-----------------------------------------------------------------------------
(* Type correctness.                                                       *)

(* The part of the state that a snapshot copies besides its arguments.     *)
View == /\ outcome \in Reason /\ report \in BOOLEAN /\ order \in OrderState
        /\ applied \in Seq(Events) /\ instructions \in Nat

(* An entry recorded in a well-typed state is a transition.                *)
LEMMA RecordType ==
  ASSUME NEW kind \in EntryType, NEW s \in WorkflowStatus, NEW w \in BOOLEAN, View'
  PROVE  Record(kind, s, w) \in Transition
  <1>1. Len(applied') \in Nat
    BY LenProperties DEF View
  <1> QED
    BY <1>1 DEF View, Record, Snapshot, Transition, SnapshotType

(* Logging well-typed entries keeps the queue well typed.                  *)
LEMMA LogType ==
  ASSUME pending \in Seq(Transition), NEW entries \in Seq(Transition), Log(entries)
  PROVE  pending' \in Seq(Transition)
  BY ConcatProperties DEF Log

(* Folding an event into an order gives an order.                          *)
LEMMA ApplyEventType ==
  ASSUME NEW o \in OrderState, NEW type
  PROVE  ApplyEvent(o, type) \in OrderState
  BY DEF ApplyEvent, OrderState

(* What a step records shows the status and the deadline it ends with.     *)
LEMMA NowType ==
  ASSUME NEW kind \in EntryType, View', status' \in WorkflowStatus
  PROVE  Now(kind) \in Transition
  BY RecordType DEF Now

LEMMA OneEntry ==
  ASSUME NEW a \in Transition
  PROVE  <<a>> \in Seq(Transition)
  OBVIOUS

LEMMA TwoEntries ==
  ASSUME NEW a \in Transition, NEW b \in Transition
  PROVE  <<a, b>> \in Seq(Transition)
  OBVIOUS

LEMMA InitTypeOK == Init => TypeOK
  <1>1. NewOrder \in OrderState
    BY DEF NewOrder, OrderState
  <1>2. NewRun \in SnapshotType
    BY <1>1 DEF NewRun, SnapshotType, WorkflowStatus, Reason
  <1>3. SUFFICES ASSUME Init PROVE TypeOK
    OBVIOUS
  <1>4. /\ <<>> \in Seq(Events) /\ <<>> \in Seq(STRING) /\ <<>> \in Seq(Transition)
    OBVIOUS
  <1>5. controls \in 0..MaxControls
    BY <1>3, BoundsAssumption DEF Init
  <1>6. pc \in Places /\ then \in Returns /\ status \in WorkflowStatus /\ outcome \in Reason
    BY <1>3 DEF Init, Places, Returns, WorkflowStatus, Reason
  <1> QED
    BY <1>1, <1>2, <1>3, <1>4, <1>5, <1>6 DEF Init, TypeOK

(* A review starts with well-typed entries before its own.                 *)
LEMMA StartReviewType ==
  ASSUME TypeOK, View', NEW first \in Seq(Transition), NEW place \in Returns,
         StartReview(first, place)
  PROVE  /\ pc' \in Places /\ then' \in Returns /\ status' \in WorkflowStatus
         /\ nextWake' \in {"none", "ahead", "due"} /\ overdue' \in BOOLEAN
         /\ missed' \in BOOLEAN /\ pending' \in Seq(Transition)
  <1>1. status' \in WorkflowStatus
    BY DEF StartReview, WorkflowStatus
  <1>2. Now("supervisor_invocation") \in Transition
    BY <1>1, NowType DEF EntryType
  <1>3. <<Now("supervisor_invocation")>> \in Seq(Transition)
    BY <1>2, OneEntry
  <1>4. first \o <<Now("supervisor_invocation")>> \in Seq(Transition)
    BY <1>3, ConcatProperties
  <1>5. pending' \in Seq(Transition)
    BY <1>4, LogType DEF StartReview, TypeOK
  <1> QED
    BY <1>1, <1>5 DEF StartReview, TypeOK, Places

(* The decision of an outcome keeps the types of what it sets.             *)
LEMMA FinalizeType ==
  ASSUME TypeOK, NEW target \in Terminal, order' \in OrderState, applied' \in Seq(Events),
         instructions' \in Nat, Finalize(target)
  PROVE  /\ pc' \in Places /\ then' \in Returns /\ status' \in WorkflowStatus
         /\ paused' \in BOOLEAN /\ interrupted' \in BOOLEAN /\ finalizing' \in BOOLEAN
         /\ outcome' \in Reason /\ report' \in BOOLEAN /\ inbox' \in Seq(Events)
         /\ nextWake' \in {"none", "ahead", "due"} /\ overdue' \in BOOLEAN
         /\ missed' \in BOOLEAN /\ pending' \in Seq(Transition)
  <1>1. status' \in WorkflowStatus /\ outcome' \in Reason /\ report' \in BOOLEAN
    BY DEF Finalize, WorkflowStatus, Reason, Terminal, TypeOK
  <1>2. View'
    BY <1>1 DEF View
  <1>3. Now("finalization_authorized") \in Transition
    BY <1>1, <1>2, NowType DEF EntryType
  <1>4. <<Now("finalization_authorized")>> \in Seq(Transition)
    BY <1>3, OneEntry
  <1>5. pending' \in Seq(Transition)
    BY <1>4, LogType DEF Finalize, TypeOK
  <1>6. <<>> \in Seq(Events)
    OBVIOUS
  <1> QED
    BY <1>1, <1>5, <1>6 DEF Finalize, Places, Returns

(* So does the setting of a deadline.                                      *)
LEMMA ScheduleNextWakeType ==
  ASSUME TypeOK, ScheduleNextWake
  PROVE  /\ status' \in WorkflowStatus
         /\ nextWake' \in {"none", "ahead", "due"} /\ overdue' \in BOOLEAN
         /\ missed' \in BOOLEAN
  BY DEF ScheduleNextWake, TypeOK, WorkflowStatus

(* Every step keeps the types.                                             *)
LEMMA NextTypeOK == TypeOK /\ PlacesAgree /\ [Next]_vars => TypeOK'
  <1> SUFFICES ASSUME TypeOK, PlacesAgree, [Next]_vars PROVE TypeOK'
    OBVIOUS
  <1>1. CASE Begin /\ ~(IsBlocked \/ terminating)
    <2>1. View'
      BY <1>1 DEF Begin, View, TypeOK
    <2>2. Now("workflow_started") \in Transition
      BY <1>1, <2>1, NowType DEF Begin, StartReview, EntryType, WorkflowStatus, TypeOK
    <2>3. <<Now("workflow_started")>> \in Seq(Transition)
      BY <2>2, OneEntry
    <2>4. StartReview(<<Now("workflow_started")>>, "dispatch") /\ "dispatch" \in Returns
      BY <1>1 DEF Begin, Returns
    <2>5. /\ pc' \in Places /\ then' \in Returns /\ status' \in WorkflowStatus
          /\ nextWake' \in {"none", "ahead", "due"} /\ overdue' \in BOOLEAN
          /\ missed' \in BOOLEAN /\ pending' \in Seq(Transition)
      BY <2>1, <2>3, <2>4, StartReviewType
    <2> QED
      BY <1>1, <2>1, <2>5 DEF Begin, View, TypeOK
  <1>2. CASE Begin /\ (IsBlocked \/ terminating)
    <2>1. View' /\ status' \in WorkflowStatus
      BY <1>2 DEF Begin, View, TypeOK, WorkflowStatus, Blocking
    <2>2. Now("workflow_started") \in Transition
      BY <2>1, NowType DEF EntryType, TypeOK
    <2>3. <<Now("workflow_started")>> \in Seq(Transition)
      BY <2>2, OneEntry
    <2>4. pending' \in Seq(Transition)
      BY <1>2, <2>3, LogType DEF Begin, TypeOK
    <2> QED
      BY <1>2, <2>1, <2>4 DEF Begin, TypeOK, View, Places, Returns, Return
  <1>3. CASE FinishTermination
    <2>1. View /\ order' = order /\ applied' = applied /\ instructions' = instructions
      BY <1>3 DEF FinishTermination, View, TypeOK
    <2>2. Finalize("terminated") /\ "terminated" \in Terminal
      BY <1>3 DEF FinishTermination, Terminal
    <2> QED
      BY <1>3, <2>1, <2>2, FinalizeType DEF FinishTermination, View, TypeOK
  <1>4. CASE HoldOverdue
    <2>1. View' /\ status' \in WorkflowStatus
      BY <1>4 DEF HoldOverdue, DeferScheduledWake, View, TypeOK, WorkflowStatus, Blocking
    <2>2. Now("scheduled_wake_deferred") \in Transition
      BY <2>1, NowType DEF EntryType, TypeOK
    <2>3. <<Now("scheduled_wake_deferred")>> \in Seq(Transition)
      BY <2>2, OneEntry
    <2>4. pending' \in Seq(Transition)
      BY <1>4, <2>3, LogType DEF HoldOverdue, DeferScheduledWake, TypeOK
    <2> QED
      BY <1>4, <2>1, <2>4
      DEF HoldOverdue, DeferScheduledWake, TypeOK, View, Places, Returns, Return
  <1>5. CASE HoldWaits
    BY <1>5 DEF HoldWaits, Places, TypeOK
  <1>6. CASE CatchUp
    <2>1. View'
      BY <1>6 DEF CatchUp, View, TypeOK
    <2>2. Now("scheduled_wake") \in Transition
      BY <1>6, <2>1, NowType DEF CatchUp, StartReview, EntryType, WorkflowStatus, TypeOK
    <2>3. <<Now("scheduled_wake")>> \in Seq(Transition)
      BY <2>2, OneEntry
    <2>4. StartReview(<<Now("scheduled_wake")>>, "dispatch") /\ "dispatch" \in Returns
      BY <1>6 DEF CatchUp, Returns
    <2>5. /\ pc' \in Places /\ then' \in Returns /\ status' \in WorkflowStatus
          /\ nextWake' \in {"none", "ahead", "due"} /\ overdue' \in BOOLEAN
          /\ missed' \in BOOLEAN /\ pending' \in Seq(Transition)
      BY <2>1, <2>3, <2>4, StartReviewType
    <2> QED
      BY <1>6, <2>1, <2>5 DEF CatchUp, View, TypeOK
  <1>7. CASE TakeEvents
    BY <1>7 DEF TakeEvents, Proceed, Places, TypeOK
  <1>8. CASE ReviewOnTime
    <2>1. View'
      BY <1>8 DEF ReviewOnTime, Proceed, View, TypeOK
    <2>2. Now("scheduled_wake") \in Transition
      BY <1>8, <2>1, NowType
      DEF ReviewOnTime, Proceed, StartReview, EntryType, WorkflowStatus, TypeOK
    <2>3. <<Now("scheduled_wake")>> \in Seq(Transition)
      BY <2>2, OneEntry
    <2>4. StartReview(<<Now("scheduled_wake")>>, "dispatch") /\ "dispatch" \in Returns
      BY <1>8 DEF ReviewOnTime, Proceed, Returns
    <2>5. /\ pc' \in Places /\ then' \in Returns /\ status' \in WorkflowStatus
          /\ nextWake' \in {"none", "ahead", "due"} /\ overdue' \in BOOLEAN
          /\ missed' \in BOOLEAN /\ pending' \in Seq(Transition)
      BY <2>1, <2>3, <2>4, StartReviewType
    <2> QED
      BY <1>8, <2>1, <2>5 DEF ReviewOnTime, Proceed, View, TypeOK
  <1>9. CASE GoToSleep
    <2>1. View' /\ status' \in WorkflowStatus /\ nextWake' \in {"none", "ahead", "due"}
          /\ overdue' \in BOOLEAN /\ missed' \in BOOLEAN
      BY <1>9, ScheduleNextWakeType DEF GoToSleep, View, TypeOK, WorkflowStatus
    <2>2. Now("sleep_scheduled") \in Transition /\ Now("workflow_sleeping") \in Transition
      BY <2>1, NowType DEF EntryType
    <2>3. /\ <<>> \in Seq(Transition)
          /\ <<Now("sleep_scheduled")>> \in Seq(Transition)
          /\ <<Now("workflow_sleeping")>> \in Seq(Transition)
      BY <2>2, OneEntry
    <2>4. pending' \in Seq(Transition)
      BY <1>9, <2>3, LogType DEF GoToSleep, TypeOK
    <2> QED
      BY <1>9, <2>1, <2>4 DEF GoToSleep, Proceed, View, TypeOK, Places
  <1>10. CASE SleepEnds
    BY <1>10 DEF SleepEnds, Return, Places, Returns, TypeOK
  <1>11. CASE SleepTimesOut
    <2>1. View'
      BY <1>11 DEF SleepTimesOut, View, TypeOK
    <2>2. Now("scheduled_wake") \in Transition
      BY <1>11, <2>1, NowType
      DEF SleepTimesOut, StartReview, EntryType, WorkflowStatus, TypeOK
    <2>3. <<Now("scheduled_wake")>> \in Seq(Transition)
      BY <2>2, OneEntry
    <2>4. StartReview(<<Now("scheduled_wake")>>, "dispatch") /\ "dispatch" \in Returns
      BY <1>11 DEF SleepTimesOut, Returns
    <2>5. /\ pc' \in Places /\ then' \in Returns /\ status' \in WorkflowStatus
          /\ nextWake' \in {"none", "ahead", "due"} /\ overdue' \in BOOLEAN
          /\ missed' \in BOOLEAN /\ pending' \in Seq(Transition)
      BY <2>1, <2>3, <2>4, StartReviewType
    <2> QED
      BY <1>11, <2>1, <2>5 DEF SleepTimesOut, View, TypeOK
  <1>12. CASE HoldEnds
    BY <1>12 DEF HoldEnds, Return, Places, Returns, TypeOK
  <1>13. CASE HoldTimesOut /\ IsBlocked /\ ~terminating
    <2>1. View' /\ status' \in WorkflowStatus
      BY <1>13 DEF HoldTimesOut, DeferScheduledWake, View, TypeOK, WorkflowStatus, Blocking
    <2>2. Now("scheduled_wake_deferred") \in Transition
      BY <2>1, NowType DEF EntryType, TypeOK
    <2>3. <<Now("scheduled_wake_deferred")>> \in Seq(Transition)
      BY <2>2, OneEntry
    <2>4. pending' \in Seq(Transition)
      BY <1>13, <2>3, LogType DEF HoldTimesOut, DeferScheduledWake, TypeOK
    <2> QED
      BY <1>13, <2>1, <2>4
      DEF HoldTimesOut, DeferScheduledWake, TypeOK, View, Places, Returns, Return
  <1>14. CASE HoldTimesOut /\ ~(IsBlocked /\ ~terminating)
    BY <1>14 DEF HoldTimesOut, Return, Places, Returns, TypeOK
  <1>15. CASE LeaveEvents
    BY <1>15 DEF LeaveEvents, Return, Places, Returns, TypeOK
  <1>16. CASE \E event \in Events : SuppressWake(event)
    <2>1. PICK event \in Events : SuppressWake(event)
      BY <1>16
    <2>2. /\ order' \in OrderState /\ applied' \in Seq(Events) /\ Tail(inbox) \in Seq(Events)
          /\ instructions' = instructions /\ seen' = seen
      BY <2>1, ApplyEventType, AppendProperties, HeadTailProperties
      DEF SuppressWake, Apply, EventsMayContinue, TypeOK
    <2>3. View' /\ status' \in WorkflowStatus
      BY <2>1, <2>2 DEF SuppressWake, View, TypeOK
    <2>4. Record("supervisor_wake_suppressed", status, nextWake # "none") \in Transition
      BY <2>3, RecordType DEF EntryType, TypeOK
    <2>5. <<Record("supervisor_wake_suppressed", status, nextWake # "none")>> \in Seq(Transition)
      BY <2>4, OneEntry
    <2>6. pending' \in Seq(Transition)
      BY <2>1, <2>5, LogType DEF SuppressWake, TypeOK
    <2> QED
      BY <2>1, <2>2, <2>6 DEF SuppressWake, TypeOK
  <1>17. CASE \E event \in Events : WakeSupervisor(event)
    <2>1. PICK event \in Events : WakeSupervisor(event)
      BY <1>17
    <2>2. /\ order' \in OrderState /\ applied' \in Seq(Events) /\ Tail(inbox) \in Seq(Events)
          /\ instructions' = instructions /\ seen' = seen
      BY <2>1, ApplyEventType, AppendProperties, HeadTailProperties
      DEF WakeSupervisor, Apply, EventsMayContinue, TypeOK
    <2>3. View'
      BY <2>1, <2>2 DEF WakeSupervisor, View, TypeOK
    <2>4. Record("supervisor_wake_requested", status, nextWake # "none") \in Transition
      BY <2>3, RecordType DEF EntryType, TypeOK
    <2>5. <<Record("supervisor_wake_requested", status, nextWake # "none")>> \in Seq(Transition)
      BY <2>4, OneEntry
    <2>6. /\ "events" \in Returns
          /\ StartReview(<<Record("supervisor_wake_requested", status, nextWake # "none")>>, "events")
      BY <2>1 DEF WakeSupervisor, Returns
    <2>7. /\ pc' \in Places /\ then' \in Returns /\ status' \in WorkflowStatus
          /\ nextWake' \in {"none", "ahead", "due"} /\ overdue' \in BOOLEAN
          /\ missed' \in BOOLEAN /\ pending' \in Seq(Transition)
      BY <2>3, <2>5, <2>6, StartReviewType
    <2> QED
      BY <2>1, <2>2, <2>3, <2>7 DEF WakeSupervisor, View, TypeOK
  <1>18. CASE \E event \in Events : FinishDelivery(event)
    <2>1. PICK event \in Events : FinishDelivery(event)
      BY <1>18
    <2>2. /\ order' \in OrderState /\ applied' \in Seq(Events) /\ Tail(inbox) \in Seq(Events)
          /\ instructions' = instructions /\ seen' = seen
      BY <2>1, ApplyEventType, AppendProperties, HeadTailProperties
      DEF FinishDelivery, Apply, EventsMayContinue, TypeOK
    <2>3. instructions' \in Nat /\ Finalize("completed") /\ "completed" \in Terminal
      BY <2>1, <2>2 DEF FinishDelivery, Terminal, TypeOK
    <2> QED
      BY <2>1, <2>2, <2>3, FinalizeType DEF FinishDelivery, TypeOK
  <1>19. CASE ReviewFails /\ ~terminating
    <2>1. View' /\ ScheduleNextWake
      BY <1>19 DEF ReviewFails, View, TypeOK
    <2>2. status' \in WorkflowStatus /\ nextWake' \in {"none", "ahead", "due"}
          /\ overdue' \in BOOLEAN /\ missed' \in BOOLEAN
      BY <2>1, ScheduleNextWakeType
    <2>3. Record("supervisor_fallback", status, FALSE) \in Transition
      BY <2>1, RecordType DEF EntryType, TypeOK
    <2>4. Now("sleep_scheduled") \in Transition
      BY <2>1, <2>2, NowType DEF EntryType
    <2>5. <<Record("supervisor_fallback", status, FALSE), Now("sleep_scheduled")>> \in Seq(Transition)
      BY <2>3, <2>4, TwoEntries
    <2>6. pending' \in Seq(Transition)
      BY <1>19, <2>5, LogType DEF ReviewFails, TypeOK
    <2> QED
      BY <1>19, <2>2, <2>6 DEF ReviewFails, Return, TypeOK, Places
  <1>20. CASE ReviewFails /\ terminating
    <2>1. View' /\ status' \in WorkflowStatus
      BY <1>20 DEF ReviewFails, View, TypeOK, WorkflowStatus, Blocking
    <2>2. Now("supervisor_fallback") \in Transition
      BY <2>1, NowType DEF EntryType, TypeOK
    <2>3. <<Now("supervisor_fallback")>> \in Seq(Transition)
      BY <2>2, OneEntry
    <2>4. pending' \in Seq(Transition)
      BY <1>20, <2>3, LogType DEF ReviewFails, TypeOK
    <2> QED
      BY <1>20, <2>1, <2>4 DEF ReviewFails, TypeOK, View, Places, Returns, Return
  <1>21. CASE ReviewDecides
    <2>1. View' /\ status' \in WorkflowStatus
      BY <1>21 DEF ReviewDecides, View, TypeOK, WorkflowStatus, Blocking
    <2>2. Record("supervisor_decision", status, FALSE) \in Transition
      BY <2>1, RecordType DEF EntryType, TypeOK
    <2>3. <<Record("supervisor_decision", status, FALSE)>> \in Seq(Transition)
      BY <2>2, OneEntry
    <2>4. pending' \in Seq(Transition)
      BY <1>21, <2>3, LogType DEF ReviewDecides, TypeOK
    <2> QED
      BY <1>21, <2>1, <2>4, DecisionsAssumption
      DEF ReviewDecides, TypeOK, View, Places, Returns, Return
  <1>22. CASE ConcludeReview /\ ~terminating
    <2>1. View' /\ ScheduleNextWake
      BY <1>22 DEF ConcludeReview, View, TypeOK
    <2>2. status' \in WorkflowStatus /\ nextWake' \in {"none", "ahead", "due"}
          /\ overdue' \in BOOLEAN /\ missed' \in BOOLEAN
      BY <2>1, ScheduleNextWakeType
    <2>3. Record("memory_updated", status, FALSE) \in Transition
      BY <2>1, RecordType DEF EntryType, TypeOK
    <2>4. Now("sleep_scheduled") \in Transition
      BY <2>1, <2>2, NowType DEF EntryType
    <2>5. <<Record("memory_updated", status, FALSE), Now("sleep_scheduled")>> \in Seq(Transition)
      BY <2>3, <2>4, TwoEntries
    <2>6. pending' \in Seq(Transition)
      BY <1>22, <2>5, LogType DEF ConcludeReview, TypeOK
    <2> QED
      BY <1>22, <2>2, <2>6 DEF ConcludeReview, Return, TypeOK, Places
  <1>23. CASE ConcludeReview /\ terminating
    <2>1. View' /\ status' \in WorkflowStatus
      BY <1>23 DEF ConcludeReview, View, TypeOK, WorkflowStatus, Blocking
    <2>2. Now("memory_updated") \in Transition
      BY <2>1, NowType DEF EntryType, TypeOK
    <2>3. <<Now("memory_updated")>> \in Seq(Transition)
      BY <2>2, OneEntry
    <2>4. pending' \in Seq(Transition)
      BY <1>23, <2>3, LogType DEF ConcludeReview, TypeOK
    <2> QED
      BY <1>23, <2>1, <2>4 DEF ConcludeReview, TypeOK, View, Places, Returns, Return
  <1>24. CASE RejectProposal
    <2>1. View' /\ status' \in WorkflowStatus
      BY <1>24 DEF RejectProposal, View, TypeOK, WorkflowStatus, Blocking
    <2>2. Now("business_action_rejected") \in Transition
      BY <2>1, NowType DEF EntryType, TypeOK
    <2>3. <<Now("business_action_rejected")>> \in Seq(Transition)
      BY <2>2, OneEntry
    <2>4. pending' \in Seq(Transition)
      BY <1>24, <2>3, LogType DEF RejectProposal, TypeOK
    <2> QED
      BY <1>24, <2>1, <2>4, HeadTailProperties
      DEF RejectProposal, TypeOK, View, Places, Returns, Return
  <1>25. CASE SuppressProposal
    <2>1. View' /\ status' \in WorkflowStatus
      BY <1>25 DEF SuppressProposal, View, TypeOK, WorkflowStatus, Blocking
    <2>2. Now("business_action_suppressed") \in Transition
      BY <2>1, NowType DEF EntryType, TypeOK
    <2>3. <<Now("business_action_suppressed")>> \in Seq(Transition)
      BY <2>2, OneEntry
    <2>4. pending' \in Seq(Transition)
      BY <1>25, <2>3, LogType DEF SuppressProposal, TypeOK
    <2> QED
      BY <1>25, <2>1, <2>4, HeadTailProperties
      DEF SuppressProposal, TypeOK, View, Places, Returns, Return
  <1>26. CASE StartAction
    BY <1>26 DEF StartAction, Places, TypeOK
  <1>27. CASE ActionExecuted /\ proposals # <<>>
    <2>1. Head(proposals) \in STRING /\ Tail(proposals) \in Seq(STRING)
      BY <1>27, HeadTailProperties DEF TypeOK
    <2>2. <<cause, Head(proposals)>> \in Deed
      BY <2>1 DEF Deed, TypeOK
    <2> QED
      BY <1>27, <2>1, <2>2 DEF ActionExecuted, TypeOK, Places
  <1>28. CASE ActionFails /\ proposals # <<>>
    <2>1. Head(proposals) \in STRING /\ Tail(proposals) \in Seq(STRING)
      BY <1>28, HeadTailProperties DEF TypeOK
    <2>2. <<cause, Head(proposals)>> \in Deed
      BY <2>1 DEF Deed, TypeOK
    <2>3. View' /\ status' \in WorkflowStatus
      BY <1>28 DEF ActionFails, View, TypeOK
    <2>4. Now("business_action_failed") \in Transition
      BY <2>3, NowType DEF EntryType
    <2>5. <<Now("business_action_failed")>> \in Seq(Transition)
      BY <2>4, OneEntry
    <2>6. pending' \in Seq(Transition)
      BY <1>28, <2>5, LogType DEF ActionFails, TypeOK
    <2> QED
      BY <1>28, <2>1, <2>2, <2>6 DEF ActionFails, TypeOK, Places
  <1>29. CASE FinishReport /\ outcome \in Terminal
    <2>1. View' /\ status' \in WorkflowStatus
      BY <1>29 DEF FinishReport, View, TypeOK, WorkflowStatus
    <2>2. Record("final_output_generated", status, FALSE) \in Transition
      BY <2>1, RecordType DEF EntryType, TypeOK
    <2>3. Now("workflow_ended") \in Transition
      BY <2>1, NowType DEF EntryType
    <2>4. <<Record("final_output_generated", status, FALSE), Now("workflow_ended")>>
            \in Seq(Transition)
      BY <2>2, <2>3, TwoEntries
    <2>5. pending' \in Seq(Transition)
      BY <1>29, <2>4, LogType DEF FinishReport, TypeOK
    <2> QED
      BY <1>29, <2>1, <2>5 DEF FinishReport, Return, View, TypeOK, Places, Returns
  <1>30. CASE FlushEnds
    <2>1. CASE then = "close"
      BY <1>30, <2>1 DEF FlushEnds, Return, Places, Returns, TypeOK
    <2>2. CASE then # "close"
      <3>1. pc' \in Places /\ then' \in Returns /\ finalizing' \in BOOLEAN
        BY <1>30, <2>2 DEF FlushEnds, Places, Returns, TypeOK
      <3> QED
        BY <1>30, <3>1 DEF FlushEnds, TypeOK
    <2> QED
      BY <2>1, <2>2
  <1>31. CASE PersistSucceeds
    <2>1. Head(pending) \in Transition /\ Tail(pending) \in Seq(Transition)
      BY <1>31, HeadTailProperties DEF PersistSucceeds, TypeOK
    <2> QED
      BY <1>31, <2>1 DEF PersistSucceeds, Transition, TypeOK
  <1>32. CASE PersistFails
    <2>1. Head(pending) \in Transition
      BY <1>32, HeadTailProperties DEF PersistFails, TypeOK
    <2> QED
      BY <1>32, <2>1 DEF PersistFails, Transition, Places, TypeOK
  <1>33. CASE RecoveryEnds
    BY <1>33 DEF RecoveryEnds, Places, TypeOK
  <1>34. CASE \E event \in Events : receive_event(event)
    <2>0. PICK event \in Events : receive_event(event)
      BY <1>34
    <2>1. View' /\ status \in WorkflowStatus /\ status' \in WorkflowStatus
      BY <2>0 DEF receive_event, View, TypeOK, WorkflowStatus, Blocking
    <2>2. Record("order_event_received", status, nextWake # "none") \in Transition
      BY <2>1, RecordType DEF EntryType
    <2>3. <<Record("order_event_received", status, nextWake # "none")>> \in Seq(Transition)
      BY <2>2, OneEntry
    <2>4. pending' \in Seq(Transition)
      BY <2>0, <2>3, LogType DEF receive_event, TypeOK
    <2>5. controls' \in 0..MaxControls
      BY <2>0, BoundsAssumption DEF receive_event, TypeOK
    <2> QED
      BY <2>0, <2>1, <2>4, <2>5, AppendProperties DEF receive_event, TypeOK, View
  <1>35. CASE \E event \in Events : receive_duplicate(event)
    <2>0. PICK event \in Events : receive_duplicate(event)
      BY <1>35
    <2>1. View' /\ status \in WorkflowStatus /\ status' \in WorkflowStatus
      BY <2>0 DEF receive_duplicate, Operated, View, TypeOK, WorkflowStatus, Blocking
    <2>2. Record("duplicate_event_ignored", status, nextWake # "none") \in Transition
      BY <2>1, RecordType DEF EntryType
    <2>3. <<Record("duplicate_event_ignored", status, nextWake # "none")>> \in Seq(Transition)
      BY <2>2, OneEntry
    <2>4. pending' \in Seq(Transition)
      BY <2>0, <2>3, LogType DEF receive_duplicate, Operated, TypeOK
    <2>5. controls' \in 0..MaxControls
      BY <2>0, BoundsAssumption DEF receive_duplicate, Operated, TypeOK
    <2>6. wakeup' \in BOOLEAN
      BY <2>0, BoundsAssumption DEF receive_duplicate
    <2> QED
      BY <2>0, <2>1, <2>4, <2>5, <2>6 DEF receive_duplicate, Operated, TypeOK, View
  <1>36. CASE add_instruction
    <2>1. View' /\ status \in WorkflowStatus /\ status' \in WorkflowStatus
      BY <1>36 DEF add_instruction, Operated, View, TypeOK, WorkflowStatus, Blocking
    <2>2. Record("instruction_added", status, nextWake # "none") \in Transition
      BY <2>1, RecordType DEF EntryType
    <2>3. <<Record("instruction_added", status, nextWake # "none")>> \in Seq(Transition)
      BY <2>2, OneEntry
    <2>4. pending' \in Seq(Transition)
      BY <1>36, <2>3, LogType DEF add_instruction, Operated, TypeOK
    <2>5. controls' \in 0..MaxControls
      BY <1>36, BoundsAssumption DEF add_instruction, Operated, TypeOK
    <2> QED
      BY <1>36, <2>1, <2>4, <2>5 DEF add_instruction, Operated, TypeOK, View
  <1>37. CASE pause
    <2>1. View' /\ "paused" \in WorkflowStatus /\ status' \in WorkflowStatus
      BY <1>37 DEF pause, Control, Operated, View, TypeOK, WorkflowStatus, Blocking
    <2>2. Record("workflow_paused", "paused", nextWake # "none") \in Transition
      BY <2>1, RecordType DEF EntryType
    <2>3. <<Record("workflow_paused", "paused", nextWake # "none")>> \in Seq(Transition)
      BY <2>2, OneEntry
    <2>4. pending' \in Seq(Transition)
      BY <1>37, <2>3, LogType DEF pause, Control, Operated, TypeOK
    <2>5. controls' \in 0..MaxControls
      BY <1>37, BoundsAssumption DEF pause, Control, Operated, TypeOK
    <2> QED
      BY <1>37, <2>1, <2>4, <2>5 DEF pause, Control, Operated, TypeOK, View
  <1>38. CASE interrupt
    <2>1. View' /\ "interrupted" \in WorkflowStatus /\ status' \in WorkflowStatus
      BY <1>38 DEF interrupt, Control, Operated, View, TypeOK, WorkflowStatus, Blocking
    <2>2. Record("workflow_interrupted", "interrupted", nextWake # "none") \in Transition
      BY <2>1, RecordType DEF EntryType
    <2>3. <<Record("workflow_interrupted", "interrupted", nextWake # "none")>> \in Seq(Transition)
      BY <2>2, OneEntry
    <2>4. pending' \in Seq(Transition)
      BY <1>38, <2>3, LogType DEF interrupt, Control, Operated, TypeOK
    <2>5. controls' \in 0..MaxControls
      BY <1>38, BoundsAssumption DEF interrupt, Control, Operated, TypeOK
    <2> QED
      BY <1>38, <2>1, <2>4, <2>5 DEF interrupt, Control, Operated, TypeOK, View
  <1>39. CASE resume
    <2>1. View' /\ "running" \in WorkflowStatus /\ status' \in WorkflowStatus
      BY <1>39 DEF resume, Control, Operated, View, TypeOK, WorkflowStatus, Blocking
    <2>2. Record("workflow_resumed", "running", nextWake # "none") \in Transition
      BY <2>1, RecordType DEF EntryType
    <2>3. <<Record("workflow_resumed", "running", nextWake # "none")>> \in Seq(Transition)
      BY <2>2, OneEntry
    <2>4. pending' \in Seq(Transition)
      BY <1>39, <2>3, LogType DEF resume, Control, Operated, TypeOK
    <2>5. controls' \in 0..MaxControls
      BY <1>39, BoundsAssumption DEF resume, Control, Operated, TypeOK
    <2> QED
      BY <1>39, <2>1, <2>4, <2>5 DEF resume, Control, Operated, TypeOK, View
  <1>40. CASE request_termination
    <2>1. View' /\ status \in WorkflowStatus /\ status' \in WorkflowStatus
      BY <1>40 DEF request_termination, View, TypeOK, WorkflowStatus, Blocking
    <2>2. Record("termination_requested", status, nextWake # "none") \in Transition
      BY <2>1, RecordType DEF EntryType
    <2>3. <<Record("termination_requested", status, nextWake # "none")>> \in Seq(Transition)
      BY <2>2, OneEntry
    <2>4. pending' \in Seq(Transition)
      BY <1>40, <2>3, LogType DEF request_termination, TypeOK
    <2>5. controls' \in 0..MaxControls
      BY <1>40, BoundsAssumption DEF request_termination, TypeOK
    <2> QED
      BY <1>40, <2>1, <2>4, <2>5 DEF request_termination, TypeOK, View
  <1>41. CASE DeadlinePasses
    <2>1. missed' \in BOOLEAN
      BY <1>41 DEF DeadlinePasses, IsBlocked, TypeOK
    <2> QED
      BY <1>41, <2>1 DEF DeadlinePasses, TypeOK
  <1>42. CASE UNCHANGED vars
    BY <1>42 DEF vars, TypeOK
  <1>43. pc = "action" => proposals # <<>>
    BY DEF PlacesAgree
  <1>44. pc = "report" => outcome \in Terminal
    BY DEF PlacesAgree, TypeOK, ClosingReturns, Reason
  <1> QED
    BY <1>1, <1>2, <1>3, <1>4, <1>5, <1>6, <1>7, <1>8, <1>9, <1>10,
       <1>11, <1>12, <1>13, <1>14, <1>15, <1>16, <1>17, <1>18, <1>19, <1>20,
       <1>21, <1>22, <1>23, <1>24, <1>25, <1>26, <1>27, <1>28, <1>29, <1>30,
       <1>31, <1>32, <1>33, <1>34, <1>35, <1>36, <1>37, <1>38, <1>39, <1>40,
       <1>41, <1>42,
       <1>43, <1>44
    DEF Next, Coroutine, MainLoop, HandleEvents, Review, Flush, Signal, Finished,
        ActionExecuted, ActionFails, FinishReport

-----------------------------------------------------------------------------
(* The places and the terminal variables agree, initially and after every  *)
(* step.                                                                   *)

LEMMA InitPlacesAgree == Init => PlacesAgree
  BY DEF Init, PlacesAgree, ClosingReturns, Terminal, IsBlocked

LEMMA NextPlacesAgree == TypeOK /\ PlacesAgree /\ [Next]_vars => PlacesAgree'
  <1> SUFFICES ASSUME TypeOK, PlacesAgree, [Next]_vars PROVE PlacesAgree'
    OBVIOUS
  <1>1. CASE Begin
    BY <1>1
    DEF Begin, StartReview, Return, PlacesAgree, TypeOK, ClosingReturns, Terminal, IsBlocked
  <1>2. CASE FinishTermination
    BY <1>2
    DEF FinishTermination, Finalize, PlacesAgree, TypeOK, ClosingReturns, Terminal, IsBlocked
  <1>3. CASE HoldOverdue
    BY <1>3
    DEF HoldOverdue, DeferScheduledWake, Return, PlacesAgree, TypeOK, ClosingReturns, Terminal, IsBlocked
  <1>4. CASE HoldWaits
    BY <1>4 DEF HoldWaits, PlacesAgree, TypeOK, ClosingReturns, Terminal, IsBlocked
  <1>5. CASE CatchUp
    BY <1>5
    DEF CatchUp, StartReview, PlacesAgree, TypeOK, ClosingReturns, Terminal, IsBlocked
  <1>6. CASE TakeEvents
    BY <1>6
    DEF TakeEvents, Proceed, PlacesAgree, TypeOK, ClosingReturns, Terminal, IsBlocked
  <1>7. CASE ReviewOnTime
    BY <1>7
    DEF ReviewOnTime, Proceed, StartReview, PlacesAgree, TypeOK, ClosingReturns, Terminal, IsBlocked
  <1>8. CASE GoToSleep
    BY <1>8
    DEF GoToSleep, Proceed, ScheduleNextWake, PlacesAgree, TypeOK, ClosingReturns, Terminal, IsBlocked
  <1>9. CASE SleepEnds
    BY <1>9 DEF SleepEnds, Return, PlacesAgree, TypeOK, ClosingReturns, Terminal, IsBlocked
  <1>10. CASE SleepTimesOut
    BY <1>10
    DEF SleepTimesOut, StartReview, PlacesAgree, TypeOK, ClosingReturns, Terminal, IsBlocked
  <1>11. CASE HoldEnds
    BY <1>11 DEF HoldEnds, Return, PlacesAgree, TypeOK, ClosingReturns, Terminal, IsBlocked
  <1>12. CASE HoldTimesOut
    BY <1>12
    DEF HoldTimesOut, DeferScheduledWake, Return, PlacesAgree, TypeOK, ClosingReturns, Terminal, IsBlocked
  <1>13. CASE LeaveEvents
    BY <1>13
    DEF LeaveEvents, Return, PlacesAgree, TypeOK, ClosingReturns, Terminal, IsBlocked
  <1>14. CASE \E event \in Events : SuppressWake(event)
    BY <1>14
    DEF SuppressWake, Apply, PlacesAgree, TypeOK, ClosingReturns, Terminal, IsBlocked
  <1>15. CASE \E event \in Events : WakeSupervisor(event)
    BY <1>15
    DEF WakeSupervisor, Apply, StartReview, PlacesAgree, TypeOK, ClosingReturns, Terminal, IsBlocked
  <1>16. CASE \E event \in Events : FinishDelivery(event)
    BY <1>16
    DEF FinishDelivery, Apply, Finalize, PlacesAgree, TypeOK, ClosingReturns, Terminal, IsBlocked
  <1>17. CASE ReviewFails
    BY <1>17
    DEF ReviewFails, ScheduleNextWake, Return, PlacesAgree, TypeOK, ClosingReturns, Terminal, IsBlocked
  <1>18. CASE ReviewDecides
    BY <1>18 DEF ReviewDecides, PlacesAgree, TypeOK, ClosingReturns, Terminal, IsBlocked
  <1>19. CASE ConcludeReview
    BY <1>19
    DEF ConcludeReview, ScheduleNextWake, Return, PlacesAgree, TypeOK, ClosingReturns, Terminal, IsBlocked
  <1>20. CASE RejectProposal
    BY <1>20 DEF RejectProposal, PlacesAgree, TypeOK, ClosingReturns, Terminal, IsBlocked
  <1>21. CASE SuppressProposal
    BY <1>21 DEF SuppressProposal, PlacesAgree, TypeOK, ClosingReturns, Terminal, IsBlocked
  <1>22. CASE StartAction
    BY <1>22 DEF StartAction, PlacesAgree, TypeOK, ClosingReturns, Terminal, IsBlocked
  <1>23. CASE ActionExecuted
    BY <1>23 DEF ActionExecuted, PlacesAgree, TypeOK, ClosingReturns, Terminal, IsBlocked
  <1>24. CASE ActionFails
    BY <1>24 DEF ActionFails, PlacesAgree, TypeOK, ClosingReturns, Terminal, IsBlocked
  <1>25. CASE FinishReport
    BY <1>25
    DEF FinishReport, Return, Reason, PlacesAgree, TypeOK, ClosingReturns, Terminal, IsBlocked
  <1>26. CASE FlushEnds
    BY <1>26
    DEF FlushEnds, Return, Returns, Reason, PlacesAgree, TypeOK, ClosingReturns, Terminal, IsBlocked
  <1>27. CASE PersistSucceeds
    BY <1>27 DEF PersistSucceeds, PlacesAgree, TypeOK, ClosingReturns, Terminal, IsBlocked
  <1>28. CASE PersistFails
    BY <1>28 DEF PersistFails, PlacesAgree, TypeOK, ClosingReturns, Terminal, IsBlocked
  <1>29. CASE RecoveryEnds
    BY <1>29 DEF RecoveryEnds, PlacesAgree, TypeOK, ClosingReturns, Terminal, IsBlocked
  <1>30. CASE \E event \in Events : receive_event(event)
    BY <1>30
    DEF receive_event, SignalArrives, SignalsAreClosed, PlacesAgree, TypeOK, ClosingReturns, Terminal, IsBlocked
  <1>31. CASE \E event \in Events : receive_duplicate(event)
    BY <1>31
    DEF receive_duplicate, SignalArrives, SignalsAreClosed, PlacesAgree, TypeOK, ClosingReturns, Terminal, IsBlocked
  <1>32. CASE add_instruction
    BY <1>32
    DEF add_instruction, SignalArrives, SignalsAreClosed, PlacesAgree, TypeOK, ClosingReturns, Terminal, IsBlocked
  <1>33. CASE pause
    BY <1>33
    DEF pause, Control, SignalArrives, SignalsAreClosed, PlacesAgree, TypeOK, ClosingReturns, Terminal, IsBlocked
  <1>34. CASE interrupt
    BY <1>34
    DEF interrupt, Control, SignalArrives, SignalsAreClosed, PlacesAgree, TypeOK, ClosingReturns, Terminal, IsBlocked
  <1>35. CASE resume
    BY <1>35
    DEF resume, Control, SignalArrives, SignalsAreClosed, PlacesAgree, TypeOK, ClosingReturns, Terminal, IsBlocked
  <1>36. CASE request_termination
    BY <1>36
    DEF request_termination, SignalArrives, SignalsAreClosed, PlacesAgree, TypeOK, ClosingReturns, Terminal, IsBlocked
  <1>37. CASE DeadlinePasses
    BY <1>37 DEF DeadlinePasses, PlacesAgree, TypeOK, ClosingReturns, Terminal, IsBlocked
  <1>38. CASE UNCHANGED vars
    BY <1>38 DEF vars, PlacesAgree, TypeOK, ClosingReturns, Terminal, IsBlocked
  <1> QED
    BY <1>1, <1>2, <1>3, <1>4, <1>5, <1>6, <1>7, <1>8, <1>9, <1>10,
       <1>11, <1>12, <1>13, <1>14, <1>15, <1>16, <1>17, <1>18, <1>19, <1>20,
       <1>21, <1>22, <1>23, <1>24, <1>25, <1>26, <1>27, <1>28, <1>29, <1>30,
       <1>31, <1>32, <1>33, <1>34, <1>35, <1>36, <1>37, <1>38
    DEF Next, Coroutine, MainLoop, HandleEvents, Review, Flush, Signal, Finished

(* Every execution is well typed and its places agree with its state.      *)
THEOREM TypeCorrect == Spec => [](TypeOK /\ PlacesAgree)
  <1>1. Init => TypeOK /\ PlacesAgree
    BY InitTypeOK, InitPlacesAgree
  <1>2. TypeOK /\ PlacesAgree /\ [Next]_vars => (TypeOK /\ PlacesAgree)'
    BY NextTypeOK, NextPlacesAgree
  <1> QED
    BY <1>1, <1>2, PTL DEF Spec

-----------------------------------------------------------------------------
(* Automation starts nothing while the run is held or being terminated,    *)
(* whatever happened during the await that the step returns from.          *)
THEOREM HoldStops == Spec => HoldStopsAutomation
  <1> DEFINE Allowed == pc' \in {"review", "action"} /\ pc' # pc => ~IsBlocked /\ ~terminating
  <1>1. TypeOK /\ [Next]_vars => [Allowed]_vars
    <2> SUFFICES ASSUME TypeOK, Next PROVE Allowed
      OBVIOUS
    <2>1. CASE MainLoop
      BY <2>1 DEF MainLoop, Begin, FinishTermination, HoldOverdue, HoldWaits, CatchUp,
                  TakeEvents, ReviewOnTime, GoToSleep, SleepEnds, SleepTimesOut, HoldEnds,
                  HoldTimesOut, DeferScheduledWake, Return, Finalize, Proceed,
                  NormalWaitCondition
    <2>2. CASE HandleEvents
      BY <2>2 DEF HandleEvents, LeaveEvents, SuppressWake, WakeSupervisor, FinishDelivery,
                  Apply, EventsMayContinue, Return, Finalize
    <2>3. CASE Review
      BY <2>3 DEF Review, ReviewFails, ReviewDecides, ConcludeReview, RejectProposal,
                  SuppressProposal, StartAction, ActionExecuted, ActionFails, MayExecute,
                  Return
    <2>4. CASE FinishReport \/ Flush
      BY <2>4 DEF FinishReport, Flush, FlushEnds, PersistSucceeds, PersistFails,
                  RecoveryEnds, Return, TypeOK, Returns
    <2>5. CASE Signal \/ DeadlinePasses \/ Finished
      BY <2>5 DEF Signal, receive_event, receive_duplicate, add_instruction, pause,
                  interrupt, resume, request_termination, Control, DeadlinePasses,
                  Finished, vars
    <2> QED
      BY <2>1, <2>2, <2>3, <2>4, <2>5 DEF Next, Coroutine
  <1> QED
    BY <1>1, TypeCorrect, PTL DEF Spec, HoldStopsAutomation

-----------------------------------------------------------------------------
(* The run row follows the workflow.                                       *)

(* While a review is under way there is no deadline: the entries recorded  *)
(* in it may say so.                                                       *)
NoDeadlineInReview == pc \in {"review", "actions", "action"} => nextWake = "none"

Follows == NoDeadlineInReview /\ ProjectionFollows

LEMMA NowFollows ==
  ASSUME NEW kind
  PROVE  Now(kind).snapshot = Current'
  BY DEF Now, Record, Snapshot, Current

(* A step that logs an entry with the state it ends in brings the queue up *)
(* to that state, whatever it logs before.                                 *)
LEMMA LogEnds ==
  ASSUME pending \in Seq(Transition), Persistent, NEW S, NEW log \in Seq(S), log # <<>>,
         log[Len(log)].snapshot = Current', Log(log)
  PROVE  Latest' = Current'
  <1> DEFINE T == Transition \cup S
  <1>1. pending \in Seq(T) /\ log \in Seq(T)
    BY SeqMonotonic
  <1> HIDE DEF T
  <1>2. Len(log) \in Nat \ {0} /\ Len(pending) \in Nat
    BY <1>1, LenProperties, EmptySeq
  <1>3. pending' = pending \o log
    BY DEF Log
  <1>4. /\ pending' \in Seq(T)
        /\ Len(pending') = Len(pending) + Len(log)
        /\ pending'[Len(pending')] = log[Len(log)]
    BY <1>1, <1>2, <1>3, ConcatProperties
  <1>5. pending' # <<>>
    BY <1>2, <1>4, EmptySeq
  <1> QED
    BY <1>4, <1>5 DEF Latest

LEMMA LogLast ==
  ASSUME pending \in Seq(Transition), Persistent, NEW S, NEW first \in Seq(S), NEW a,
         a.snapshot = Current', Log(first \o <<a>>)
  PROVE  Latest' = Current'
  <1> DEFINE T == S \cup {a}
              log == first \o <<a>>
  <1>1. first \in Seq(T) /\ <<a>> \in Seq(T)
    BY SeqMonotonic
  <1>2. Len(first) \in Nat
    BY LenProperties
  <1> HIDE DEF T
  <1>3. /\ log \in Seq(T)
        /\ Len(log) = Len(first) + 1
        /\ log[Len(log)] = a
    BY <1>1, <1>2, ConcatProperties
  <1>4. log # <<>>
    BY <1>2, <1>3, EmptySeq
  <1> HIDE DEF log
  <1>5. Log(log)
    BY DEF log
  <1> QED
    BY <1>3, <1>4, <1>5, LogEnds

LEMMA LogOne ==
  ASSUME pending \in Seq(Transition), Persistent, NEW a, a.snapshot = Current', Log(<<a>>)
  PROVE  Latest' = Current'
  <1>1. <<a>> \in Seq({a}) /\ <<a>> # <<>> /\ <<a>>[Len(<<a>>)] = a
    OBVIOUS
  <1> QED
    BY <1>1, LogEnds

LEMMA LogTwo ==
  ASSUME pending \in Seq(Transition), Persistent, NEW b, NEW a, a.snapshot = Current',
         Log(<<b, a>>)
  PROVE  Latest' = Current'
  <1>1. <<b, a>> \in Seq({b, a}) /\ <<b, a>> # <<>> /\ <<b, a>>[Len(<<b, a>>)] = a
    OBVIOUS
  <1> QED
    BY <1>1, LogEnds

LEMMA NextLatest ==
  ASSUME TypeOK, Follows, [Next]_vars, Persistent
  PROVE  Latest' = Current'
  <1>a. pending \in Seq(Transition)
    BY DEF TypeOK
  <1>0. Latest = Current
    BY DEF Follows, ProjectionFollows
  <1>1. CASE Begin /\ ~(IsBlocked \/ terminating)
    <2>1. Log(<<Now("workflow_started")>> \o <<Now("supervisor_invocation")>>)
      BY <1>1 DEF Begin, StartReview
    <2>2. <<Now("workflow_started")>> \in Seq({Now("workflow_started")})
      OBVIOUS
    <2> QED
      BY <2>1, <2>2, NowFollows, LogLast, <1>a
  <1>2. CASE Begin /\ (IsBlocked \/ terminating)
    <2>1. Log(<<Now("workflow_started")>>)
      BY <1>2 DEF Begin
    <2> QED
      BY <2>1, NowFollows, LogOne, <1>a
  <1>3. CASE FinishTermination
    <2>1. Log(<<Now("finalization_authorized")>>)
      BY <1>3 DEF FinishTermination, Finalize
    <2> QED
      BY <2>1, NowFollows, LogOne, <1>a
  <1>4. CASE HoldOverdue
    <2>1. Log(<<Now("scheduled_wake_deferred")>>)
      BY <1>4 DEF HoldOverdue, DeferScheduledWake
    <2> QED
      BY <2>1, NowFollows, LogOne, <1>a
  <1>5. CASE HoldWaits
    BY <1>0, <1>5 DEF HoldWaits, Latest, Current
  <1>6. CASE CatchUp
    <2>1. Log(<<Now("scheduled_wake")>> \o <<Now("supervisor_invocation")>>)
      BY <1>6 DEF CatchUp, StartReview
    <2>2. <<Now("scheduled_wake")>> \in Seq({Now("scheduled_wake")})
      OBVIOUS
    <2> QED
      BY <2>1, <2>2, NowFollows, LogLast, <1>a
  <1>7. CASE TakeEvents
    BY <1>0, <1>7 DEF TakeEvents, Latest, Current
  <1>8. CASE ReviewOnTime
    <2>1. Log(<<Now("scheduled_wake")>> \o <<Now("supervisor_invocation")>>)
      BY <1>8 DEF ReviewOnTime, StartReview
    <2>2. <<Now("scheduled_wake")>> \in Seq({Now("scheduled_wake")})
      OBVIOUS
    <2> QED
      BY <2>1, <2>2, NowFollows, LogLast, <1>a
  <1>9. CASE GoToSleep /\ nextWake = "none"
    <2>1. Log(<<Now("sleep_scheduled")>>)
      BY <1>9 DEF GoToSleep
    <2> QED
      BY <2>1, NowFollows, LogOne, <1>a
  <1>10. CASE GoToSleep /\ nextWake # "none" /\ status # "sleeping"
    <2>1. Log(<<Now("workflow_sleeping")>>)
      BY <1>10 DEF GoToSleep
    <2> QED
      BY <2>1, NowFollows, LogOne, <1>a
  <1>11. CASE GoToSleep /\ nextWake # "none" /\ status = "sleeping"
    <2>1. Log(<<>>) /\ status' = status /\ UNCHANGED <<nextWake, row, closeVars, eventVars>>
      BY <1>11 DEF GoToSleep
    <2>2. pending' = pending
      BY <2>1, ConcatEmptySeq DEF Log, TypeOK
    <2> QED
      BY <1>0, <2>1, <2>2 DEF Latest, Current
  <1>12. CASE SleepEnds
    BY <1>0, <1>12 DEF SleepEnds, Latest, Current
  <1>13. CASE SleepTimesOut
    <2>1. Log(<<Now("scheduled_wake")>> \o <<Now("supervisor_invocation")>>)
      BY <1>13 DEF SleepTimesOut, StartReview
    <2>2. <<Now("scheduled_wake")>> \in Seq({Now("scheduled_wake")})
      OBVIOUS
    <2> QED
      BY <2>1, <2>2, NowFollows, LogLast, <1>a
  <1>14. CASE HoldEnds
    BY <1>0, <1>14 DEF HoldEnds, Latest, Current
  <1>15. CASE HoldTimesOut /\ IsBlocked /\ ~terminating
    <2>1. Log(<<Now("scheduled_wake_deferred")>>)
      BY <1>15 DEF HoldTimesOut, DeferScheduledWake
    <2> QED
      BY <2>1, NowFollows, LogOne, <1>a
  <1>16. CASE HoldTimesOut /\ ~(IsBlocked /\ ~terminating)
    BY <1>0, <1>16 DEF HoldTimesOut, Latest, Current
  <1>17. CASE LeaveEvents
    BY <1>0, <1>17 DEF LeaveEvents, Latest, Current
  <1>18. CASE \E event \in Events : SuppressWake(event)
    <2>0. PICK event \in Events : SuppressWake(event)
      BY <1>18
    <2>1. Log(<<Record("supervisor_wake_suppressed", status, nextWake # "none")>>)
      BY <2>0 DEF SuppressWake
    <2>2. status = status' /\ nextWake = nextWake'
      BY <2>0 DEF SuppressWake
    <2>3. Record("supervisor_wake_suppressed", status, nextWake # "none").snapshot = Current'
      BY <2>2 DEF Record, Snapshot, Current
    <2> QED
      BY <2>1, <2>3, LogOne, <1>a
  <1>19. CASE \E event \in Events : WakeSupervisor(event)
    <2>0. PICK event \in Events : WakeSupervisor(event)
      BY <1>19
    <2>1. Log(<<Record("supervisor_wake_requested", status, nextWake # "none")>> \o <<Now("supervisor_invocation")>>)
      BY <2>0 DEF WakeSupervisor, StartReview
    <2>2. <<Record("supervisor_wake_requested", status, nextWake # "none")>> \in Seq({Record("supervisor_wake_requested", status, nextWake # "none")})
      OBVIOUS
    <2> QED
      BY <2>1, <2>2, NowFollows, LogLast, <1>a
  <1>20. CASE \E event \in Events : FinishDelivery(event)
    <2>0. PICK event \in Events : FinishDelivery(event)
      BY <1>20
    <2>1. Log(<<Now("finalization_authorized")>>)
      BY <2>0 DEF FinishDelivery, Finalize
    <2> QED
      BY <2>1, NowFollows, LogOne, <1>a
  <1>21. CASE ReviewFails /\ ~terminating
    <2>1. Log(<<Record("supervisor_fallback", status, FALSE), Now("sleep_scheduled")>>)
      BY <1>21 DEF ReviewFails
    <2> QED
      BY <2>1, NowFollows, LogTwo, <1>a
  <1>22. CASE ReviewFails /\ terminating
    <2>1. Log(<<Now("supervisor_fallback")>>)
      BY <1>22 DEF ReviewFails
    <2> QED
      BY <2>1, NowFollows, LogOne, <1>a
  <1>23. CASE ReviewDecides
    <2>1. Log(<<Record("supervisor_decision", status, FALSE)>>) /\ nextWake = "none"
          /\ UNCHANGED <<status, nextWake>>
      BY <1>23 DEF ReviewDecides, Follows, NoDeadlineInReview
    <2>2. Record("supervisor_decision", status, FALSE).snapshot = Current'
      BY <2>1 DEF Record, Snapshot, Current
    <2> QED
      BY <2>1, <2>2, LogOne, <1>a
  <1>24. CASE ConcludeReview /\ ~terminating
    <2>1. Log(<<Record("memory_updated", status, FALSE), Now("sleep_scheduled")>>)
      BY <1>24 DEF ConcludeReview
    <2> QED
      BY <2>1, NowFollows, LogTwo, <1>a
  <1>25. CASE ConcludeReview /\ terminating
    <2>1. Log(<<Now("memory_updated")>>)
      BY <1>25 DEF ConcludeReview
    <2> QED
      BY <2>1, NowFollows, LogOne, <1>a
  <1>26. CASE RejectProposal
    <2>1. Log(<<Now("business_action_rejected")>>)
      BY <1>26 DEF RejectProposal
    <2> QED
      BY <2>1, NowFollows, LogOne, <1>a
  <1>27. CASE SuppressProposal
    <2>1. Log(<<Now("business_action_suppressed")>>)
      BY <1>27 DEF SuppressProposal
    <2> QED
      BY <2>1, NowFollows, LogOne, <1>a
  <1>28. CASE StartAction
    BY <1>0, <1>28 DEF StartAction, Latest, Current
  <1>29. CASE ActionExecuted
    BY <1>0, <1>29 DEF ActionExecuted, Latest, Current
  <1>30. CASE ActionFails
    <2>1. Log(<<Now("business_action_failed")>>)
      BY <1>30 DEF ActionFails
    <2> QED
      BY <2>1, NowFollows, LogOne, <1>a
  <1>31. CASE FinishReport
    <2>1. Log(<<Record("final_output_generated", status, FALSE), Now("workflow_ended")>>)
      BY <1>31 DEF FinishReport
    <2> QED
      BY <2>1, NowFollows, LogTwo, <1>a
  <1>32. CASE FlushEnds
    BY <1>0, <1>32 DEF FlushEnds, Latest, Current
  <1>33. CASE PersistSucceeds
    <2>1. Current' = Current
      BY <1>33 DEF PersistSucceeds, Current
    <2>2. /\ pending # <<>> /\ pending' = Tail(pending) /\ row' = Head(pending).snapshot
          /\ Len(pending) \in Nat \ {0} /\ Head(pending) = pending[1]
      BY <1>33, EmptySeq DEF PersistSucceeds, TypeOK
    <2>3. CASE Len(pending) = 1
      <3>1. pending' = <<>>
        BY <2>2, <2>3, HeadTailProperties, EmptySeq DEF TypeOK
      <3> QED
        BY <1>0, <2>1, <2>2, <2>3, <3>1 DEF Latest
    <2>4. CASE Len(pending) # 1
      <3>1. Len(pending') = Len(pending) - 1 /\ Len(pending') \in Nat \ {0}
        BY <2>2, <2>4, HeadTailProperties DEF TypeOK
      <3>2. pending' # <<>> /\ pending'[Len(pending')] = pending[Len(pending)]
        <4>1. pending'[Len(pending')] = pending[Len(pending') + 1]
          BY <2>2, <3>1, <1>a, HeadTailProperties
        <4>2. pending' # <<>>
          BY <3>1
        <4> QED
          BY <1>a, <2>2, <3>1, <4>1, <4>2
      <3> QED
        BY <1>0, <2>1, <2>2, <3>2 DEF Latest
    <2> QED
      BY <2>3, <2>4
  <1>34. CASE PersistFails
    BY <1>0, <1>34 DEF PersistFails, Latest, Current
  <1>35. CASE RecoveryEnds
    BY <1>0, <1>35 DEF RecoveryEnds, Latest, Current
  <1>36. CASE \E event \in Events : receive_event(event)
    <2>0. PICK event \in Events : receive_event(event)
      BY <1>36
    <2>1. Log(<<Record("order_event_received", status, nextWake # "none")>>)
      BY <2>0 DEF receive_event
    <2>2. status = status' /\ nextWake = nextWake'
      BY <2>0 DEF receive_event
    <2>3. Record("order_event_received", status, nextWake # "none").snapshot = Current'
      BY <2>2 DEF Record, Snapshot, Current
    <2> QED
      BY <2>1, <2>3, LogOne, <1>a
  <1>37. CASE \E event \in Events : receive_duplicate(event)
    <2>0. PICK event \in Events : receive_duplicate(event)
      BY <1>37
    <2>1. Log(<<Record("duplicate_event_ignored", status, nextWake # "none")>>)
      BY <2>0 DEF receive_duplicate
    <2>2. status = status' /\ nextWake = nextWake'
      BY <2>0 DEF receive_duplicate
    <2>3. Record("duplicate_event_ignored", status, nextWake # "none").snapshot = Current'
      BY <2>2 DEF Record, Snapshot, Current
    <2> QED
      BY <2>1, <2>3, LogOne, <1>a
  <1>38. CASE add_instruction
    <2>1. Log(<<Record("instruction_added", status, nextWake # "none")>>)
      BY <1>38 DEF add_instruction
    <2>2. status = status' /\ nextWake = nextWake'
      BY <1>38 DEF add_instruction
    <2>3. Record("instruction_added", status, nextWake # "none").snapshot = Current'
      BY <2>2 DEF Record, Snapshot, Current
    <2> QED
      BY <2>1, <2>3, LogOne, <1>a
  <1>39. CASE pause
    <2>1. Log(<<Record("workflow_paused", "paused", nextWake # "none")>>)
      BY <1>39 DEF pause, Control
    <2>2. "paused" = status' /\ nextWake = nextWake'
      BY <1>39 DEF pause, Control
    <2>3. Record("workflow_paused", "paused", nextWake # "none").snapshot = Current'
      BY <2>2 DEF Record, Snapshot, Current
    <2> QED
      BY <2>1, <2>3, LogOne, <1>a
  <1>40. CASE interrupt
    <2>1. Log(<<Record("workflow_interrupted", "interrupted", nextWake # "none")>>)
      BY <1>40 DEF interrupt, Control
    <2>2. "interrupted" = status' /\ nextWake = nextWake'
      BY <1>40 DEF interrupt, Control
    <2>3. Record("workflow_interrupted", "interrupted", nextWake # "none").snapshot = Current'
      BY <2>2 DEF Record, Snapshot, Current
    <2> QED
      BY <2>1, <2>3, LogOne, <1>a
  <1>41. CASE resume
    <2>1. Log(<<Record("workflow_resumed", "running", nextWake # "none")>>)
      BY <1>41 DEF resume, Control
    <2>2. "running" = status' /\ nextWake = nextWake'
      BY <1>41 DEF resume, Control
    <2>3. Record("workflow_resumed", "running", nextWake # "none").snapshot = Current'
      BY <2>2 DEF Record, Snapshot, Current
    <2> QED
      BY <2>1, <2>3, LogOne, <1>a
  <1>42. CASE request_termination
    <2>1. Log(<<Record("termination_requested", status, nextWake # "none")>>)
      BY <1>42 DEF request_termination
    <2>2. status = status' /\ nextWake = nextWake'
      BY <1>42 DEF request_termination
    <2>3. Record("termination_requested", status, nextWake # "none").snapshot = Current'
      BY <2>2 DEF Record, Snapshot, Current
    <2> QED
      BY <2>1, <2>3, LogOne, <1>a
  <1>43. CASE DeadlinePasses
    BY <1>0, <1>43 DEF DeadlinePasses, Latest, Current
  <1>44. CASE UNCHANGED vars
    BY <1>0, <1>44 DEF vars, Latest, Current
  <1> QED
    BY <1>1, <1>2, <1>3, <1>4, <1>5, <1>6, <1>7, <1>8, <1>9, <1>10,
       <1>11, <1>12, <1>13, <1>14, <1>15, <1>16, <1>17, <1>18, <1>19, <1>20,
       <1>21, <1>22, <1>23, <1>24, <1>25, <1>26, <1>27, <1>28, <1>29, <1>30,
       <1>31, <1>32, <1>33, <1>34, <1>35, <1>36, <1>37, <1>38, <1>39, <1>40,
       <1>41, <1>42, <1>43, <1>44
    DEF Next, Coroutine, MainLoop, HandleEvents, Review, Flush, Signal, Finished

LEMMA NextNoDeadlineInReview ==
  ASSUME TypeOK, NoDeadlineInReview, [Next]_vars
  PROVE  NoDeadlineInReview'
  <1>1. CASE MainLoop
    BY <1>1 DEF MainLoop, Begin, FinishTermination, HoldOverdue, HoldWaits, CatchUp,
       TakeEvents, Proceed, ReviewOnTime, GoToSleep, SleepEnds, SleepTimesOut, HoldEnds,
       HoldTimesOut, DeferScheduledWake, Return, StartReview, Finalize, NoDeadlineInReview
  <1>2. CASE HandleEvents
    BY <1>2 DEF HandleEvents, LeaveEvents, Apply, SuppressWake, WakeSupervisor,
       FinishDelivery, StartReview, Finalize, Return, NoDeadlineInReview
  <1>3. CASE Review
    BY <1>3 DEF Review, ReviewFails, ReviewDecides, ConcludeReview, RejectProposal,
       SuppressProposal, StartAction, ActionExecuted, ActionFails, Return,
       NoDeadlineInReview
  <1>4. CASE FinishReport
    BY <1>4 DEF FinishReport, Return, NoDeadlineInReview
  <1>5. CASE Flush
    BY <1>5 DEF Flush, FlushEnds, PersistSucceeds, PersistFails, RecoveryEnds, Return,
       TypeOK, Returns, NoDeadlineInReview
  <1>6. CASE Signal
    BY <1>6 DEF Signal, receive_event, receive_duplicate, add_instruction, pause,
       interrupt, resume, request_termination, Control, NoDeadlineInReview
  <1>7. CASE DeadlinePasses \/ Finished \/ UNCHANGED vars
    BY <1>7 DEF DeadlinePasses, Finished, vars, NoDeadlineInReview
  <1> QED
    BY <1>1, <1>2, <1>3, <1>4, <1>5, <1>6, <1>7 DEF Next, Coroutine

(* The run row of PostgreSQL is never behind the workflow by more than the *)
(* transitions that _flush_pending_transitions still has to write: no      *)
(* method changes what the snapshot shows without recording it afterwards. *)
THEOREM RowFollows == Spec => []ProjectionFollows
  <1>1. Init => Follows
    BY DEF Init, NewRun, Follows, NoDeadlineInReview, ProjectionFollows, Latest, Current
  <1>2. ASSUME TypeOK, Follows, [Next]_vars
        PROVE  Follows'
    <2>1. NoDeadlineInReview'
      BY <1>2, NextNoDeadlineInReview DEF Follows
    <2>2. CASE Persistent
      BY <1>2, <2>1, <2>2, NextLatest DEF Follows, ProjectionFollows
    <2>3. CASE ~Persistent
      BY <2>1, <2>3 DEF Follows, ProjectionFollows
    <2> QED
      BY <2>2, <2>3
  <1>3. Follows => ProjectionFollows
    BY DEF Follows
  <1> QED
    BY <1>1, <1>2, <1>3, TypeCorrect, PTL DEF Spec
=============================================================================
