---------------------- MODULE OrderWorkflowSafety_proofs ----------------------
(***************************************************************************)
(* Further theorems about OrderWorkflow: the order of events, deadlines    *)
(* and holds, the outcome, the semantic action guard, and the refinement of*)
(* SupervisionContract.  They start from the invariant of                  *)
(* OrderWorkflow_proofs, TypeOK /\ PlacesAgree.                            *)
(***************************************************************************)
EXTENDS OrderWorkflow_proofs, OrderWorkflowRefinement

USE DEF holdVars, signalVars, closeVars, wakeVars, eventVars, guardVars, auditVars

-----------------------------------------------------------------------------
(* The order of events.                                                    *)

Arrived == <<inbox, seen, applied, outcome>>

(* What a step can do to the events.  Everything but a Signal with a new   *)
(* event, the loop over the inbox and the two finalizations leaves them.   *)
Arrival(event) ==
  /\ event \notin {seen[i] : i \in 1..Len(seen)}
  /\ seen' = Append(seen, event) /\ inbox' = Append(inbox, event)
  /\ UNCHANGED <<applied, outcome>>
Folding(event) ==
  /\ inbox # <<>> /\ event = Head(inbox)
  /\ applied' = Append(applied, event)
  /\ UNCHANGED seen
  /\ \/ inbox' = Tail(inbox) /\ UNCHANGED outcome
     \/ inbox' = <<>> /\ outcome' = "completed"
Dropping == inbox' = <<>> /\ outcome' = "terminated" /\ UNCHANGED <<seen, applied>>

LEMMA EventSteps ==
  ASSUME TypeOK, PlacesAgree, [Next]_vars
  PROVE  \/ UNCHANGED Arrived
         \/ outcome = "none" /\ Dropping
         \/ outcome = "none" /\ \E event \in Events : Arrival(event) \/ Folding(event)
  <1>1. CASE MainLoop
    <2>1. CASE FinishTermination
      <3>1. outcome = "none"
        BY <2>1 DEF FinishTermination, PlacesAgree, ClosingReturns
      <3> QED
        BY <2>1, <3>1 DEF FinishTermination, Finalize, Dropping
    <2>2. CASE ~FinishTermination
      BY <1>1, <2>2
      DEF MainLoop, Begin, HoldOverdue, HoldWaits, CatchUp, TakeEvents, ReviewOnTime, GoToSleep,
          SleepEnds, SleepTimesOut, HoldEnds, HoldTimesOut, Arrived
    <2> QED
      BY <2>1, <2>2
  <1>2. CASE HandleEvents
    <2>1. CASE LeaveEvents
      BY <2>1 DEF LeaveEvents, Arrived
    <2>2. CASE \E event \in Events : SuppressWake(event) \/ WakeSupervisor(event)
      <3>1. PICK event \in Events : SuppressWake(event) \/ WakeSupervisor(event)
        BY <2>2
      <3>2. pc = "events" /\ Folding(event)
        BY <3>1 DEF SuppressWake, WakeSupervisor, Apply, EventsMayContinue, Folding
      <3> QED
        BY <3>2 DEF PlacesAgree, ClosingReturns
    <2>3. CASE \E event \in Events : FinishDelivery(event)
      <3>1. PICK event \in Events : FinishDelivery(event)
        BY <2>3
      <3>2. pc = "events" /\ Folding(event)
        BY <3>1 DEF FinishDelivery, Finalize, Apply, EventsMayContinue, Folding
      <3> QED
        BY <3>2 DEF PlacesAgree, ClosingReturns
    <2> QED
      BY <1>2, <2>1, <2>2, <2>3 DEF HandleEvents
  <1>3. CASE Review \/ FinishReport \/ Flush
    BY <1>3
    DEF Review, ReviewFails, ReviewDecides, ConcludeReview, RejectProposal, SuppressProposal,
        StartAction, ActionExecuted, ActionFails, FinishReport, Flush, FlushEnds,
        PersistSucceeds, PersistFails, RecoveryEnds, Arrived
  <1>4. CASE Signal
    <2>1. CASE \E event \in Events : receive_event(event)
      <3>1. PICK event \in Events : receive_event(event)
        BY <2>1
      <3>2. Arrival(event) /\ ~SignalsAreClosed
        BY <3>1 DEF receive_event, SignalArrives, Arrival
      <3> QED
        BY <3>2 DEF SignalsAreClosed, PlacesAgree, ClosingReturns
    <2>2. CASE ~\E event \in Events : receive_event(event)
      BY <1>4, <2>2
      DEF Signal, receive_duplicate, add_instruction, pause, interrupt, resume,
          request_termination, Control, Arrived
    <2> QED
      BY <2>1, <2>2
  <1>5. CASE DeadlinePasses \/ Finished \/ UNCHANGED vars
    BY <1>5 DEF DeadlinePasses, Finished, vars, Arrived
  <1> QED
    BY <1>1, <1>2, <1>3, <1>4, <1>5 DEF Next, Coroutine

(* Appending and taking the head keep a sequence made of two parts.        *)
LEMMA AppendToSecond ==
  ASSUME NEW s \in Seq(Events), NEW t \in Seq(Events), NEW e \in Events
  PROVE  Append(s \o t, e) = s \o Append(t, e)
  <1>1. s \o t \in Seq(Events) /\ <<e>> \in Seq(Events)
    BY ConcatProperties
  <1>2. Append(s \o t, e) = (s \o t) \o <<e>> /\ Append(t, e) = t \o <<e>>
    BY <1>1, AppendIsConcat
  <1> QED
    BY <1>1, <1>2, ConcatAssociative

LEMMA MoveHead ==
  ASSUME NEW s \in Seq(Events), NEW t \in Seq(Events), t # <<>>
  PROVE  /\ s \o t = Append(s, Head(t)) \o Tail(t)
         /\ Head(t) \in Events /\ Tail(t) \in Seq(Events)
  <1>1. Head(t) \in Events /\ Tail(t) \in Seq(Events)
    BY HeadTailProperties
  <1>2. t = <<Head(t)>> \o Tail(t)
    <2>1. Len(t) \in Nat /\ 1 \in 1..Len(t) /\ Len(t) \in 1..Len(t)
      BY EmptySeq
    <2>2. SubSeq(t, 1, Len(t)) = <<t[1]>> \o SubSeq(t, 2, Len(t))
      BY <2>1, SubSeqRecursiveFirst
    <2>3. SubSeq(t, 1, Len(t)) = t /\ Tail(t) = SubSeq(t, 2, Len(t))
      BY SubSeqFull, TailIsSubSeq
    <2>4. Head(t) = t[1]
      BY <2>1
    <2> QED
      BY <2>2, <2>3, <2>4
  <1>3. Append(s, Head(t)) = s \o <<Head(t)>> /\ <<Head(t)>> \in Seq(Events)
    BY <1>1, AppendIsConcat
  <1>4. s \o (<<Head(t)>> \o Tail(t)) = (s \o <<Head(t)>>) \o Tail(t)
    BY <1>1, <1>3, ConcatAssociative
  <1> QED
    BY <1>1, <1>2, <1>3, <1>4

(* The first part of a sequence is its beginning.                          *)
LEMMA FirstPart ==
  ASSUME NEW s \in Seq(Events), NEW t \in Seq(Events)
  PROVE  s = SubSeq(s \o t, 1, Len(s))
  <1>1. Len(s) \in Nat /\ (s = <<>> <=> Len(s) = 0)
    BY EmptySeq
  <1>2. CASE s = <<>>
    BY <1>1, <1>2, SubSeqEmpty
  <1>3. CASE s # <<>>
    <2>1. 1 \in 1..Len(s) /\ Len(s) \in 1..Len(s)
      BY <1>1, <1>3
    <2> QED
      BY <2>1, SubSeqOfConcat1, SubSeqFull
  <1> QED
    BY <1>2, <1>3

(* No event is lost, repeated or overtaken between receive_event and the   *)
(* loop of _process_pending_events.                                        *)
LEMMA NextEventsInOrder ==
  ASSUME TypeOK, PlacesAgree, EventsInOrder, [Next]_vars
  PROVE  EventsInOrder'
  <1>0. inbox \in Seq(Events) /\ seen \in Seq(Events) /\ applied \in Seq(Events)
    BY DEF TypeOK
  <1>1. CASE UNCHANGED Arrived
    BY <1>1 DEF Arrived, EventsInOrder
  <1>2. CASE outcome = "none" /\ Dropping
    <2>1. applied = SubSeq(seen, 1, Len(applied))
      BY <1>0, <1>2, FirstPart DEF EventsInOrder
    <2> QED
      BY <1>2, <2>1 DEF Dropping, EventsInOrder
  <1>3. ASSUME outcome = "none", NEW event \in Events, Arrival(event)
        PROVE  EventsInOrder'
    <2>0. Append(applied \o inbox, event) = applied \o Append(inbox, event)
      BY <1>0, AppendToSecond
    <2>1. seen' = applied' \o inbox' /\ outcome' = "none"
      BY <1>3, <2>0 DEF Arrival, EventsInOrder
    <2>2. /\ Len(seen) \in Nat /\ Len(seen') = Len(seen) + 1
          /\ \A i \in 1..Len(seen) : seen'[i] = seen[i] /\ seen[i] # event
          /\ seen'[Len(seen) + 1] = event
      BY <1>0, <1>3, AppendProperties, LenProperties DEF Arrival
    <2>3. \A i, j \in 1..Len(seen') : seen'[i] = seen'[j] => i = j
      <3> SUFFICES ASSUME NEW i \in 1..Len(seen'), NEW j \in 1..Len(seen'), seen'[i] = seen'[j]
                   PROVE  i = j
        OBVIOUS
      <3>1. CASE i \in 1..Len(seen) /\ j \in 1..Len(seen)
        BY <2>2, <3>1 DEF EventsInOrder
      <3>2. CASE i = Len(seen) + 1 /\ j \in 1..Len(seen)
        BY <2>2, <3>2
      <3>3. CASE i \in 1..Len(seen) /\ j = Len(seen) + 1
        BY <2>2, <3>3
      <3> QED
        BY <2>2, <3>1, <3>2, <3>3
    <2> QED
      BY <2>1, <2>3 DEF EventsInOrder
  <1>4. ASSUME outcome = "none", NEW event \in Events, Folding(event)
        PROVE  EventsInOrder'
    <2>1. seen' = applied' \o Tail(inbox) /\ Tail(inbox) \in Seq(Events)
          /\ applied' \in Seq(Events)
      BY <1>0, <1>4, MoveHead, AppendProperties DEF Folding, EventsInOrder
    <2>2. applied' = SubSeq(seen', 1, Len(applied'))
      BY <2>1, FirstPart
    <2>3. \A i, j \in 1..Len(seen') : seen'[i] = seen'[j] => i = j
      BY <1>4 DEF Folding, EventsInOrder
    <2>4. CASE inbox' = Tail(inbox) /\ UNCHANGED outcome
      BY <1>4, <2>1, <2>3, <2>4 DEF EventsInOrder
    <2>5. CASE inbox' = <<>> /\ outcome' = "completed"
      BY <2>2, <2>3, <2>5 DEF EventsInOrder
    <2> QED
      BY <1>4, <2>4, <2>5 DEF Folding
  <1> QED
    BY <1>1, <1>2, <1>3, <1>4, EventSteps

(* No accepted event is lost, repeated or reordered, whatever holds,       *)
(* reviews, failures and duplicates come between receive_event and the     *)
(* loop that folds the event into the order.                               *)
THEOREM EventsKept == Spec => []EventsInOrder
  <1>1. Init => EventsInOrder
    <2>1. <<>> \o <<>> = <<>>
      OBVIOUS
    <2> QED
      BY <2>1 DEF Init, EventsInOrder
  <1>2. TypeOK /\ PlacesAgree /\ EventsInOrder /\ [Next]_vars => EventsInOrder'
    BY NextEventsInOrder
  <1> QED
    BY <1>1, <1>2, TypeCorrect, PTL DEF Spec

-----------------------------------------------------------------------------
(* Deadlines and holds.                                                    *)

(* The overdue flag is raised only where the main loop will see it.        *)
OverduePlaces ==
  overdue => \/ pc \in {"dispatch", "held"}
             \/ pc \in {"flush", "recovery"} /\ then = "dispatch"

Deadlines == DeadlinesKept /\ OverduePlaces

LEMMA NextDeadlines ==
  ASSUME TypeOK, PlacesAgree, Deadlines, [Next]_vars
  PROVE  Deadlines'
  <1> USE DEF Deadlines, DeadlinesKept, OverduePlaces, IsBlocked
  <1>1. CASE Begin \/ FinishTermination \/ HoldOverdue \/ HoldWaits \/ CatchUp
    BY <1>1 DEF Begin, FinishTermination, HoldOverdue, HoldWaits, CatchUp, Finalize, StartReview,
                DeferScheduledWake, Return, WakeDeadlineHasPassed
  <1>2. CASE TakeEvents \/ ReviewOnTime \/ GoToSleep
    BY <1>2 DEF TakeEvents, ReviewOnTime, GoToSleep, Proceed, ScheduleNextWake, StartReview,
                WakeDeadlineHasPassed
  <1>3. CASE SleepEnds \/ SleepTimesOut \/ HoldEnds \/ HoldTimesOut
    BY <1>3 DEF SleepEnds, SleepTimesOut, HoldEnds, HoldTimesOut, StartReview,
                DeferScheduledWake, Return, WakeDeadlineHasPassed
  <1>4. CASE HandleEvents
    BY <1>4 DEF HandleEvents, LeaveEvents, Apply, SuppressWake, WakeSupervisor, FinishDelivery,
                StartReview, Finalize, Return
  <1>5. CASE Review
    BY <1>5 DEF Review, ReviewFails, ReviewDecides, ConcludeReview, RejectProposal,
                SuppressProposal, StartAction, ActionExecuted, ActionFails, ScheduleNextWake,
                Return
  <1>6. CASE FinishReport \/ Flush
    BY <1>6 DEF FinishReport, Flush, FlushEnds, PersistSucceeds, PersistFails, RecoveryEnds,
                Return, TypeOK, Returns
  <1>7. CASE Signal
    BY <1>7 DEF Signal, receive_event, receive_duplicate, add_instruction, pause, interrupt,
                resume, request_termination, Control
  <1>8. CASE DeadlinePasses \/ Finished \/ UNCHANGED vars
    BY <1>8 DEF DeadlinePasses, Finished, vars
  <1> QED
    BY <1>1, <1>2, <1>3, <1>4, <1>5, <1>6, <1>7, <1>8 DEF Next, Coroutine, MainLoop

LEMMA DeadlinesCorrect == Spec => []Deadlines
  <1>1. Init => Deadlines
    BY DEF Init, Deadlines, DeadlinesKept, OverduePlaces
  <1>2. TypeOK /\ PlacesAgree /\ Deadlines /\ [Next]_vars => Deadlines'
    BY NextDeadlines
  <1> QED
    BY <1>1, <1>2, TypeCorrect, PTL DEF Spec

(* A sleeping run has a deadline, and a deadline noted as overdue is one   *)
(* that passed under a hold and that the operator, or the resume that the  *)
(* main loop has still to see, accounts for.                               *)
THEOREM DeadlinesSet == Spec => []DeadlinesKept
  <1>1. Deadlines => DeadlinesKept
    BY DEF Deadlines
  <1> QED
    BY <1>1, DeadlinesCorrect, PTL

(* The overdue flag is given up only for the review it stands for, or for  *)
(* the end of the run: no deadline that _schedule_next_wake sets and no    *)
(* review of an event swallows it.                                         *)
THEOREM OverdueKept == Spec => OverdueAnswered
  <1> DEFINE Answered ==
        overdue /\ ~overdue' => finalizing' \/ (pc = "dispatch" /\ pc' = "review")
  <1>1. TypeOK /\ Deadlines /\ [Next]_vars => [Answered]_vars
    <2> SUFFICES ASSUME TypeOK, Deadlines, Next, overdue, ~overdue'
                 PROVE  finalizing' \/ (pc = "dispatch" /\ pc' = "review")
      OBVIOUS
    <2>1. CASE MainLoop
      BY <2>1 DEF MainLoop, Begin, FinishTermination, HoldOverdue, HoldWaits, CatchUp,
                  TakeEvents, ReviewOnTime, GoToSleep, Proceed, SleepEnds, SleepTimesOut,
                  HoldEnds, HoldTimesOut, DeferScheduledWake, Finalize, StartReview,
                  Deadlines, DeadlinesKept, OverduePlaces
    <2>2. CASE HandleEvents \/ Review
      BY <2>2 DEF HandleEvents, LeaveEvents, SuppressWake, WakeSupervisor, FinishDelivery, Apply,
                  Review, ReviewFails, ReviewDecides, ConcludeReview, RejectProposal,
                  SuppressProposal, StartAction, ActionExecuted, ActionFails,
                  Deadlines, OverduePlaces
    <2>3. CASE FinishReport \/ Flush
      BY <2>3 DEF FinishReport, Flush, FlushEnds, PersistSucceeds, PersistFails, RecoveryEnds
    <2>4. CASE Signal \/ DeadlinePasses \/ Finished
      BY <2>4 DEF Signal, receive_event, receive_duplicate, add_instruction, pause, interrupt,
                  resume, request_termination, Control, DeadlinePasses, Finished, vars
    <2> QED
      BY <2>1, <2>2, <2>3, <2>4 DEF Next, Coroutine
  <1> QED
    BY <1>1, TypeCorrect, DeadlinesCorrect, PTL DEF Spec, OverdueAnswered

(* A hold on display stays on display until it is lifted.                  *)
THEOREM HoldsShown == Spec => HoldStaysShown
  <1> DEFINE Stays == pc # "created" /\ HoldShown => HoldShown'
  <1>1. TypeOK /\ PlacesAgree /\ [Next]_vars => [Stays]_vars
    <2> SUFFICES ASSUME TypeOK, PlacesAgree, Next, pc # "created", HoldShown
                 PROVE  HoldShown'
      OBVIOUS
    <2> USE DEF HoldShown, IsBlocked
    <2>1. CASE MainLoop
      BY <2>1 DEF MainLoop, Begin, FinishTermination, HoldOverdue, HoldWaits, CatchUp,
                  TakeEvents, ReviewOnTime, GoToSleep, Proceed, SleepEnds, SleepTimesOut,
                  HoldEnds, HoldTimesOut, DeferScheduledWake, Finalize, StartReview,
                  ScheduleNextWake, NormalWaitCondition
    <2>2. CASE HandleEvents
      BY <2>2 DEF HandleEvents, LeaveEvents, SuppressWake, WakeSupervisor, FinishDelivery, Apply,
                  EventsMayContinue, StartReview, Finalize
    <2>3. CASE Review
      BY <2>3 DEF Review, ReviewFails, ReviewDecides, ConcludeReview, RejectProposal,
                  SuppressProposal, StartAction, ActionExecuted, ActionFails, ScheduleNextWake
    <2>4. CASE FinishReport \/ Flush
      BY <2>4 DEF FinishReport, Flush, FlushEnds, PersistSucceeds, PersistFails, RecoveryEnds,
                  PlacesAgree, ClosingReturns
    <2>5. CASE Signal \/ DeadlinePasses \/ Finished
      BY <2>5 DEF Signal, receive_event, receive_duplicate, add_instruction, pause, interrupt,
                  resume, request_termination, Control, DeadlinePasses, Finished, vars
    <2> QED
      BY <2>1, <2>2, <2>3, <2>4, <2>5 DEF Next, Coroutine
  <1> QED
    BY <1>1, TypeCorrect, PTL DEF Spec, HoldStaysShown

-----------------------------------------------------------------------------
(* The outcome.                                                            *)

(* Only a delivery closes an order.                                        *)
LEMMA Lifecycles ==
  ASSUME NEW o \in OrderState, NEW type
  PROVE  /\ ApplyEvent(o, "delivered").lifecycle = "completed"
         /\ type # "delivered" /\ o.lifecycle # "completed" =>
              ApplyEvent(o, type).lifecycle # "completed"
  BY DEF ApplyEvent, OrderState

CauseOfOutcome ==
  /\ outcome = "completed" <=> order.lifecycle = "completed"
  /\ outcome = "terminated" => terminating
  /\ outcome = "completed" => ~terminating /\ TypeOf[applied[Len(applied)]] = "delivered"

LEMMA NextCauseOfOutcome ==
  ASSUME TypeOK, PlacesAgree, CauseOfOutcome, [Next]_vars
  PROVE  CauseOfOutcome'
  <1> USE DEF CauseOfOutcome
  <1>1. CASE MainLoop
    <2>1. CASE FinishTermination
      BY <2>1 DEF FinishTermination, Finalize, PlacesAgree, ClosingReturns
    <2>2. CASE ~FinishTermination
      BY <1>1, <2>2
      DEF MainLoop, Begin, HoldOverdue, HoldWaits, CatchUp, TakeEvents, ReviewOnTime, GoToSleep,
          Proceed, SleepEnds, SleepTimesOut, HoldEnds, HoldTimesOut
    <2> QED
      BY <2>1, <2>2
  <1>2. CASE LeaveEvents
    BY <1>2 DEF LeaveEvents
  <1>3. ASSUME NEW event \in Events, SuppressWake(event) \/ WakeSupervisor(event)
        PROVE  CauseOfOutcome'
    <2>1. pc = "events" /\ order' = ApplyEvent(order, TypeOf[event])
          /\ TypeOf[event] # "delivered" /\ UNCHANGED <<outcome, terminating>>
      BY <1>3 DEF SuppressWake, WakeSupervisor, Apply, ClassifyEvent
    <2>2. outcome = "none" /\ order \in OrderState
      BY <2>1 DEF PlacesAgree, ClosingReturns, TypeOK
    <2> QED
      BY <2>1, <2>2, Lifecycles
  <1>4. ASSUME NEW event \in Events, FinishDelivery(event)
        PROVE  CauseOfOutcome'
    <2>1. TypeOf[event] = "delivered" /\ order' = ApplyEvent(order, "delivered")
          /\ applied' = Append(applied, event) /\ ~terminating'
          /\ outcome' = "completed"
      BY <1>4, EventsAssumption
      DEF FinishDelivery, Apply, EventsMayContinue, ClassifyEvent, Finalize
    <2>2. order'.lifecycle = "completed"
      BY <2>1, Lifecycles DEF TypeOK
    <2>3. applied'[Len(applied')] = event
      BY <2>1, AppendProperties DEF TypeOK
    <2> QED
      BY <2>1, <2>2, <2>3
  <1>5. CASE Review \/ FinishReport \/ Flush
    BY <1>5
    DEF Review, ReviewFails, ReviewDecides, ConcludeReview, RejectProposal, SuppressProposal,
        StartAction, ActionExecuted, ActionFails, FinishReport, Flush, FlushEnds,
        PersistSucceeds, PersistFails, RecoveryEnds
  <1>6. CASE Signal
    BY <1>6
    DEF Signal, receive_event, receive_duplicate, add_instruction, pause, interrupt, resume,
        request_termination, Control, SignalArrives, SignalsAreClosed, PlacesAgree,
        ClosingReturns
  <1>7. CASE DeadlinePasses \/ Finished \/ UNCHANGED vars
    BY <1>7 DEF DeadlinePasses, Finished, vars
  <1> QED
    BY <1>1, <1>2, <1>3, <1>4, <1>5, <1>6, <1>7 DEF Next, Coroutine, HandleEvents

(* From the report on the status is the outcome, and from the last flush   *)
(* on nothing is owed to the store.                                        *)
ShownAndStored ==
  /\ then \in {"close", "done"} => status = outcome
  /\ then = "done" => pending = <<>>

LEMMA NextShownAndStored ==
  ASSUME TypeOK, PlacesAgree, ShownAndStored, [Next]_vars
  PROVE  ShownAndStored'
  <1> USE DEF ShownAndStored
  <1>1. CASE MainLoop
    BY <1>1 DEF MainLoop, Begin, FinishTermination, HoldOverdue, HoldWaits, CatchUp,
                TakeEvents, ReviewOnTime, GoToSleep, Proceed, SleepEnds, SleepTimesOut,
                HoldEnds, HoldTimesOut, DeferScheduledWake, Finalize, StartReview, Return,
                PlacesAgree, ClosingReturns
  <1>2. CASE HandleEvents \/ Review
    BY <1>2 DEF HandleEvents, LeaveEvents, SuppressWake, WakeSupervisor, FinishDelivery, Apply,
                StartReview, Finalize, Review, ReviewFails, ReviewDecides, ConcludeReview,
                RejectProposal, SuppressProposal, StartAction, ActionExecuted, ActionFails,
                Return, PlacesAgree, ClosingReturns
  <1>3. CASE FinishReport \/ Flush
    BY <1>3 DEF FinishReport, Flush, FlushEnds, PersistSucceeds, PersistFails, RecoveryEnds,
                Return, PlacesAgree, ClosingReturns
  <1>4. CASE Signal
    BY <1>4
    DEF Signal, receive_event, receive_duplicate, add_instruction, pause, interrupt, resume,
        request_termination, Control, SignalArrives, SignalsAreClosed, PlacesAgree,
        ClosingReturns
  <1>5. CASE DeadlinePasses \/ Finished \/ UNCHANGED vars
    BY <1>5 DEF DeadlinePasses, Finished, vars
  <1> QED
    BY <1>1, <1>2, <1>3, <1>4, <1>5 DEF Next, Coroutine

(* The outcome is decided once, by a delivery that was folded into the     *)
(* order or by a request for termination, never by both; and a run that    *)
(* returned from run() shows it, has its report and owes nothing.          *)
THEOREM OutcomeOnce == Spec => []OutcomeDecided
  <1>1. Init => CauseOfOutcome /\ ShownAndStored
    BY DEF Init, NewOrder, CauseOfOutcome, ShownAndStored
  <1>2. TypeOK /\ PlacesAgree /\ CauseOfOutcome /\ ShownAndStored /\ [Next]_vars
          => (CauseOfOutcome /\ ShownAndStored)'
    BY NextCauseOfOutcome, NextShownAndStored
  <1>3. PlacesAgree /\ CauseOfOutcome /\ ShownAndStored => OutcomeDecided
    BY DEF PlacesAgree, ClosingReturns, CauseOfOutcome, ShownAndStored, OutcomeDecided
  <1> QED
    BY <1>1, <1>2, <1>3, TypeCorrect, PTL DEF Spec

-----------------------------------------------------------------------------
(* The semantic action guard.                                              *)

(* A cause is the start of the run or an event already folded in.          *)
Caused(c) == c = "workflow_start" \/ \E i \in 1..Len(applied) : applied[i] = c

(* What was reported executed for the current cause is in the guard, and   *)
(* nothing was reported for a cause that is still to come.                 *)
GuardKnows ==
  /\ Caused(cause)
  /\ \A deed \in confirmed :
       Caused(deed[1]) /\ (deed[1] = cause => deed[2] \in succeeded)

(* The event to be folded in next was never folded in before.              *)
LEMMA NextEventIsNew ==
  ASSUME TypeOK, EventsInOrder, outcome = "none", inbox # <<>>
  PROVE  Head(inbox) # "workflow_start" /\ ~Caused(Head(inbox))
  <1>1. inbox \in Seq(Events) /\ applied \in Seq(Events) /\ seen = applied \o inbox
    BY DEF TypeOK, EventsInOrder
  <1>2. Len(inbox) \in Nat \ {0} /\ Len(applied) \in Nat /\ Head(inbox) = inbox[1]
    BY <1>1, EmptySeq
  <1>3. /\ Len(seen) = Len(applied) + Len(inbox)
        /\ \A i \in 1..(Len(applied) + Len(inbox)) :
             seen[i] = IF i <= Len(applied) THEN applied[i] ELSE inbox[i - Len(applied)]
    BY <1>1, ConcatProperties
  <1>4. Len(applied) + 1 \in 1..Len(seen) /\ seen[Len(applied) + 1] = Head(inbox)
    BY <1>2, <1>3
  <1>5. Head(inbox) # "workflow_start"
    BY <1>1, StartAssumption, HeadTailProperties
  <1>6. ASSUME NEW i \in 1..Len(applied), applied[i] = Head(inbox)
        PROVE  FALSE
    <2>1. i \in 1..Len(seen) /\ seen[i] = seen[Len(applied) + 1] /\ i # Len(applied) + 1
      BY <1>2, <1>3, <1>4, <1>6
    <2> QED
      BY <1>4, <2>1 DEF EventsInOrder
  <1> QED
    BY <1>5, <1>6 DEF Caused

(* A cause stays one when another event is folded in.                      *)
LEMMA CausedStays ==
  ASSUME TypeOK, NEW event \in Events, applied' = Append(applied, event)
  PROVE  Caused(event)' /\ \A c : Caused(c) => Caused(c)'
  <1>1. /\ Len(applied) \in Nat /\ Len(applied') = Len(applied) + 1
        /\ \A i \in 1..Len(applied) : applied'[i] = applied[i]
        /\ applied'[Len(applied) + 1] = event
    BY AppendProperties, LenProperties DEF TypeOK
  <1> QED
    BY <1>1 DEF Caused

LEMMA NextGuardKnows ==
  ASSUME TypeOK, PlacesAgree, EventsInOrder, GuardKnows, [Next]_vars
  PROVE  GuardKnows'
  <1>1. CASE UNCHANGED <<applied, cause, succeeded, confirmed>>
    BY <1>1 DEF GuardKnows, Caused
  <1>2. CASE ActionExecuted
    <2>1. UNCHANGED <<applied, cause>>
          /\ succeeded' = succeeded \cup {Head(proposals)}
          /\ confirmed' = confirmed \cup {<<cause, Head(proposals)>>}
      BY <1>2 DEF ActionExecuted
    <2>2. Caused(cause)' /\ \A c : Caused(c)' <=> Caused(c)
      BY <2>1 DEF GuardKnows, Caused
    <2> QED
      BY <2>1, <2>2 DEF GuardKnows
  <1>3. ASSUME NEW event \in Events, SuppressWake(event) \/ FinishDelivery(event)
        PROVE  GuardKnows'
    <2>1. applied' = Append(applied, event) /\ UNCHANGED <<cause, succeeded, confirmed>>
      BY <1>3 DEF SuppressWake, FinishDelivery, Apply
    <2> QED
      BY <2>1, CausedStays DEF GuardKnows
  <1>4. ASSUME NEW event \in Events, WakeSupervisor(event)
        PROVE  GuardKnows'
    <2>1. /\ applied' = Append(applied, event) /\ cause' = event /\ UNCHANGED confirmed
          /\ pc = "events" /\ inbox # <<>> /\ event = Head(inbox)
      BY <1>4 DEF WakeSupervisor, Apply, EventsMayContinue
    <2>2. ~Caused(event)
      BY <2>1, NextEventIsNew DEF PlacesAgree, ClosingReturns
    <2>3. Caused(event)' /\ \A c : Caused(c) => Caused(c)'
      BY <2>1, CausedStays
    <2>4. \A deed \in confirmed : Caused(deed[1]) /\ deed[1] # event
      BY <2>2 DEF GuardKnows
    <2> QED
      BY <2>1, <2>3, <2>4 DEF GuardKnows
  <1>5. CASE MainLoop \/ LeaveEvents \/ FinishReport \/ Flush
    BY <1>1, <1>5
    DEF MainLoop, Begin, FinishTermination, HoldOverdue, HoldWaits, CatchUp, TakeEvents,
        ReviewOnTime, GoToSleep, SleepEnds, SleepTimesOut, HoldEnds, HoldTimesOut,
        LeaveEvents, FinishReport, Flush, FlushEnds, PersistSucceeds, PersistFails,
        RecoveryEnds
  <1>6. CASE Review /\ ~ActionExecuted
    BY <1>1, <1>6
    DEF Review, ReviewFails, ReviewDecides, ConcludeReview, RejectProposal, SuppressProposal,
        StartAction, ActionFails
  <1>7. CASE Signal \/ DeadlinePasses \/ Finished \/ UNCHANGED vars
    BY <1>1, <1>7
    DEF Signal, receive_event, receive_duplicate, add_instruction, pause, interrupt, resume,
        request_termination, Control, DeadlinePasses, Finished, vars
  <1> QED
    BY <1>2, <1>3, <1>4, <1>5, <1>6, <1>7 DEF Next, Coroutine, HandleEvents

(* An action that was reported executed is not started again for the same  *)
(* cause, in this review or a later one.  It rests on the order of events: *)
(* a cause that came back would find its guard emptied.                    *)
THEOREM ActionsOnce == Spec => OncePerCause
  <1>1. Init => GuardKnows
    BY DEF Init, GuardKnows, Caused
  <1>2. TypeOK /\ PlacesAgree /\ EventsInOrder /\ GuardKnows /\ [Next]_vars => GuardKnows'
    BY NextGuardKnows
  <1> DEFINE Once == pc' = "action" /\ pc # "action" => <<cause, Head(proposals)>> \notin confirmed
  <1>3. TypeOK /\ GuardKnows /\ [Next]_vars => [Once]_vars
    <2> SUFFICES ASSUME TypeOK, GuardKnows, Next, pc' = "action", pc # "action"
                 PROVE  <<cause, Head(proposals)>> \notin confirmed
      OBVIOUS
    <2>1. CASE StartAction
      BY <2>1 DEF StartAction, GuardKnows
    <2>2. CASE ~StartAction
      <3>1. ~(MainLoop \/ HandleEvents)
        BY DEF MainLoop, Begin, FinishTermination, HoldOverdue, HoldWaits, CatchUp, TakeEvents,
               ReviewOnTime, GoToSleep, SleepEnds, SleepTimesOut, HoldEnds, HoldTimesOut,
               DeferScheduledWake, Return, Finalize, StartReview, HandleEvents, LeaveEvents,
               SuppressWake, WakeSupervisor, FinishDelivery, Apply
      <3>2. ~(Review \/ FinishReport \/ Flush)
        BY <2>2 DEF Review, ReviewFails, ReviewDecides, ConcludeReview, RejectProposal,
               SuppressProposal, ActionExecuted, ActionFails, FinishReport, Flush, FlushEnds,
               PersistSucceeds, PersistFails, RecoveryEnds, Return, TypeOK, Returns
      <3>3. ~(Signal \/ DeadlinePasses \/ Finished)
        BY DEF Signal, receive_event, receive_duplicate, add_instruction, pause, interrupt,
               resume, request_termination, Control, DeadlinePasses, Finished, vars
      <3> QED
        BY <3>1, <3>2, <3>3 DEF Next, Coroutine
    <2> QED
      BY <2>1, <2>2
  <1> QED
    BY <1>1, <1>2, <1>3, TypeCorrect, EventsKept, PTL DEF Spec, OncePerCause

-----------------------------------------------------------------------------
(* The workflow implements the safety part of SupervisionContract, for     *)
(* every set of events, actions and decisions: the steps that change what  *)
(* the contract speaks of, one by one, and all others stutter.             *)

Busy == pc \in {"review", "action"}

ContractStep == [Contract!ContractNext]_(Contract!contractVars)

(* What the contract sees of the workflow is unchanged.                    *)
LEMMA Stutters ==
  ASSUME UNCHANGED <<ContractPhase, seen, applied, Busy, outcome>>
  PROVE  ContractStep
  BY DEF ContractStep, Contract!contractVars, Busy

(* Reviews and actions start while the run is open.                        *)
LEMMA StartsWork ==
  ASSUME ContractPhase = "open", ContractPhase' = "open", ~Busy, Busy',
         UNCHANGED <<seen, applied, outcome>>
  PROVE  ContractStep
  BY DEF ContractStep, Contract!ContractNext, Contract!StartWork, Busy

LEMMA FinishesWork ==
  ASSUME Busy, ~Busy', UNCHANGED <<ContractPhase, seen, applied, outcome>>
  PROVE  ContractStep
  BY DEF ContractStep, Contract!ContractNext, Contract!FinishWork, Busy

(* The outcome is open wherever Signals are, and before the final report.  *)
LEMMA OutcomeOpen ==
  ASSUME PlacesAgree
  PROVE  /\ pc \in {"created", "dispatch", "events", "review", "actions", "action", "sleep",
                    "held"} => outcome = "none"
         /\ ~SignalsAreClosed => outcome = "none" /\ ~terminating
  BY DEF PlacesAgree, ClosingReturns, SignalsAreClosed

LEMMA MainLoopImplements ==
  ASSUME TypeOK, PlacesAgree, MainLoop
  PROVE  ContractStep
  <1> USE OutcomeOpen DEF ContractPhase, Busy, IsBlocked
  <1>1. CASE Begin
    <2>1. CASE IsBlocked \/ terminating
      BY <1>1, <2>1, Stutters DEF Begin, Return
    <2>2. CASE ~(IsBlocked \/ terminating)
      BY <1>1, <2>2, StartsWork DEF Begin, StartReview
    <2> QED
      BY <2>1, <2>2
  <1>2. CASE FinishTermination
    BY <1>2 DEF FinishTermination, Finalize, ContractStep, Contract!ContractNext, Contract!Stop
  <1>3. CASE HoldOverdue \/ HoldWaits \/ TakeEvents \/ GoToSleep
    BY <1>3, Stutters DEF HoldOverdue, HoldWaits, TakeEvents, GoToSleep, Proceed,
                          DeferScheduledWake, Return
  <1>4. CASE CatchUp \/ ReviewOnTime
    BY <1>4, StartsWork DEF CatchUp, ReviewOnTime, Proceed, StartReview
  <1>5. CASE SleepEnds \/ HoldEnds \/ HoldTimesOut
    BY <1>5, Stutters DEF SleepEnds, HoldEnds, HoldTimesOut, DeferScheduledWake, Return
  <1>6. CASE SleepTimesOut
    BY <1>6, StartsWork DEF SleepTimesOut, NormalWaitCondition, StartReview
  <1> QED
    BY <1>1, <1>2, <1>3, <1>4, <1>5, <1>6 DEF MainLoop

LEMMA EventsImplement ==
  ASSUME TypeOK, PlacesAgree, EventsInOrder, HandleEvents
  PROVE  ContractStep
  <1> USE DEF ContractPhase, Busy, IsBlocked
  <1>1. CASE LeaveEvents
    BY <1>1, OutcomeOpen, Stutters DEF LeaveEvents, Return
  <1>2. ASSUME NEW event \in Events,
               SuppressWake(event) \/ WakeSupervisor(event) \/ FinishDelivery(event)
        PROVE  ContractStep
    <2>1. /\ pc = "events" /\ outcome = "none" /\ ~terminating /\ ~IsBlocked
          /\ inbox # <<>> /\ event = Head(inbox)
          /\ applied' = Append(applied, event) /\ UNCHANGED seen
      BY <1>2, OutcomeOpen
      DEF SuppressWake, WakeSupervisor, FinishDelivery, Apply, EventsMayContinue
    <2>2. Len(applied) < Len(seen) /\ event = seen[Len(applied) + 1]
      <3>1. inbox \in Seq(Events) /\ applied \in Seq(Events) /\ seen = applied \o inbox
        BY <2>1 DEF TypeOK, EventsInOrder
      <3>2. Len(inbox) \in Nat \ {0} /\ Len(applied) \in Nat /\ Head(inbox) = inbox[1]
        BY <2>1, <3>1, EmptySeq
      <3>3. /\ Len(seen) = Len(applied) + Len(inbox)
            /\ \A i \in 1..(Len(applied) + Len(inbox)) :
                 seen[i] = IF i <= Len(applied) THEN applied[i] ELSE inbox[i - Len(applied)]
        BY <3>1, ConcatProperties
      <3> QED
        BY <2>1, <3>2, <3>3
    <2>3. CASE FinishDelivery(event)
      <3>1. ClassifyEvent(TypeOf[event]) = "complete" /\ outcome' = "completed" /\ pc' = "flush"
        BY <2>3 DEF FinishDelivery, Finalize
      <3>2. Contract!Apply(event)
        BY <2>1, <2>2, <3>1 DEF Contract!Apply
      <3> QED
        BY <3>2 DEF ContractStep, Contract!ContractNext
    <2>4. CASE SuppressWake(event) \/ WakeSupervisor(event)
      <3>1. /\ ClassifyEvent(TypeOf[event]) # "complete"
            /\ pc' # "done" /\ UNCHANGED <<outcome, terminating, paused, interrupted>>
        BY <2>1, <2>4 DEF SuppressWake, WakeSupervisor, StartReview
      <3>2. Contract!Apply(event)
        BY <2>1, <2>2, <3>1 DEF Contract!Apply
      <3> QED
        BY <3>2 DEF ContractStep, Contract!ContractNext
    <2> QED
      BY <1>2, <2>3, <2>4
  <1> QED
    BY <1>1, <1>2 DEF HandleEvents

LEMMA ReviewImplements ==
  ASSUME TypeOK, PlacesAgree, Review
  PROVE  ContractStep
  <1> USE OutcomeOpen DEF ContractPhase, Busy, IsBlocked
  <1>1. CASE ReviewFails \/ ReviewDecides \/ ActionExecuted \/ ActionFails
    BY <1>1, FinishesWork DEF ReviewFails, ReviewDecides, ActionExecuted, ActionFails, Return
  <1>2. CASE ConcludeReview \/ RejectProposal \/ SuppressProposal
    BY <1>2, Stutters DEF ConcludeReview, RejectProposal, SuppressProposal, Return
  <1>3. CASE StartAction
    BY <1>3, StartsWork DEF StartAction, MayExecute
  <1> QED
    BY <1>1, <1>2, <1>3 DEF Review

(* The run ends where the flush after the report returns.                  *)
LEMMA EndImplements ==
  ASSUME TypeOK, PlacesAgree, FinishReport \/ Flush
  PROVE  ContractStep
  <1> USE DEF ContractPhase, Busy, IsBlocked
  <1>1. CASE FlushEnds /\ then = "done"
    <2>1. outcome # "none" /\ pc = "flush" /\ pc' = "done" /\ UNCHANGED <<seen, applied, outcome>>
      BY <1>1 DEF FlushEnds, PlacesAgree, ClosingReturns
    <2> QED
      BY <2>1 DEF ContractStep, Contract!ContractNext, Contract!End
  <1>2. CASE FlushEnds /\ then # "done"
    BY <1>2, Stutters DEF FlushEnds, Return, TypeOK, Returns
  <1>3. CASE FinishReport \/ PersistSucceeds \/ PersistFails \/ RecoveryEnds
    BY <1>3, Stutters DEF FinishReport, PersistSucceeds, PersistFails, RecoveryEnds, Return
  <1> QED
    BY <1>1, <1>2, <1>3 DEF Flush

LEMMA SignalsImplement ==
  ASSUME TypeOK, PlacesAgree, Signal
  PROVE  ContractStep
  <1> USE DEF ContractPhase, Busy, IsBlocked
  <1>1. pc # "done" /\ UNCHANGED <<pc, outcome>> /\ outcome = "none" /\ ~terminating
    BY OutcomeOpen DEF Signal, receive_event, receive_duplicate, add_instruction, pause,
       interrupt, resume, request_termination, Control, SignalArrives, Suspended
  <1>2. ASSUME NEW event \in Events, receive_event(event)
        PROVE  ContractStep
    <2>1. Contract!Accept(event)
      BY <1>1, <1>2 DEF receive_event, Contract!Accept
    <2> QED
      BY <2>1 DEF ContractStep, Contract!ContractNext
  <1>3. CASE add_instruction \/ \E event \in Events : receive_duplicate(event)
    BY <1>1, <1>3, Stutters DEF add_instruction, receive_duplicate
  <1>4. CASE pause \/ interrupt
    <2>1. IsBlocked' /\ UNCHANGED <<terminating, seen, applied>>
      BY <1>4 DEF pause, interrupt, Control
    <2>2. CASE IsBlocked
      BY <1>1, <2>1, <2>2, Stutters
    <2>3. CASE ~IsBlocked
      BY <1>1, <2>1, <2>3 DEF ContractStep, Contract!ContractNext, Contract!Hold
    <2> QED
      BY <2>2, <2>3
  <1>5. CASE resume
    BY <1>1, <1>5 DEF resume, Control, ContractStep, Contract!ContractNext, Contract!Release
  <1>6. CASE request_termination
    BY <1>1, <1>6 DEF request_termination, ContractStep, Contract!ContractNext,
                      Contract!RequestStop
  <1> QED
    BY <1>2, <1>3, <1>4, <1>5, <1>6 DEF Signal

(* Whatever holds, failures, retries and deadlines do, the workflow does   *)
(* what the contract allows: events folded in once and in order, work only *)
(* while the run is open, one outcome, and no reopening.                   *)
THEOREM WorkflowImplementsContract == Spec => ImplementsContract
  <1>1. Init => Contract!ContractInit
    BY DEF Init, Contract!ContractInit, ContractPhase, IsBlocked
  <1>2. TypeOK /\ PlacesAgree /\ EventsInOrder /\ [Next]_vars => ContractStep
    <2> SUFFICES ASSUME TypeOK, PlacesAgree, EventsInOrder, [Next]_vars
                 PROVE  ContractStep
      OBVIOUS
    <2>1. CASE DeadlinePasses \/ Finished \/ UNCHANGED vars
      BY <2>1, Stutters DEF DeadlinePasses, Finished, vars, ContractPhase, Busy, IsBlocked
    <2> QED
      BY <2>1, MainLoopImplements, EventsImplement, ReviewImplements, EndImplements,
         SignalsImplement DEF Next, Coroutine
  <1> QED
    BY <1>1, <1>2, TypeCorrect, EventsKept, PTL
    DEF Spec, ImplementsContract, ContractStep, Contract!ContractSafety
=============================================================================
