-------------------------- MODULE RunControls_proofs --------------------------
(***************************************************************************)
(* Theorems about RunControls, for every set of requests, whatever each of *)
(* them asks for.                                                          *)
(***************************************************************************)
EXTENDS RunControls, OrderWorkflowSafety_proofs

USE DEF holdVars, signalVars, closeVars, wakeVars, eventVars, guardVars, auditVars

(* A request never reaches into the workflow: a step of the endpoints      *)
(* leaves it alone, and a Signal that is delivered is a Signal of it.      *)
LEMMA ControlSteps == [ControlNext]_controlVars => [Next]_vars
  <1> SUFFICES ASSUME ControlNext PROVE [Next]_vars
    BY DEF controlVars
  <1>1. CASE Coroutine \/ DeadlinePasses \/ Finished
    BY <1>1 DEF Next
  <1>2. CASE Deliver
    BY <1>2 DEF Deliver, Handler, Signal, Next
  <1>3. CASE HandlerReturns \/ \E r \in Requests : Admit(r) \/ SendSignal(r) \/ SendFails(r)
    BY <1>3 DEF HandlerReturns, Admit, SendSignal, SendFails
  <1> QED
    BY <1>1, <1>2, <1>3 DEF ControlNext

(* Behind its endpoints the workflow is the workflow: everything that is   *)
(* proved about OrderWorkflow holds of the run that the API controls.      *)
THEOREM ControlsImplementWorkflow == ControlSpec => Spec
  <1>1. ControlInit => Init
    BY DEF ControlInit
  <1> QED
    BY <1>1, ControlSteps, PTL DEF ControlSpec, Spec

LEMMA NextControlType ==
  ASSUME ControlTypeOK, [ControlNext]_controlVars
  PROVE  ControlTypeOK'
  <1> USE DEF ControlTypeOK, requestVars
  <1>1. CASE UNCHANGED requestVars
    BY <1>1
  <1>2. CASE Deliver \/ HandlerReturns
    BY <1>2, HeadTailProperties DEF Deliver, HandlerReturns
  <1>3. ASSUME NEW r \in Requests, Admit(r) \/ SendSignal(r) \/ SendFails(r)
        PROVE  ControlTypeOK'
    <2>1. mailbox' \in Seq(Requests)
      BY <1>3, AppendProperties DEF Admit, SendSignal, SendFails
    <2>2. answer' \in [Requests -> {"none", "admitted", "conflict", "accepted", "unavailable"}]
      BY <1>3 DEF Admit, SendSignal, SendFails, Answer
    <2> QED
      BY <2>1, <2>2
  <1> QED
    BY <1>1, <1>2, <1>3 DEF ControlNext, controlVars

(* Every request of a run gets one of the answers the API documents.       *)
THEOREM ControlTypeCorrect == ControlSpec => []ControlTypeOK
  <1>1. ControlInit => ControlTypeOK
    BY DEF ControlInit, ControlTypeOK
  <1> QED
    BY <1>1, NextControlType, PTL DEF ControlSpec

-----------------------------------------------------------------------------
(* An accepted event.                                                      *)

InMailbox(r) == \E i \in 1..Len(mailbox) : mailbox[i] = r
Known(event) == \E i \in 1..Len(seen) : seen[i] = event

(* Once a run is being closed it stays so, and known events stay known.    *)
LEMMA ClosingStays ==
  ASSUME TypeOK, PlacesAgree, [Next]_vars, Closing
  PROVE  Closing'
  <1>1. terminating => terminating'
    <2>1. CASE MainLoop
      BY <2>1 DEF MainLoop, Begin, FinishTermination, HoldOverdue, HoldWaits, CatchUp, TakeEvents,
                  ReviewOnTime, GoToSleep, Proceed, SleepEnds, SleepTimesOut, HoldEnds,
                  HoldTimesOut
    <2>2. CASE HandleEvents \/ Review \/ FinishReport \/ Flush
      BY <2>2 DEF HandleEvents, LeaveEvents, SuppressWake, WakeSupervisor, FinishDelivery, Review,
                  ReviewFails, ReviewDecides, ConcludeReview, RejectProposal, SuppressProposal,
                  StartAction, ActionExecuted, ActionFails, FinishReport, Flush, FlushEnds,
                  PersistSucceeds, PersistFails, RecoveryEnds
    <2>3. CASE Signal \/ DeadlinePasses \/ Finished \/ UNCHANGED vars
      BY <2>3 DEF Signal, receive_event, receive_duplicate, add_instruction, pause, interrupt,
                  resume, request_termination, Control, DeadlinePasses, Finished, vars
    <2> QED
      BY <2>1, <2>2, <2>3 DEF Next, Coroutine
  <1>2. outcome # "none" => outcome' # "none"
    BY EventSteps DEF Arrived
  <1> QED
    BY <1>1, <1>2 DEF Closing

LEMMA KnownStays ==
  ASSUME TypeOK, PlacesAgree, [Next]_vars, NEW event, Known(event)
  PROVE  Known(event)'
  <1>1. CASE UNCHANGED seen
    BY <1>1 DEF Known
  <1>2. ASSUME NEW new \in Events, Arrival(new)
        PROVE  Known(event)'
    <2>1. /\ Len(seen) \in Nat /\ Len(seen') = Len(seen) + 1
          /\ \A i \in 1..Len(seen) : seen'[i] = seen[i]
      BY <1>2, AppendProperties, LenProperties DEF Arrival, TypeOK
    <2> QED
      BY <2>1 DEF Known
  <1> QED
    BY <1>1, <1>2, EventSteps DEF Arrived, Folding, Dropping

(* The handler of an event leaves it known.                                *)
LEMMA HandledIsKnown ==
  ASSUME TypeOK, NEW event \in Events, receive_event(event) \/ receive_duplicate(event)
  PROVE  Known(event)'
  <1>1. CASE receive_event(event)
    <2>1. Len(seen) \in Nat /\ Len(seen') = Len(seen) + 1 /\ seen'[Len(seen) + 1] = event
      BY <1>1, AppendProperties, LenProperties DEF receive_event, TypeOK
    <2> QED
      BY <2>1 DEF Known
  <1>2. CASE receive_duplicate(event)
    BY <1>2 DEF receive_duplicate, Known
  <1> QED
    BY <1>1, <1>2

(* What waits behind the head of the mailbox goes on waiting.              *)
LEMMA WaitsOn ==
  ASSUME ControlTypeOK, mailbox # <<>>, mailbox' = Tail(mailbox), NEW r, InMailbox(r),
         r # Head(mailbox)
  PROVE  InMailbox(r)'
  <1>1. /\ Len(mailbox) \in Nat \ {0} /\ Len(mailbox') = Len(mailbox) - 1
        /\ \A i \in 1..Len(mailbox') : mailbox'[i] = mailbox[i + 1]
        /\ Head(mailbox) = mailbox[1]
    BY HeadTailProperties, EmptySeq DEF ControlTypeOK
  <1>2. PICK i \in 1..Len(mailbox) : mailbox[i] = r
    BY DEF InMailbox
  <1>3. i # 1 /\ i - 1 \in 1..Len(mailbox') /\ mailbox'[i - 1] = r
    BY <1>1, <1>2
  <1> QED
    BY <1>3 DEF InMailbox

(* What was accepted joins the mailbox, and nothing leaves it by that.     *)
LEMMA JoinsMailbox ==
  ASSUME ControlTypeOK, NEW r \in Requests, mailbox' \in {mailbox, Append(mailbox, r)}
  PROVE  /\ \A q : InMailbox(q) => InMailbox(q)'
         /\ mailbox' = Append(mailbox, r) => InMailbox(r)'
  <1>1. CASE mailbox' = mailbox
    <2>1. mailbox # Append(mailbox, r)
      BY AppendProperties, LenProperties DEF ControlTypeOK
    <2> QED
      BY <1>1, <2>1 DEF InMailbox
  <1>2. CASE mailbox' = Append(mailbox, r)
    <2>1. /\ Len(mailbox) \in Nat /\ Len(mailbox') = Len(mailbox) + 1
          /\ \A i \in 1..Len(mailbox) : mailbox'[i] = mailbox[i]
          /\ mailbox'[Len(mailbox) + 1] = r
      BY <1>2, AppendProperties, LenProperties DEF ControlTypeOK
    <2> QED
      BY <2>1 DEF InMailbox
  <1> QED
    BY <1>1, <1>2

LEMMA NextAcceptedKept ==
  ASSUME TypeOK, PlacesAgree, ControlTypeOK, AcceptedEventKept, [ControlNext]_controlVars
  PROVE  AcceptedEventKept'
  <1> SUFFICES ASSUME NEW r \in Requests, Asks[r] \in Events, answer'[r] = "accepted"
               PROVE  InMailbox(r)' \/ Known(Asks[r])' \/ Closing'
    BY DEF AcceptedEventKept, InMailbox, Known
  <1>1. [Next]_vars
    BY ControlSteps
  <1>2. Known(Asks[r]) \/ Closing => Known(Asks[r])' \/ Closing'
    BY <1>1, KnownStays, ClosingStays
  <1>3. answer[r] = "accepted" => InMailbox(r) \/ Known(Asks[r]) \/ Closing
    BY DEF AcceptedEventKept, InMailbox, Known
  <1>4. CASE UNCHANGED requestVars
    BY <1>2, <1>3, <1>4 DEF requestVars, InMailbox
  <1>5. CASE Deliver
    <2>1. answer[r] = "accepted" /\ mailbox # <<>> /\ mailbox' = Tail(mailbox)
      BY <1>5 DEF Deliver
    <2>2. CASE r = Head(mailbox)
      <3>1. receive_event(Asks[r]) \/ receive_duplicate(Asks[r])
        BY <1>5, <2>2, OperationsAssumption DEF Deliver, Handler, Operations
      <3> QED
        BY <3>1, HandledIsKnown
    <2>3. CASE r # Head(mailbox)
      BY <1>2, <1>3, <2>1, <2>3, WaitsOn
    <2> QED
      BY <2>2, <2>3
  <1>6. CASE HandlerReturns
    <2>1. answer[r] = "accepted" /\ mailbox # <<>> /\ mailbox' = Tail(mailbox)
      BY <1>6 DEF HandlerReturns
    <2>2. CASE r = Head(mailbox)
      <3>1. SignalsAreClosed
        BY <1>6, <2>2, OperationsAssumption DEF HandlerReturns, Operations
      <3>2. Closing
        BY <3>1 DEF SignalsAreClosed, Closing, PlacesAgree, ClosingReturns
      <3> QED
        BY <1>2, <3>2
    <2>3. CASE r # Head(mailbox)
      BY <1>2, <1>3, <2>1, <2>3, WaitsOn
    <2> QED
      BY <2>2, <2>3
  <1>7. ASSUME NEW q \in Requests, Admit(q) \/ SendSignal(q) \/ SendFails(q)
        PROVE  InMailbox(r)' \/ Known(Asks[r])' \/ Closing'
    <2>1. mailbox' \in {mailbox, Append(mailbox, q)}
      BY <1>7 DEF Admit, SendSignal, SendFails
    <2>2. answer[r] = "accepted" \/ (r = q /\ mailbox' = Append(mailbox, q))
      BY <1>7 DEF Admit, SendSignal, SendFails, Answer, ControlTypeOK
    <2> QED
      BY <1>2, <1>3, <2>1, <2>2, JoinsMailbox
  <1> QED
    BY <1>4, <1>5, <1>6, <1>7 DEF ControlNext, controlVars

(* An event answered 202 is not dropped by a hold, a review or a sleep: it *)
(* waits for the workflow or the workflow knows it, unless the run is      *)
(* being closed.                                                           *)
THEOREM AcceptedKept == ControlSpec => []AcceptedEventKept
  <1>1. ControlInit => AcceptedEventKept
    BY DEF ControlInit, AcceptedEventKept
  <1>2. TypeOK /\ PlacesAgree /\ ControlTypeOK /\ AcceptedEventKept /\ [ControlNext]_controlVars
          => AcceptedEventKept'
    BY NextAcceptedKept
  <1> QED
    BY <1>1, <1>2, ControlsImplementWorkflow, TypeCorrect, ControlTypeCorrect, PTL DEF ControlSpec
=============================================================================
