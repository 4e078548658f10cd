--------------------------- MODULE OrderWorkflow ---------------------------
(***************************************************************************)
(* One execution of OrderSupervisorWorkflow: the main coroutine of         *)
(* backend/app/temporal/workflows.py, its Signal handlers, its durable     *)
(* timer, and the Activities it awaits.                                    *)
(*                                                                         *)
(* The Temporal event loop runs one piece of workflow code at a time: the  *)
(* coroutine keeps control until it awaits, and only then do Signal        *)
(* handlers, timers and Activity results get in.  "pc" is the place of the *)
(* coroutine.  At the places in Suspended it awaits; at the others it is   *)
(* running, and no handler and no clock tick is enabled.                   *)
(*                                                                         *)
(* A flush awaits one Activity per queued transition and is called from    *)
(* several places; "then" is the place it returns to.                      *)
(***************************************************************************)
EXTENDS Naturals, Sequences, OrderEvents

CONSTANTS
  Events,        \* the event ids that clients may inject
  TypeOf,        \* the EventType of each event
  Actions,       \* business actions enabled for this supervisor
  Decisions,     \* the proposal lists that a validated decision may carry
  Persistent,    \* the run has a run_id, so its transitions go to PostgreSQL
  MaxControls    \* bound on the operator Signals and duplicate events of a run

ASSUME EventsAssumption == TypeOf \in [Events -> EventType]
ASSUME StartAssumption == "workflow_start" \notin Events
ASSUME DecisionsAssumption == \A d \in Decisions : d \in Seq(STRING)
ASSUME ActionsAssumption == Actions \subseteq STRING
ASSUME BoundsAssumption == Persistent \in BOOLEAN /\ MaxControls \in Nat

VARIABLES
  pc, then,
  \* lifecycle and control state
  status, paused, interrupted, resumePending, wakeup, terminating,
  \* terminal transition
  finalizing, outcome, report,
  \* next_wake_at, the flag set when a wait saw it pass while blocked, and
  \* (history) whether it passed while blocked, whoever saw it
  nextWake, overdue, missed,
  \* _pending_events, _seen_event_ids in arrival order, order state,
  \* and the events folded into it
  inbox, seen, order, applied, instructions,
  \* semantic action guard and the proposals still to be handled
  cause, succeeded, proposals,
  \* _pending_transitions, and the run row of PostgreSQL
  pending, row,
  \* history: actions reported executed and audit rows written, by cause
  confirmed, committed,
  \* operator Signals and duplicates delivered so far (a model bound)
  controls

holdVars   == <<paused, interrupted>>
signalVars == <<resumePending, wakeup, terminating>>
closeVars  == <<finalizing, outcome, report>>
wakeVars   == <<nextWake, overdue, missed>>
eventVars  == <<inbox, seen, order, applied, instructions>>
guardVars  == <<cause, succeeded>>
auditVars  == <<confirmed, committed>>
vars == <<pc, then, status, holdVars, signalVars, closeVars, wakeVars,
          eventVars, guardVars, proposals, pending, row, auditVars, controls>>

-----------------------------------------------------------------------------
(* Status sets and the predicates the coroutine and the handlers test.     *)

Blocking == {"paused", "interrupted"}
Terminal == {"completed", "terminated"}
WorkflowStatus == {"starting", "running", "sleeping"} \cup Blocking \cup Terminal

IsBlocked == paused \/ interrupted

(* Fault: Signals stay open while the final report is generated.           *)
SignalsOpenDuringReport == status \in Terminal \/ terminating

SignalsAreClosed == status \in Terminal \/ terminating \/ finalizing

WakeDeadlineHasPassed == nextWake = "due"

NormalWaitCondition ==
  inbox # <<>> \/ wakeup \/ pending # <<>> \/ IsBlocked \/ terminating

(* Fault: the wait of a held run ignores termination.                      *)
BlockedWaitDeaf == ~IsBlocked

BlockedWaitCondition ==
  ~IsBlocked \/ wakeup \/ pending # <<>> \/ terminating

(* The coroutine awaits.  "created" is the time before run() is entered:   *)
(* Signals of the first activation are delivered to the instance there.    *)
Suspended ==
  \/ pc \in {"created", "review", "action", "report", "sleep", "held", "recovery"}
  \/ pc = "flush" /\ pending # <<>>

-----------------------------------------------------------------------------
(* _record_timeline: an entry carries the snapshot of the run that its     *)
(* transition writes to the run row.  The fields that one step gives more  *)
(* than one value are arguments, the others are those the step ends with.  *)

EntryType ==
  {"workflow_started", "workflow_sleeping", "workflow_paused", "workflow_resumed",
   "workflow_interrupted", "workflow_ended", "termination_requested",
   "finalization_authorized", "final_output_generated", "order_event_received",
   "duplicate_event_ignored", "instruction_added", "scheduled_wake",
   "scheduled_wake_deferred", "sleep_scheduled", "memory_updated",
   "supervisor_invocation", "supervisor_decision", "supervisor_fallback",
   "supervisor_wake_requested", "supervisor_wake_suppressed",
   "business_action_rejected", "business_action_suppressed", "business_action_failed"}

Snapshot(s, w) ==
  [status |-> s, wake |-> w, reason |-> outcome', report |-> report',
   order |-> order', applied |-> Len(applied'), instructions |-> instructions']

Record(kind, s, w) == [kind |-> kind, snapshot |-> Snapshot(s, w)]

Log(entries) == pending' = IF Persistent THEN pending \o entries ELSE pending

(* A record that shows the status and the wake-up time the step ends with. *)
Now(kind) == Record(kind, status', nextWake' # "none")

-----------------------------------------------------------------------------
(* Building blocks of several methods.                                     *)

(* Fault: the end of a review overwrites the status of a hold.             *)
ScheduleOverHold ==
  /\ nextWake' = "ahead"
  /\ overdue' = FALSE
  /\ UNCHANGED missed
  /\ status' = "sleeping"

(* _schedule_next_wake.  The interval is at least one second, so the new   *)
(* deadline is ahead; a hold taken during the review stays on display.     *)
ScheduleNextWake ==
  /\ nextWake' = "ahead"
  /\ overdue' = FALSE
  /\ UNCHANGED missed
  /\ status' = IF IsBlocked THEN status ELSE "sleeping"

(* _invoke_supervisor up to the Activity; the caller has tested the early  *)
(* return.  "first" is what the caller or the wake trigger records before. *)
StartReview(first, return) ==
  /\ status' = "running"
  /\ nextWake' = "none"
  /\ overdue' = FALSE
  /\ missed' = (missed /\ pc = "events")
  /\ Log(first \o <<Now("supervisor_invocation")>>)
  /\ pc' = "review"
  /\ then' = return

(* _finish_terminal up to its first await, with the clearing of the queue  *)
(* that _finish_termination and _finish_delivery do before they call it.   *)
Finalize(target) ==
  /\ finalizing' = TRUE
  /\ status' = "running"
  /\ paused' = FALSE
  /\ interrupted' = FALSE
  /\ nextWake' = "none"
  /\ overdue' = FALSE
  /\ missed' = FALSE
  /\ outcome' = target
  /\ inbox' = <<>>
  /\ UNCHANGED report
  /\ Log(<<Now("finalization_authorized")>>)
  /\ pc' = "flush"
  /\ then' = "report"

Return(place) == pc' = "flush" /\ then' = place

NewRun == [status |-> "starting", wake |-> FALSE, reason |-> "none", report |-> FALSE,
           order |-> NewOrder, applied |-> 0, instructions |-> 0]

Init ==
  /\ pc = "created" /\ then = "dispatch"
  /\ status = "starting" /\ paused = FALSE /\ interrupted = FALSE
  /\ resumePending = FALSE /\ wakeup = FALSE /\ terminating = FALSE
  /\ finalizing = FALSE /\ outcome = "none" /\ report = FALSE
  /\ nextWake = "none" /\ overdue = FALSE /\ missed = FALSE
  /\ inbox = <<>> /\ seen = <<>> /\ order = NewOrder /\ applied = <<>>
  /\ instructions = 0
  /\ cause = "workflow_start" /\ succeeded = {} /\ proposals = <<>>
  /\ pending = <<>> /\ row = NewRun
  /\ confirmed = {} /\ committed = {}
  /\ controls = 0

-----------------------------------------------------------------------------
(* run(): entry, and the branches of one turn of the main loop.            *)

(* The status is set to RUNNING whatever a Signal of the first activation  *)
(* left there; the initial review is skipped when that Signal blocked the  *)
(* run or asked for termination.                                           *)
Begin ==
  /\ pc = "created"
  /\ UNCHANGED <<holdVars, signalVars, closeVars, eventVars, guardVars, proposals,
                 row, auditVars, controls>>
  /\ IF IsBlocked \/ terminating
     THEN /\ status' = "running"
          /\ UNCHANGED wakeVars
          /\ Log(<<Now("workflow_started")>>)
          /\ Return("dispatch")
     ELSE StartReview(<<Now("workflow_started")>>, "dispatch")

(* _finish_termination *)
FinishTermination ==
  /\ pc = "dispatch"
  /\ terminating
  /\ wakeup' = FALSE
  /\ UNCHANGED <<resumePending, terminating, seen, order, applied, instructions,
                 guardVars, proposals, row, auditVars, controls>>
  /\ Finalize("terminated")

(* _wait_while_blocked when the deadline is already behind.                *)
DeferScheduledWake ==
  /\ overdue' = TRUE
  /\ UNCHANGED <<status, nextWake, missed>>
  /\ Log(<<Now("scheduled_wake_deferred")>>)
  /\ Return("dispatch")

HoldOverdue ==
  /\ pc = "dispatch"
  /\ ~terminating /\ IsBlocked
  /\ WakeDeadlineHasPassed /\ ~overdue
  /\ wakeup' = FALSE
  /\ UNCHANGED <<holdVars, resumePending, terminating, closeVars, eventVars, guardVars,
                 proposals, row, auditVars, controls>>
  /\ DeferScheduledWake

(* Fault: the hold is tested before the termination request.               *)
HoldFirst ==
  /\ pc = "dispatch"
  /\ IsBlocked
  /\ ~WakeDeadlineHasPassed \/ overdue
  /\ wakeup' = FALSE
  /\ pc' = "held"
  /\ UNCHANGED <<then, status, holdVars, resumePending, terminating, closeVars, wakeVars,
                 eventVars, guardVars, proposals, pending, row, auditVars, controls>>

(* _wait_while_blocked: wait until the deadline when it is still ahead,    *)
(* without a timeout when there is none or its passing is already noted.   *)
HoldWaits ==
  /\ pc = "dispatch"
  /\ ~terminating /\ IsBlocked
  /\ ~WakeDeadlineHasPassed \/ overdue
  /\ wakeup' = FALSE
  /\ pc' = "held"
  /\ UNCHANGED <<then, status, holdVars, resumePending, terminating, closeVars, wakeVars,
                 eventVars, guardVars, proposals, pending, row, auditVars, controls>>

(* Fault: the loop does not note that it has seen the resume.              *)
CatchUpForEver ==
  /\ pc = "dispatch"
  /\ ~terminating /\ ~IsBlocked
  /\ resumePending
  /\ overdue \/ WakeDeadlineHasPassed
  /\ wakeup' = FALSE
  /\ UNCHANGED <<holdVars, resumePending, terminating, closeVars, eventVars, guardVars,
                 proposals, row, auditVars, controls>>
  /\ StartReview(<<Now("scheduled_wake")>>, "dispatch")

(* The review that a deadline passed during a hold is owed on resume.      *)
CatchUp ==
  /\ pc = "dispatch"
  /\ ~terminating /\ ~IsBlocked
  /\ resumePending
  /\ overdue \/ WakeDeadlineHasPassed
  /\ wakeup' = FALSE
  /\ resumePending' = FALSE
  /\ UNCHANGED <<holdVars, terminating, closeVars, eventVars, guardVars, proposals,
                 row, auditVars, controls>>
  /\ StartReview(<<Now("scheduled_wake")>>, "dispatch")

(* Fault: the loop forgets the review owed after a resume.                 *)
ProceedWithoutCatchUp ==
  /\ pc = "dispatch"
  /\ ~terminating /\ ~IsBlocked
  /\ wakeup' = FALSE
  /\ resumePending' = FALSE
  /\ UNCHANGED terminating

(* Past the resume test of the loop: nothing left to catch up.             *)
Proceed ==
  /\ pc = "dispatch"
  /\ ~terminating /\ ~IsBlocked
  /\ ~(resumePending /\ (overdue \/ WakeDeadlineHasPassed))
  /\ wakeup' = FALSE
  /\ resumePending' = FALSE
  /\ UNCHANGED terminating

TakeEvents ==
  /\ Proceed
  /\ inbox # <<>>
  /\ pc' = "events"
  /\ UNCHANGED <<then, status, holdVars, closeVars, wakeVars, eventVars, guardVars,
                 proposals, pending, row, auditVars, controls>>

ReviewOnTime ==
  /\ Proceed
  /\ inbox = <<>>
  /\ WakeDeadlineHasPassed
  /\ UNCHANGED <<holdVars, closeVars, eventVars, guardVars, proposals, row, auditVars,
                 controls>>
  /\ StartReview(<<Now("scheduled_wake")>>, "dispatch")

(* Fault: the loop sleeps although no deadline is set.                     *)
SleepWithoutDeadline ==
  /\ Proceed
  /\ inbox = <<>>
  /\ ~WakeDeadlineHasPassed
  /\ pc' = "sleep"
  /\ status' = "sleeping"
  /\ UNCHANGED <<then, holdVars, closeVars, wakeVars, eventVars, guardVars, proposals, row,
                 auditVars, controls>>
  /\ Log(<<Now("workflow_sleeping")>>)

(* Go to sleep; a deadline is set first when there is none, and an entry   *)
(* of its own is recorded only when the status still has to change.        *)
GoToSleep ==
  /\ Proceed
  /\ inbox = <<>>
  /\ ~WakeDeadlineHasPassed
  /\ pc' = "sleep"
  /\ UNCHANGED <<then, holdVars, closeVars, eventVars, guardVars, proposals, row,
                 auditVars, controls>>
  /\ IF nextWake = "none"
     THEN ScheduleNextWake /\ Log(<<Now("sleep_scheduled")>>)
     ELSE /\ status' = "sleeping"
          /\ UNCHANGED wakeVars
          /\ Log(IF status = "sleeping" THEN <<>> ELSE <<Now("workflow_sleeping")>>)

-----------------------------------------------------------------------------
(* The two waits of the loop.  A wait ends when its condition holds or its *)
(* deadline passes; after a timeout the code tests the condition again.    *)

SleepEnds ==
  /\ pc = "sleep"
  /\ NormalWaitCondition
  /\ Return("dispatch")
  /\ UNCHANGED <<status, holdVars, signalVars, closeVars, wakeVars, eventVars, guardVars,
                 proposals, pending, row, auditVars, controls>>

(* Fault: every scheduled review starts with an empty action guard.        *)
TimeoutForgetsActions ==
  /\ pc = "sleep"
  /\ WakeDeadlineHasPassed
  /\ ~NormalWaitCondition
  /\ succeeded' = {}
  /\ UNCHANGED <<holdVars, signalVars, closeVars, eventVars, cause, proposals, row,
                 auditVars, controls>>
  /\ StartReview(<<Now("scheduled_wake")>>, "dispatch")

SleepTimesOut ==
  /\ pc = "sleep"
  /\ WakeDeadlineHasPassed
  /\ ~NormalWaitCondition
  /\ UNCHANGED <<holdVars, signalVars, closeVars, eventVars, guardVars, proposals, row,
                 auditVars, controls>>
  /\ StartReview(<<Now("scheduled_wake")>>, "dispatch")

HoldEnds ==
  /\ pc = "held"
  /\ BlockedWaitCondition
  /\ Return("dispatch")
  /\ UNCHANGED <<status, holdVars, signalVars, closeVars, wakeVars, eventVars, guardVars,
                 proposals, pending, row, auditVars, controls>>

HoldTimesOut ==
  /\ pc = "held"
  /\ WakeDeadlineHasPassed /\ ~overdue
  /\ UNCHANGED <<holdVars, signalVars, closeVars, eventVars, guardVars, proposals, row,
                 auditVars, controls>>
  /\ IF IsBlocked /\ ~terminating
     THEN DeferScheduledWake
     ELSE Return("dispatch") /\ UNCHANGED <<status, wakeVars, pending>>

-----------------------------------------------------------------------------
(* _process_pending_events: one action per outcome of the wake policy.     *)

(* Fault: a hold taken during a review does not stop the next event.       *)
EventsRunOn == inbox # <<>> /\ ~terminating

EventsMayContinue == inbox # <<>> /\ ~IsBlocked /\ ~terminating

(* Fault: a hold empties the queue of events.                              *)
LeaveDropsEvents ==
  /\ pc = "events"
  /\ ~EventsMayContinue
  /\ Return("dispatch")
  /\ inbox' = <<>>
  /\ UNCHANGED <<status, holdVars, signalVars, closeVars, wakeVars, seen, order, applied,
                 instructions, guardVars, proposals, pending, row, auditVars, controls>>

LeaveEvents ==
  /\ pc = "events"
  /\ ~EventsMayContinue
  /\ Return("dispatch")
  /\ UNCHANGED <<status, holdVars, signalVars, closeVars, wakeVars, eventVars, guardVars,
                 proposals, pending, row, auditVars, controls>>

(* Pop the oldest event and fold it into the order state.                  *)
Apply(event) ==
  /\ pc = "events"
  /\ EventsMayContinue
  /\ event = Head(inbox)
  /\ order' = ApplyEvent(order, TypeOf[event])
  /\ applied' = Append(applied, event)
  /\ UNCHANGED <<seen, instructions>>

SuppressWake(event) ==
  /\ Apply(event)
  /\ ClassifyEvent(TypeOf[event]) = "suppress"
  /\ inbox' = Tail(inbox)
  /\ UNCHANGED <<pc, then, status, holdVars, signalVars, closeVars, wakeVars, guardVars,
                 proposals, row, auditVars, controls>>
  /\ Log(<<Record("supervisor_wake_suppressed", status, nextWake # "none")>>)

(* The event becomes the cause of the actions that follow it.              *)
WakeSupervisor(event) ==
  /\ Apply(event)
  /\ ClassifyEvent(TypeOf[event]) = "wake"
  /\ inbox' = Tail(inbox)
  /\ cause' = event
  /\ succeeded' = {}
  /\ UNCHANGED <<holdVars, signalVars, closeVars, proposals, row, auditVars, controls>>
  /\ StartReview(<<Record("supervisor_wake_requested", status, nextWake # "none")>>, "events")

(* _finish_delivery *)
FinishDelivery(event) ==
  /\ Apply(event)
  /\ ClassifyEvent(TypeOf[event]) = "complete"
  /\ UNCHANGED <<signalVars, guardVars, proposals, row, auditVars, controls>>
  /\ Finalize("completed")

-----------------------------------------------------------------------------
(* _invoke_supervisor after its Activity.                                  *)

(* Retries exhausted or the result refused: no action is taken.  (The      *)
(* entry is worded "rejected" or "fallback"; the control is the same.)     *)
ReviewFails ==
  /\ pc = "review"
  /\ UNCHANGED <<holdVars, signalVars, closeVars, eventVars, guardVars, proposals, row,
                 auditVars, controls>>
  /\ IF terminating
     THEN UNCHANGED <<status, wakeVars>> /\ Log(<<Now("supervisor_fallback")>>)
     ELSE /\ ScheduleNextWake
          /\ Log(<<Record("supervisor_fallback", status, FALSE), Now("sleep_scheduled")>>)
  /\ Return(then)

ReviewDecides ==
  /\ pc = "review"
  /\ proposals' \in Decisions
  /\ UNCHANGED <<then, status, holdVars, signalVars, closeVars, wakeVars, eventVars,
                 guardVars, row, auditVars, controls>>
  /\ Log(<<Record("supervisor_decision", status, FALSE)>>)
  /\ pc' = "actions"

(* memory_updated, the next deadline unless termination was requested, and *)
(* the flush that ends the review.                                         *)
ConcludeReview ==
  /\ pc = "actions"
  /\ proposals = <<>>
  /\ UNCHANGED <<holdVars, signalVars, closeVars, eventVars, guardVars, proposals, row,
                 auditVars, controls>>
  /\ IF terminating
     THEN UNCHANGED <<status, wakeVars>> /\ Log(<<Now("memory_updated")>>)
     ELSE /\ ScheduleNextWake
          /\ Log(<<Record("memory_updated", status, FALSE), Now("sleep_scheduled")>>)
  /\ Return(then)

-----------------------------------------------------------------------------
(* _execute_proposed_actions: the first proposal that is still to be       *)
(* handled is validated, refused, suppressed or executed.                  *)

Accepted(action) == action \in Actions /\ Persistent

(* Fault: holds are not tested again after the awaits of a review.         *)
MayExecuteStale(action) == Accepted(action)

MayExecute(action) == Accepted(action) /\ ~IsBlocked /\ ~terminating

(* business_action_skipped and _rejected are one kind here.                *)
RejectProposal ==
  /\ pc = "actions"
  /\ proposals # <<>>
  /\ ~MayExecute(Head(proposals))
  /\ proposals' = Tail(proposals)
  /\ UNCHANGED <<pc, then, status, holdVars, signalVars, closeVars, wakeVars, eventVars,
                 guardVars, row, auditVars, controls>>
  /\ Log(<<Now("business_action_rejected")>>)

SuppressProposal ==
  /\ pc = "actions"
  /\ proposals # <<>>
  /\ MayExecute(Head(proposals))
  /\ Head(proposals) \in succeeded
  /\ proposals' = Tail(proposals)
  /\ UNCHANGED <<pc, then, status, holdVars, signalVars, closeVars, wakeVars, eventVars,
                 guardVars, row, auditVars, controls>>
  /\ Log(<<Now("business_action_suppressed")>>)

StartAction ==
  /\ pc = "actions"
  /\ proposals # <<>>
  /\ MayExecute(Head(proposals))
  /\ Head(proposals) \notin succeeded
  /\ pc' = "action"
  /\ UNCHANGED <<then, status, holdVars, signalVars, closeVars, wakeVars, eventVars,
                 guardVars, proposals, pending, row, auditVars, controls>>

(* The Activity reports success; it wrote the audit row itself.            *)
ActionExecuted ==
  /\ pc = "action"
  /\ succeeded' = succeeded \cup {Head(proposals)}
  /\ confirmed' = confirmed \cup {<<cause, Head(proposals)>>}
  /\ committed' = committed \cup {<<cause, Head(proposals)>>}
  /\ proposals' = Tail(proposals)
  /\ pc' = "actions"
  /\ UNCHANGED <<then, status, holdVars, signalVars, closeVars, wakeVars, eventVars, cause,
                 pending, row, controls>>

(* Attempts exhausted.  One of them may have committed its row and been    *)
(* lost on the way back, by a timeout or a worker that died.               *)
ActionFails ==
  /\ pc = "action"
  /\ committed' \in {committed, committed \cup {<<cause, Head(proposals)>>}}
  /\ proposals' = Tail(proposals)
  /\ UNCHANGED <<then, status, holdVars, signalVars, closeVars, wakeVars, eventVars,
                 guardVars, row, confirmed, controls>>
  /\ Log(<<Now("business_action_failed")>>)
  /\ pc' = "actions"

(* Fault: the last transition is recorded before the status is set.        *)
ReportRecordedFirst ==
  /\ pc = "report"
  /\ report' = TRUE
  /\ status' = outcome
  /\ UNCHANGED <<holdVars, signalVars, finalizing, outcome, wakeVars, eventVars, guardVars,
                 proposals, row, auditVars, controls>>
  /\ Log(<<Record("final_output_generated", status, FALSE),
           Record("workflow_ended", status, FALSE)>>)
  /\ Return("close")

-----------------------------------------------------------------------------
(* _finish_terminal after the final-output Activity.  Success and failure  *)
(* (the deterministic fallback) store a report and differ in its wording.  *)
FinishReport ==
  /\ pc = "report"
  /\ report' = TRUE
  /\ status' = outcome
  /\ UNCHANGED <<holdVars, signalVars, finalizing, outcome, wakeVars, eventVars, guardVars,
                 proposals, row, auditVars, controls>>
  /\ Log(<<Record("final_output_generated", status, FALSE), Now("workflow_ended")>>)
  /\ Return("close")

-----------------------------------------------------------------------------
(* _flush_pending_transitions                                              *)

(* Fault: the flag of the finalization is left set.                        *)
FlushLeavesFlag ==
  /\ pc = "flush"
  /\ pending = <<>>
  /\ IF then = "close" THEN Return("done") ELSE pc' = then /\ UNCHANGED then
  /\ UNCHANGED <<status, holdVars, signalVars, closeVars, wakeVars, eventVars, guardVars,
                 proposals, pending, row, auditVars, controls>>

FlushEnds ==
  /\ pc = "flush"
  /\ pending = <<>>
  /\ IF then = "close"
     THEN finalizing' = FALSE /\ Return("done")
     ELSE pc' = then /\ UNCHANGED <<finalizing, then>>
  /\ UNCHANGED <<status, holdVars, signalVars, outcome, report, wakeVars, eventVars,
                 guardVars, proposals, pending, row, auditVars, controls>>

(* Fault: the status of a hold does not get to the row.                    *)
PersistKeepsStatus ==
  /\ pc = "flush"
  /\ pending # <<>>
  /\ row' = [Head(pending).snapshot EXCEPT !.status = IF @ \in Blocking THEN row.status ELSE @]
  /\ pending' = Tail(pending)
  /\ UNCHANGED <<pc, then, status, holdVars, signalVars, closeVars, wakeVars, eventVars,
                 guardVars, proposals, auditVars, controls>>

(* The Activity appends the audit row and moves the run row to the         *)
(* snapshot of the transition.                                             *)
PersistSucceeds ==
  /\ pc = "flush"
  /\ pending # <<>>
  /\ row' = Head(pending).snapshot
  /\ pending' = Tail(pending)
  /\ UNCHANGED <<pc, then, status, holdVars, signalVars, closeVars, wakeVars, eventVars,
                 guardVars, proposals, auditVars, controls>>

(* Three attempts failed, the last of them perhaps after its commit.       *)
PersistFails ==
  /\ pc = "flush"
  /\ pending # <<>>
  /\ row' \in {row, Head(pending).snapshot}
  /\ pc' = "recovery"
  /\ UNCHANGED <<then, status, holdVars, signalVars, closeVars, wakeVars, eventVars,
                 guardVars, proposals, pending, auditVars, controls>>

(* The five-second sleep is over: same transition, next recovery cycle.    *)
RecoveryEnds ==
  /\ pc = "recovery"
  /\ pc' = "flush"
  /\ UNCHANGED <<then, status, holdVars, signalVars, closeVars, wakeVars, eventVars,
                 guardVars, proposals, pending, row, auditVars, controls>>

-----------------------------------------------------------------------------
(* Signal handlers.                                                        *)

SignalArrives == Suspended /\ ~SignalsAreClosed

(* What the operator does is bounded, what the clients inject is Events.   *)
Operated == controls < MaxControls /\ controls' = controls + 1

(* Fault: only the queue is searched for a repeated event id.              *)
ReceiveUnlessQueued(event) ==
  /\ SignalArrives
  /\ Len(seen) < 4
  /\ event \notin {inbox[i] : i \in 1..Len(inbox)}
  /\ seen' = Append(seen, event)
  /\ inbox' = Append(inbox, event)
  /\ wakeup' = TRUE
  /\ UNCHANGED <<pc, then, status, holdVars, resumePending, terminating, closeVars,
                 wakeVars, order, applied, instructions, guardVars, proposals, row,
                 auditVars, controls>>
  /\ Log(<<Record("order_event_received", status, nextWake # "none")>>)

receive_event(event) ==
  /\ SignalArrives
  /\ event \notin {seen[i] : i \in 1..Len(seen)}
  /\ seen' = Append(seen, event)
  /\ inbox' = Append(inbox, event)
  /\ UNCHANGED <<pc, then, status, holdVars, resumePending, terminating, closeVars,
                 wakeVars, order, applied, instructions, guardVars, proposals, row,
                 auditVars, controls>>
  /\ Log(<<Record("order_event_received", status, nextWake # "none")>>)
  /\ wakeup' = TRUE

receive_duplicate(event) ==
  /\ SignalArrives
  /\ Operated
  /\ event \in {seen[i] : i \in 1..Len(seen)}
  /\ UNCHANGED <<pc, then, status, holdVars, resumePending, terminating, closeVars,
                 wakeVars, eventVars, guardVars, proposals, row, auditVars>>
  /\ Log(<<Record("duplicate_event_ignored", status, nextWake # "none")>>)
  /\ wakeup' = Persistent

add_instruction ==
  /\ SignalArrives
  /\ Operated
  /\ instructions' = instructions + 1
  /\ UNCHANGED <<pc, then, status, holdVars, resumePending, terminating, closeVars,
                 wakeVars, inbox, seen, order, applied, guardVars, proposals, row,
                 auditVars>>
  /\ Log(<<Record("instruction_added", status, nextWake # "none")>>)
  /\ wakeup' = TRUE

(* A control Signal that moves the run to "newStatus".                     *)
Control(kind, newStatus) ==
  /\ SignalArrives
  /\ Operated
  /\ status' = newStatus
  /\ UNCHANGED <<pc, then, terminating, closeVars, wakeVars, eventVars, guardVars,
                 proposals, row, auditVars>>
  /\ Log(<<Record(kind, newStatus, nextWake # "none")>>)
  /\ wakeup' = TRUE

pause ==
  /\ UNCHANGED resumePending
  /\ Control("workflow_paused", "paused")
  /\ paused' = TRUE
  /\ interrupted' = FALSE

interrupt ==
  /\ UNCHANGED resumePending
  /\ Control("workflow_interrupted", "interrupted")
  /\ paused' = FALSE
  /\ interrupted' = TRUE

resume ==
  /\ IsBlocked
  /\ Control("workflow_resumed", "running")
  /\ paused' = FALSE
  /\ interrupted' = FALSE
  /\ resumePending' = TRUE

request_termination ==
  /\ SignalArrives
  /\ terminating' = TRUE
  /\ UNCHANGED <<pc, then, status, holdVars, resumePending, closeVars, wakeVars, eventVars,
                 guardVars, proposals, row, auditVars, controls>>
  /\ Log(<<Record("termination_requested", status, nextWake # "none")>>)
  /\ wakeup' = TRUE

-----------------------------------------------------------------------------
(* The clock reaches next_wake_at.                                         *)
DeadlinePasses ==
  /\ Suspended
  /\ nextWake = "ahead"
  /\ nextWake' = "due"
  /\ missed' = IsBlocked
  /\ UNCHANGED <<pc, then, status, holdVars, signalVars, closeVars, overdue, eventVars,
                 guardVars, proposals, pending, row, auditVars, controls>>

Finished == pc = "done" /\ UNCHANGED vars

MainLoop == Begin \/ FinishTermination \/ HoldOverdue \/ HoldWaits \/ CatchUp
            \/ TakeEvents \/ ReviewOnTime \/ GoToSleep
            \/ SleepEnds \/ SleepTimesOut \/ HoldEnds \/ HoldTimesOut

HandleEvents ==
  \/ LeaveEvents
  \/ \E event \in Events :
       SuppressWake(event) \/ WakeSupervisor(event) \/ FinishDelivery(event)

Review == ReviewFails \/ ReviewDecides \/ ConcludeReview
          \/ RejectProposal \/ SuppressProposal \/ StartAction
          \/ ActionExecuted \/ ActionFails

Flush == FlushEnds \/ PersistSucceeds \/ PersistFails \/ RecoveryEnds

Coroutine == MainLoop \/ HandleEvents \/ Review \/ FinishReport \/ Flush

Signal ==
  \/ \E event \in Events : receive_event(event) \/ receive_duplicate(event)
  \/ add_instruction \/ pause \/ interrupt \/ resume \/ request_termination

Next == Coroutine \/ Signal \/ DeadlinePasses \/ Finished

Spec == Init /\ [][Next]_vars

(* The worker keeps polling and every Activity ends within its timeouts,   *)
(* so the coroutine moves on whenever it can; timers fire; and PostgreSQL  *)
(* does not stay away for ever, so that a transition that is retried in    *)
(* ever new recovery cycles is written in the end.  Nothing is assumed of  *)
(* clients and operators.                                                  *)
Fairness == WF_vars(Coroutine) /\ WF_vars(DeadlinePasses) /\ SF_vars(PersistSucceeds)

FairSpec == Spec /\ Fairness

-----------------------------------------------------------------------------
(* The type invariant.                                                     *)

Places == {"created", "dispatch", "events", "review", "actions", "action", "report",
           "sleep", "held", "flush", "recovery", "done"}
Returns == {"dispatch", "events", "report", "close", "done"}
Reason == {"none"} \cup Terminal

SnapshotType ==
  [status : WorkflowStatus, wake : BOOLEAN, reason : Reason, report : BOOLEAN,
   order : OrderState, applied : Nat, instructions : Nat]
Transition == [kind : EntryType, snapshot : SnapshotType]
Deed == (Events \cup {"workflow_start"}) \X STRING

TypeOK ==
  /\ pc \in Places /\ then \in Returns
  /\ status \in WorkflowStatus
  /\ paused \in BOOLEAN /\ interrupted \in BOOLEAN
  /\ resumePending \in BOOLEAN /\ wakeup \in BOOLEAN /\ terminating \in BOOLEAN
  /\ finalizing \in BOOLEAN /\ outcome \in Reason /\ report \in BOOLEAN
  /\ nextWake \in {"none", "ahead", "due"} /\ overdue \in BOOLEAN /\ missed \in BOOLEAN
  /\ inbox \in Seq(Events) /\ seen \in Seq(Events) /\ applied \in Seq(Events)
  /\ order \in OrderState /\ instructions \in Nat
  /\ cause \in Events \cup {"workflow_start"}
  /\ succeeded \subseteq STRING /\ proposals \in Seq(STRING)
  /\ pending \in Seq(Transition) /\ row \in SnapshotType
  /\ confirmed \subseteq Deed /\ committed \subseteq Deed
  /\ controls \in 0..MaxControls

(* The places and the terminal variables go together: a run is being       *)
(* closed exactly from the decision of its outcome on, Signals are refused *)
(* until its end is stored, and nothing is held, queued or due in it.      *)
(* With TypeOK this is the invariant that the proofs start from.           *)
ClosingReturns == {"report", "close", "done"}

PlacesAgree ==
  /\ pc = "action" => proposals # <<>>
  /\ outcome # "none" <=> then \in ClosingReturns
  /\ then \in ClosingReturns =>
       /\ pc \in {"report", "flush", "recovery", "done"}
       /\ ~IsBlocked /\ nextWake = "none" /\ inbox = <<>>
  /\ pc = "report" => then = "report"
  /\ pc = "done" => then = "done"
  /\ finalizing <=> then \in {"report", "close"}
  /\ report <=> then \in {"close", "done"}
  /\ status \in Terminal <=> then \in {"close", "done"}

-----------------------------------------------------------------------------
(* Safety.                                                                 *)

(* No event is lost, repeated or reordered.  Until the run is finalized    *)
(* the accepted events are those folded into the order, then those queued, *)
(* in order of arrival, whatever holds, reviews, failures and duplicates   *)
(* came between; finalization may only drop a suffix.                      *)
EventsInOrder ==
  /\ \A i, j \in 1..Len(seen) : seen[i] = seen[j] => i = j
  /\ IF outcome = "none"
     THEN seen = applied \o inbox
     ELSE inbox = <<>> /\ applied = SubSeq(seen, 1, Len(applied))

(* The run row is never behind the workflow by more than the transitions   *)
(* still queued: the last one queued, or the row when none is, shows the   *)
(* state the workflow is in.  Every change of status, deadline, order,     *)
(* instructions and outcome is recorded, and recorded after it is made.    *)
Current ==
  [status |-> status, wake |-> nextWake # "none", reason |-> outcome, report |-> report,
   order |-> order, applied |-> Len(applied), instructions |-> instructions]

Latest == IF pending = <<>> THEN row ELSE pending[Len(pending)].snapshot

ProjectionFollows == Persistent => Latest = Current

(* A sleeping run has a deadline, so that a review always comes; and a     *)
(* deadline noted as overdue is one that did pass, under a hold, and that  *)
(* no review has answered yet.                                             *)
DeadlinesKept ==
  /\ pc = "sleep" => nextWake # "none"
  /\ overdue => nextWake = "due" /\ (IsBlocked \/ resumePending \/ terminating)

(* The outcome is decided once, by the cause the operator or the carrier   *)
(* gave: completed after a delivered event was folded into the order (and  *)
(* nothing after it), terminated after a request; a closed run shows its   *)
(* outcome, has its report, owes the store nothing and is not on hold.     *)
OutcomeDecided ==
  /\ outcome = "completed" <=> order.lifecycle = "completed"
  /\ outcome = "terminated" => terminating
  /\ outcome = "completed" =>
       ~terminating /\ TypeOf[applied[Len(applied)]] = "delivered"
  /\ finalizing => ~IsBlocked /\ nextWake = "none"
  /\ pc = "done" =>
       status = outcome /\ status \in Terminal /\ report /\ pending = <<>> /\ ~IsBlocked

(* Automation starts nothing, neither a review nor a business action,      *)
(* while an operator holds the run or after termination was requested,     *)
(* even when the hold came during the await that the step returns from.    *)
HoldStopsAutomation ==
  [][pc' \in {"review", "action"} /\ pc' # pc => ~IsBlocked /\ ~terminating]_vars

(* Within one cause an action that was reported executed is not started    *)
(* again, by later proposals, by later scheduled reviews or after a        *)
(* failure of another action.                                              *)
OncePerCause ==
  [][pc' = "action" /\ pc # "action" => <<cause, Head(proposals)>> \notin confirmed]_vars

(* A hold that is on display stays on display until it is lifted: no       *)
(* review that ends under it, no deferral and no event overwrites it.      *)
HoldShown == IsBlocked => status = (IF paused THEN "paused" ELSE "interrupted")

HoldStaysShown == [][pc # "created" /\ HoldShown => HoldShown']_vars

(* The overdue flag is given up only for the catch-up review it stands     *)
(* for, or for the end of the run.                                         *)
OverdueAnswered ==
  [][overdue /\ ~overdue' => finalizing' \/ (pc = "dispatch" /\ pc' = "review")]_vars

-----------------------------------------------------------------------------
(* Liveness, under Fairness.                                               *)

(* A graceful termination always ends the run, out of any hold, review,    *)
(* outage or wait, and the store shows it.                                 *)
TerminationCompletes ==
  terminating ~> (pc = "done" /\ (Persistent => row.status = "terminated" /\ row.report))

(* Unless the run is closed, an event that was accepted is folded into the *)
(* order once holds have been lifted for good.                             *)
Closing == terminating \/ outcome # "none"

EventsSettle ==
  <>[]~IsBlocked =>
    \A event \in Events :
      (\E i \in 1..Len(seen) : seen[i] = event)
        ~> (Closing \/ \E i \in 1..Len(applied) : applied[i] = event)

(* Supervision never dies out: an open run that is not held for good is    *)
(* reviewed again and again, whatever fails.                               *)
SupervisionContinues == <>[]~IsBlocked => []<>(pc = "review" \/ Closing)

-----------------------------------------------------------------------------
(* Three statements of the repository's documents that the code does not   *)
(* keep.                                                                   *)

(* "If the scheduled deadline passed while blocked, exactly one immediate  *)
(* scheduled review runs before the next normal deadline is set."          *)
(* (README.md, Control semantics.)                                         *)
MissedDeadlineReviewed == [][missed => nextWake' # "ahead"]_vars

(* The guard keeps "identical actions from repeatedly firing for the same  *)
(* external trigger event" (docs/ARCHITECTURE.md, Semantic Guardrails): an *)
(* action that is executed has no earlier row for the same event.          *)
FiresOncePerEvent ==
  [][confirmed' # confirmed /\ cause \in Events
       => <<cause, Head(proposals)>> \notin committed]_vars

(* A pause signal leads to PAUSED and only a resume leads from there to    *)
(* RUNNING (docs/APP_FLOW.md, state machine): a held run shows its hold.   *)
HeldRunShowsHold == pc # "created" => HoldShown
=============================================================================
