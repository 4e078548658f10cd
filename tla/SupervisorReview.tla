-------------------------- MODULE SupervisorReview --------------------------
(***************************************************************************)
(* The data of supervision: what the reviews of one run are asked with,    *)
(* what they remember, what the final report says, and what the analytics  *)
(* make of the rows.  Composes SupervisorProviders and RunAnalytics with   *)
(* the steps of backend/app/temporal/workflows.py that carry their data;   *)
(* the control of the same steps (holds, deadlines, retries of a flush,    *)
(* the semantic guard) is in OrderWorkflow, and appears here as the freedom *)
(* to refuse a proposal or to end the run.                                 *)
(*                                                                         *)
(* "now" counts the activations of the workflow: an event, the answer of   *)
(* an Activity or a timer begins one, and the loop runs in it.  (The times *)
(* of instructions are not looked at.)                                     *)
(***************************************************************************)
EXTENDS SupervisorProviders, RunAnalytics, OrderEvents

CONSTANTS
  Events, TypeOf,      \* the events that wake the supervisor or do not
  Configurations,      \* of a run: its provider, the length of what its contexts
                       \* always hold, and what happens in it at most (bounds of
                       \* the model): events, instructions, reviews
  Plans,               \* proposal lists a model may answer with
  Recollections,       \* memories a model may answer with
  BaseChars, InitialChars

ASSUME ReviewAssumption ==
  /\ Configurations \subseteq [provider : {"deterministic", "ollama"}, frame : Nat,
                       events : SUBSET Events, instructions : Nat, reviews : Nat]
  /\ {BaseChars, InitialChars} \subseteq Nat
  /\ Plans \subseteq Seq(Actions) /\ "note" \notin Actions
  /\ \A recollection \in Recollections : recollection.constraints \in Seq(Texts)
  /\ "none" \notin Events
  /\ \A e \in Events : /\ TypeOf[e] \notin {"workflow_start", "scheduled_wake"}
                      /\ ToSet(ActionForEvent(TypeOf[e])) \subseteq Actions

VARIABLES
  pc,
  config,              \* the configuration of this run
  now,
  instructions,        \* _additional_instructions
  inbox,               \* _pending_events
  memory,              \* _memory_summary
  timeline,            \* _timeline, as far as requests look back
  request, cause,      \* what the Activity is asked; the event behind the review
  plan, update,        \* of its decision: proposals left, memory_update
  executed,            \* the list of _execute_proposed_actions
  named,               \* the actions named by the final report
  queue, rows, late,   \* _pending_transitions, table activities, commits on the way
  reviews,             \* reviews begun
  done, applied        \* history: actions reported executed, events taken

callVars == <<request, cause, plan, update, executed>>
dataVars == <<instructions, inbox, memory>>
rowVars  == <<queue, rows, late>>
history  == <<reviews, done, applied>>
vars == <<pc, config, now, dataVars, timeline, callVars, named, rowVars, history>>

NoRequest == [trigger |-> "none", type |-> "none", instructions |-> <<>>,
              memory |-> EmptyMemory, activity |-> <<>>]

(* Rows as the analytics read them; "cause" is history, not a column.      *)
Row(kind, event, type, trigger, behind) ==
  [kind |-> kind, at |-> now', event |-> event, type |-> type, trigger |-> trigger,
   cause |-> behind]
EventRow(kind, event) == Row(kind, event, TypeOf[event], "none", event)

Queue(entries) == queue' = queue \o entries

(* Fault: the timeline grows without bound.                                *)
NoteUnbounded(n) == timeline' = timeline \o [i \in 1..n |-> "note"]
Note(n) == timeline' = Newest(timeline \o [i \in 1..n |-> "note"], FinalActivityLimit)

(* What a call was made with is gone when it ends.                         *)
CallEnds ==
  /\ request' = NoRequest /\ cause' = "none"
  /\ plan' = <<>> /\ update' = EmptyMemory /\ executed' = <<>>

Open == pc \notin {"reporting", "closing", "closed"}

Init ==
  /\ pc = "waiting" /\ config \in Configurations /\ now = 0
  /\ instructions = <<>> /\ inbox = <<>> /\ memory = EmptyMemory /\ timeline = <<>>
  /\ request = NoRequest /\ cause = "none"
  /\ plan = <<>> /\ update = EmptyMemory /\ executed = <<>>
  /\ named = <<"none">>
  /\ queue = <<>> /\ rows = {} /\ late = {}
  /\ reviews = 0 /\ done = {} /\ applied = {}

-----------------------------------------------------------------------------
(* Signals, at every await of the workflow.                                *)

add_instruction(text) ==
  /\ Open
  /\ Len(instructions) < config.instructions
  /\ instructions' = Append(instructions, text)
  /\ Note(1)
  /\ UNCHANGED <<pc, config, now, inbox, memory, callVars, named, rowVars, history>>

receive_event(event) ==
  /\ Open
  /\ event \in config.events \ (applied \cup ToSet(inbox))
  /\ now' = now + 1
  /\ inbox' = Append(inbox, event)
  /\ Note(1)
  /\ Queue(<<EventRow("order_event_received", event)>>)
  /\ UNCHANGED <<pc, config, instructions, memory, callVars, named, rows, late, history>>

-----------------------------------------------------------------------------
(* _invoke_supervisor up to its Activity.  The request holds copies: what  *)
(* comes during the review is for the next one.  "first" are the rows and  *)
(* the entry that the caller or the wake trigger records before.           *)
BeginReview(trigger, type, event, first) ==
  /\ reviews < config.reviews
  /\ reviews' = reviews + 1
  /\ Note(2)
  /\ Queue(first \o <<Row("supervisor_invocation", "none", type, trigger, event)>>)
  /\ request' = [trigger |-> trigger, type |-> type, instructions |-> instructions,
                 memory |-> memory, activity |-> Newest(timeline', ActivityLimit)]
  /\ cause' = event
  /\ pc' = "asking"
  /\ UNCHANGED <<config, instructions, memory, plan, update, executed, named, rows, late, done>>

Startup ==
  /\ pc = "waiting" /\ reviews = 0
  /\ UNCHANGED <<now, inbox, applied>>
  /\ BeginReview("workflow_start", "none", "none", <<>>)

ScheduledReview ==
  /\ pc = "waiting" /\ reviews > 0 /\ inbox = <<>>
  /\ now' = now + 1
  /\ UNCHANGED <<inbox, applied>>
  /\ BeginReview("scheduled_wake", "none", "none", <<>>)

(* _process_pending_events, by the outcome of the wake policy.             *)
TakeEvent(event) ==
  /\ pc = "waiting" /\ reviews > 0
  /\ inbox # <<>> /\ event = Head(inbox)
  /\ inbox' = Tail(inbox)
  /\ applied' = applied \cup {event}
  /\ UNCHANGED now

WakeSupervisor(event) ==
  /\ ClassifyEvent(TypeOf[event]) = "wake"
  /\ TakeEvent(event)
  /\ BeginReview(TypeOf[event], TypeOf[event], event,
                 <<EventRow("supervisor_wake_requested", event)>>)

SuppressWake(event) ==
  /\ ClassifyEvent(TypeOf[event]) = "suppress"
  /\ TakeEvent(event)
  /\ Note(1)
  /\ Queue(<<EventRow("supervisor_wake_suppressed", event)>>)
  /\ UNCHANGED <<pc, config, instructions, memory, callVars, named, rows, late, reviews, done>>

-----------------------------------------------------------------------------
(* The supervisor Activity (fake_supervisor) answers.                      *)

Decided(actions, recollection) ==
  /\ pc = "asking"
  /\ now' = now + 1
  /\ plan' = actions
  /\ update' = recollection
  /\ Note(1)
  /\ pc' = "acting"
  /\ UNCHANGED <<config, dataVars, request, cause, executed, named, rowVars, history>>

DecideByRules ==
  /\ config.provider = "deterministic"
  /\ LET decision == RulesDecide(request) IN Decided(decision.actions, decision.memory)

(* The context a model is asked with, for a review or for the report.      *)
Ask == AskOf(request, config.frame, BaseChars, InitialChars)
Context == IF pc = "reporting" THEN BuildFinalOutputContext(request, Ask)
                               ELSE BuildSupervisorContext(request, Ask)

(* The context fits, and the answer is valid.                              *)
DecideByModel ==
  /\ config.provider = "ollama"
  /\ pc = "asking" /\ ~Refused(Ask, Context)
  /\ \E actions \in Plans, recollection \in Recollections : Decided(actions, recollection)

(* Every attempt failed: the context is too long, the model is away or its *)
(* answer invalid, or the worker died.  Nothing is remembered.             *)
ReviewFails ==
  /\ pc = "asking"
  /\ now' = now + 1
  /\ Note(2)
  /\ pc' = "flushing"
  /\ CallEnds
  /\ UNCHANGED <<config, dataVars, named, rowVars, history>>

-----------------------------------------------------------------------------
(* _execute_proposed_actions and the end of the review.                    *)

NextProposal ==
  /\ pc = "acting" /\ plan # <<>>
  /\ plan' = Tail(plan)
  /\ UNCHANGED <<pc, config, dataVars, request, cause, update, named, queue, reviews, applied>>

(* Disabled, held, terminating or repeated: see OrderWorkflow.             *)
RefuseProposal ==
  /\ NextProposal
  /\ Note(1)
  /\ UNCHANGED <<now, executed, rows, late, done>>

(* The Activity writes its row, dated by the request.                      *)
ActionRow == [Row("business_action_executed", "none", "none", request.trigger, cause)
                EXCEPT !.at = now]

ActionExecuted ==
  /\ NextProposal
  /\ now' = now + 1
  /\ executed' = Append(executed, Head(plan))
  /\ done' = done \cup {Head(plan)}
  /\ rows' = rows \cup {ActionRow}
  /\ timeline' = Newest(Append(timeline, Head(plan)), FinalActivityLimit)
  /\ UNCHANGED late

(* Reported failed.  An attempt that nobody listens to may have committed, *)
(* or commit later, with the same row.                                     *)
ActionFails ==
  /\ NextProposal
  /\ now' = now + 1
  /\ Note(1)
  /\ UNCHANGED <<executed, done>>
  /\ \/ UNCHANGED <<rows, late>>
     \/ rows' = rows \cup {ActionRow} /\ UNCHANGED late
     \/ late' = late \cup {ActionRow} /\ UNCHANGED rows

LateCommit ==
  /\ \E row \in late : rows' = rows \cup {row} /\ late' = late \ {row}
  /\ UNCHANGED <<pc, config, now, dataVars, timeline, callVars, named, queue, history>>

Remember ==
  /\ pc = "acting" /\ plan = <<>>
  /\ memory' = ValidatedMemoryUpdate(memory, update, executed)
  /\ Note(2)
  /\ pc' = "flushing"
  /\ CallEnds
  /\ UNCHANGED <<config, now, instructions, inbox, named, rowVars, history>>

-----------------------------------------------------------------------------
(* A flush, at the end of a review, before a sleep, and at the end: here   *)
(* the queue is stored in one step, as nothing is asserted between.  Only  *)
(* the timeline knows of its recovery cycles.                              *)
Flush ==
  /\ pc \in {"waiting", "flushing", "closing"}
  /\ pc = "waiting" => queue # <<>>
  /\ rows' = rows \cup ToSet(queue)
  /\ queue' = <<>>
  /\ \E cycles \in {0, 1} : Note(cycles)
  /\ pc' = IF pc = "closing" THEN "closed" ELSE "waiting"
  /\ UNCHANGED <<config, now, dataVars, callVars, named, late, history>>

(* A delivery or a termination: events that wait are dropped, transitions  *)
(* stored, and the final output Activity is asked.                         *)
Finish ==
  /\ pc = "waiting"
  /\ inbox' = <<>>
  /\ rows' = rows \cup ToSet(queue) /\ queue' = <<>>
  /\ Note(1)
  /\ request' = [NoRequest EXCEPT !.instructions = instructions, !.memory = memory,
                                  !.activity = timeline']
  /\ pc' = "reporting"
  /\ UNCHANGED <<config, now, instructions, memory, cause, plan, update, executed, named,
                 late, history>>

Report(names) ==
  /\ pc = "reporting"
  /\ named' = names
  /\ pc' = "closing"
  /\ CallEnds
  /\ UNCHANGED <<config, now, dataVars, timeline, rowVars, history>>

ReportByRules ==
  /\ config.provider = "deterministic"
  /\ Report(RulesFinalize(request))

(* The wording of the model is its own.                                    *)
ReportByModel ==
  /\ config.provider = "ollama"
  /\ pc = "reporting" /\ ~Refused(Ask, Context)
  /\ Report(<<"free text">>)

ReportFallback == Report(DeterministicFinalOutput(memory))

Finished == pc = "closed" /\ late = {} /\ UNCHANGED vars

Next ==
  \/ \E text \in Texts : add_instruction(text)
  \/ \E event \in Events : receive_event(event) \/ WakeSupervisor(event) \/ SuppressWake(event)
  \/ Startup \/ ScheduledReview
  \/ DecideByRules \/ DecideByModel \/ ReviewFails
  \/ RefuseProposal \/ ActionExecuted \/ ActionFails \/ LateCommit \/ Remember
  \/ Flush \/ Finish \/ ReportByRules \/ ReportByModel \/ ReportFallback
  \/ Finished

Spec == Init /\ [][Next]_vars

-----------------------------------------------------------------------------
(* The type invariant.                                                     *)

Memory == [actions : Seq(Actions), constraints : Seq(Texts \cup Range(Cut))]
RowKinds == {"order_event_received", "supervisor_wake_requested", "supervisor_wake_suppressed",
             "supervisor_invocation", "business_action_executed"}

ReviewTypeOK ==
  /\ pc \in {"waiting", "asking", "acting", "flushing", "reporting", "closing", "closed"}
  /\ config \in Configurations
  /\ now \in Nat /\ reviews \in 0..config.reviews
  /\ instructions \in Seq(Texts) /\ inbox \in Seq(Events)
  /\ memory \in Memory /\ request.memory \in Memory
  /\ IsAsk(Ask, BuiltFor(request).activity, BuiltFor(request).instructions)
  /\ timeline \in Seq(Actions \cup {"note"}) /\ Len(timeline) <= FinalActivityLimit
  /\ cause \in Events \cup {"none"}
  /\ plan \in Seq(Actions) /\ executed \in Seq(Actions) /\ done \subseteq Actions
  /\ applied \subseteq Events
  /\ \A row \in rows \cup late \cup ToSet(queue) : row.kind \in RowKinds /\ row.at <= now

-----------------------------------------------------------------------------
(* Memory and the final report speak of exactly the actions that were      *)
(* reported executed, in whichever review, whatever a model claims, and    *)
(* whatever has left the bounded timeline; and a memory stays within the   *)
(* bounds that the next review validates it against.                       *)
MemoryHonest ==
  /\ ToSet(memory.actions) \cup (IF pc = "acting" THEN ToSet(executed) ELSE {}) = done
  /\ \A list \in {memory.actions, memory.constraints} :
       Len(list) <= MemoryItems /\ Distinct(list) = list
  /\ ToSet(memory.constraints) \cap DOMAIN Cut = {}

(* Rules and fallback name each executed action once, and nothing else.    *)
ReportNamesExecuted ==
  named \notin {<<"none">>, <<"free text">>} => ToSet(named) = done /\ Distinct(named) = named

(* The rules remember what the operator said last: the newest instruction  *)
(* is among the constraints after every review, and as long as none was    *)
(* repeated or too long, the constraints are the newest instructions, in   *)
(* their order, whatever the reviews before have left in memory.           *)
InstructionsRemembered ==
  [][Remember /\ config.provider = "deterministic" /\ request.instructions # <<>> =>
       LET given == request.instructions IN
       /\ Contains(memory'.constraints, BoundedText(Last(given)))
       /\ Distinct(given) = given /\ ToSet(given) \cap DOMAIN Cut = {} =>
            memory'.constraints = Newest(given, MemoryItems)]_vars

(* Every context for a model holds the newest instruction and, unless the  *)
(* last resort was taken, dropped nothing in vain; it is refused only when *)
(* that instruction does not fit.  That of a review also accounts for all  *)
(* instructions of the run, unless the last resort was taken; a report has *)
(* no count of what it omits.                                              *)
ContextSound ==
  config.provider = "ollama" /\ pc \in {"asking", "reporting"} =>
    /\ PrunedWell(Ask, BuiltFor(request), Context)
    /\ pc = "asking" =>
         Accounted(Ask, BuiltFor(request), Context, Len(request.instructions))

(* The latency of the first executed action, from its true cause.          *)
TrueLatency ==
  LET actions == {a \in Executed(rows) : a.cause # "none"}
      first   == {p \in actions \X Received(rows) :
                    p[2].event = p[1].cause /\ \A a \in actions : p[1].at <= a.at}
  IN {p[1].at - p[2].at : p \in first}

(* Once the transitions are stored, the analytics pair the first executed  *)
(* action with the event that caused its review, although its row names    *)
(* none, and count every review once, every event that was taken as one    *)
(* wake decision, and no action less than those reported executed.         *)
AnalyticsTrue ==
  queue = <<>> =>
    LET counts == RunCounts(rows) IN
    /\ FirstLatency(rows) = TrueLatency
    /\ counts.invocations = reviews
    /\ counts.decisions = Cardinality(applied)
    /\ counts.suppressed = Cardinality({e \in applied : ClassifyEvent(TypeOf[e]) = "suppress"})
    /\ counts.executed >= Cardinality(done)
=============================================================================
