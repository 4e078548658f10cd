---------------------- MODULE SupervisorReview_proofs -----------------------
(***************************************************************************)
(* Theorems about SupervisorReview, for every number of events,            *)
(* instructions, reviews and attempts: what a memory and a final report    *)
(* say, what the analytics make of the rows, and what the rules remember.  *)
(*                                                                         *)
(* Three inductive invariants, each on top of the types: Honest and        *)
(* Reported (memory, timeline and report name what was executed),          *)
(* Consistent (the rows, and what explains each of them), and              *)
(* WindowRemembered (memory against the instructions).                     *)
(***************************************************************************)
EXTENDS SupervisorReview, SupervisorProviders_proofs

-----------------------------------------------------------------------------
(* The invariant of a review's data.                                       *)

(* The types of what a row and a request name.                             *)
EventTypes == {TypeOf[e] : e \in Events} \cup {"none"}
Triggers == EventTypes \cup {"workflow_start", "scheduled_wake"}
RowType == [kind : RowKinds, at : Nat, event : Events \cup {"none"}, type : Triggers,
            trigger : Triggers, cause : Events \cup {"none"}]
Requests == [trigger : Triggers, type : Triggers, instructions : Seq(Texts),
             memory : Memory, activity : Seq(Actions \cup {"note"})]

(* The type invariant, with what the request and the rows are made of.     *)
Typed ==
  /\ pc \in {"waiting", "asking", "acting", "flushing", "reporting", "closing", "closed"}
  /\ config \in Configurations
  /\ now \in Nat /\ reviews \in 0..config.reviews
  /\ instructions \in Seq(Texts) /\ inbox \in Seq(Events)
  /\ memory \in Memory /\ request \in Requests
  /\ timeline \in Seq(Actions \cup {"note"}) /\ Len(timeline) <= FinalActivityLimit
  /\ cause \in Events \cup {"none"}
  /\ plan \in Seq(Actions) /\ executed \in Seq(Actions) /\ done \subseteq Actions
  /\ applied \subseteq Events
  /\ queue \in Seq(RowType) /\ rows \subseteq RowType /\ late \subseteq RowType
  /\ \A row \in rows \cup late \cup ToSet(queue) : row.at <= now

(* What is remembered satisfies its own validation.                        *)
Valid(m) ==
  /\ m.actions \in Seq(Actions) /\ m.constraints \in Kept
  /\ NoRepeats(m.actions) /\ NoRepeats(m.constraints)

Honest ==
  /\ Valid(memory) /\ Valid(request.memory)
  /\ update.constraints \in Seq(Texts \cup Range(Cut))
  /\ pc # "acting" => executed = <<>>
  /\ ToSet(memory.actions) \cup ToSet(executed) = done

(* The timeline, and with it the request of a report, names an action only *)
(* when it was executed.                                                   *)
Reported ==
  /\ ToSet(timeline) \cap Actions \subseteq done
  /\ pc = "reporting" => /\ request.memory = memory
                         /\ ToSet(request.activity) \cap Actions \subseteq done
  /\ pc \notin {"closing", "closed"} => named = <<"none">>
  /\ named \notin {<<"none">>, <<"free text">>} =>
       named \in Seq(Actions) /\ ToSet(named) = done /\ NoRepeats(named)

(* The values of a concatenation.                                          *)
LEMMA ConcatKeeps ==
  ASSUME NEW V, NEW s \in Seq(V), NEW t \in Seq(V)
  PROVE  s \o t \in Seq(V) /\ ToSet(s \o t) = ToSet(s) \cup ToSet(t)
  <1> DEFINE m == Len(s)
             n == Len(t)
             u == s \o t
  <1>1. m \in Nat /\ n \in Nat /\ u \in Seq(V) /\ Len(u) = m + n
    OBVIOUS
  <1>2. DOMAIN s = 1..m /\ DOMAIN t = 1..n /\ DOMAIN u = 1..(m + n)
    BY <1>1
  <1>3. (\A i \in 1..m : u[i] = s[i]) /\ (\A i \in 1..n : u[m + i] = t[i])
    OBVIOUS
  <1> HIDE DEF m, n, u
  <1>4. \A i \in 1..(m + n) : i \in 1..m \/ (i - m \in 1..n /\ i = m + (i - m))
    BY <1>1
  <1>5. (\A i \in 1..m : i \in 1..(m + n)) /\ \A i \in 1..n : m + i \in 1..(m + n)
    BY <1>1
  <1>6. ToSet(u) \subseteq ToSet(s) \cup ToSet(t)
    BY <1>2, <1>3, <1>4 DEF ToSet
  <1>7. ToSet(s) \cup ToSet(t) \subseteq ToSet(u)
    BY <1>2, <1>3, <1>5 DEF ToSet
  <1> QED
    BY <1>1, <1>6, <1>7 DEF u

(* The rest of a list.                                                     *)
LEMMA TailKeeps ==
  ASSUME NEW V, NEW s \in Seq(V), s # <<>>
  PROVE  Head(s) \in V /\ Tail(s) \in Seq(V)
  OBVIOUS

(* An entry for the timeline.                                              *)
LEMMA EntryKeeps ==
  ASSUME NEW old \in Seq(Actions \cup {"note"}), NEW new \in Seq(Actions \cup {"note"})
  PROVE  LET r == Newest(old \o new, FinalActivityLimit) IN
         /\ r \in Seq(Actions \cup {"note"}) /\ Len(r) <= FinalActivityLimit
         /\ ToSet(r) \subseteq ToSet(old) \cup ToSet(new)
  <1>1. old \o new \in Seq(Actions \cup {"note"}) /\ ToSet(old \o new) = ToSet(old) \cup ToSet(new)
    BY ConcatKeeps
  <1>2. FinalActivityLimit \in Nat
    BY ProvidersAssumption
  <1> DEFINE s == old \o new
  <1> HIDE DEF s
  <1>3. s \in Seq(Actions \cup {"note"}) /\ ToSet(s) = ToSet(old) \cup ToSet(new)
    BY <1>1 DEF s
  <1> QED
    BY <1>2, <1>3, NewestKeeps, NewestAmong DEF s

(* A note in the timeline adds no action to it.                            *)
LEMMA NoteKeeps ==
  ASSUME timeline \in Seq(Actions \cup {"note"}), NEW n \in Nat, Note(n)
  PROVE  /\ timeline' \in Seq(Actions \cup {"note"}) /\ Len(timeline') <= FinalActivityLimit
         /\ ToSet(timeline') \cap Actions \subseteq ToSet(timeline)
  <1> DEFINE new == [i \in 1..n |-> "note"]
  <1>1. new \in Seq(Actions \cup {"note"}) /\ ToSet(new) \subseteq {"note"}
    BY DEF ToSet
  <1>2. timeline' = Newest(timeline \o new, FinalActivityLimit)
    BY DEF Note
  <1> HIDE DEF new
  <1>3. "note" \notin Actions
    BY ReviewAssumption
  <1> DEFINE r == Newest(timeline \o new, FinalActivityLimit)
  <1>4. /\ r \in Seq(Actions \cup {"note"}) /\ Len(r) <= FinalActivityLimit
        /\ ToSet(r) \subseteq ToSet(timeline) \cup ToSet(new)
    BY <1>1, EntryKeeps
  <1> HIDE DEF r
  <1> QED
    BY <1>1, <1>2, <1>3, <1>4 DEF r

-----------------------------------------------------------------------------
(* Types.                                                                  *)

(* The types at the start.                                                 *)
LEMMA TypedInit ==
  ASSUME Init PROVE Typed
  <1>1. EmptyMemory \in Memory
    BY DEF EmptyMemory, Memory
  <1>2. NoRequest \in Requests
    BY <1>1 DEF NoRequest, Requests, Triggers, EventTypes
  <1>3. config.reviews \in Nat /\ FinalActivityLimit \in Nat
    BY ReviewAssumption, ProvidersAssumption DEF Init
  <1>4. ToSet(queue) = {}
    BY DEF Init, ToSet
  <1> QED
    BY <1>1, <1>2, <1>3, <1>4 DEF Init, Typed

(* A call begins with a request, and takes what it was made with along.    *)
LEMMA TypedCallEnds ==
  ASSUME CallEnds
  PROVE  /\ request' \in Requests /\ request'.memory = EmptyMemory
         /\ cause' = "none" /\ plan' = <<>> /\ update' = EmptyMemory /\ executed' = <<>>
         /\ plan' \in Seq(Actions) /\ executed' \in Seq(Actions)
  <1>1. EmptyMemory \in Memory
    BY DEF EmptyMemory, Memory
  <1>2. NoRequest \in Requests /\ NoRequest.memory = EmptyMemory
    BY <1>1 DEF NoRequest, Requests, Triggers, EventTypes
  <1> QED
    BY <1>2 DEF CallEnds

(* New rows are of this moment, old ones are not younger.                  *)
LEMMA QueueKeeps ==
  ASSUME Typed, now' \in Nat, now <= now',
         NEW entries \in Seq(RowType), \A row \in ToSet(entries) : row.at = now',
         Queue(entries), UNCHANGED <<rows, late>>
  PROVE  /\ queue' \in Seq(RowType)
         /\ ToSet(queue') = ToSet(queue) \cup ToSet(entries)
         /\ \A row \in rows' \cup late' \cup ToSet(queue') : row.at <= now'
  <1>1. queue' \in Seq(RowType) /\ ToSet(queue') = ToSet(queue) \cup ToSet(entries)
    BY ConcatKeeps DEF Typed, Queue
  <1>2. \A row \in rows \cup late \cup ToSet(queue) : row.at \in Nat
    <2>1. ToSet(queue) \subseteq RowType
      BY ToSetOfSeq DEF Typed
    <2> QED
      BY <2>1 DEF Typed, RowType
  <1>3. now \in Nat /\ \A row \in rows \cup late \cup ToSet(queue) : row.at <= now
    BY DEF Typed
  <1>4. \A row \in rows \cup late \cup ToSet(queue) : row.at <= now'
    BY <1>2, <1>3
  <1> QED
    BY <1>1, <1>4

(* Rows that stay where they are do not become younger than now.           *)
LEMMA RowsStay ==
  ASSUME Typed, now' = now + 1, UNCHANGED <<queue, rows, late>>
  PROVE  \A row \in rows' \cup late' \cup ToSet(queue') : row.at <= now'
  <1>1. ToSet(queue) \subseteq RowType
    BY ToSetOfSeq DEF Typed
  <1>2. \A row \in rows \cup late \cup ToSet(queue) : row.at \in Nat /\ row.at <= now
    BY <1>1 DEF Typed, RowType
  <1>3. now \in Nat
    BY DEF Typed
  <1> QED
    BY <1>2, <1>3

(* The row of an event is a row, dated now.                                *)
LEMMA EventRowIsRow ==
  ASSUME NEW event \in Events, NEW kind \in RowKinds, now' \in Nat
  PROVE  EventRow(kind, event) \in RowType /\ EventRow(kind, event).at = now'
  BY DEF EventRow, Row, RowType, Triggers, EventTypes

(* The list of one value.                                                  *)
LEMMA SingleKeeps ==
  ASSUME NEW V, NEW x \in V
  PROVE  <<x>> \in Seq(V) /\ ToSet(<<x>>) = {x}
  BY DEF ToSet

(* The types of what a review begins with.                                 *)
LEMMA TypedBeginReview ==
  ASSUME Typed, NEW trigger \in Triggers, NEW type \in Triggers,
         NEW event \in Events \cup {"none"},
         NEW first \in Seq(RowType), \A row \in ToSet(first) : row.at = now',
         now' \in Nat, now <= now', inbox' \in Seq(Events), applied' \subseteq Events,
         BeginReview(trigger, type, event, first)
  PROVE  Typed'
  <1> DEFINE row == Row("supervisor_invocation", "none", type, trigger, event)
  <1>1. row \in RowType /\ row.at = now'
    BY DEF Row, RowType, RowKinds, Triggers, EventTypes
  <1>2. Queue(first \o <<row>>) /\ UNCHANGED <<rows, late>>
    BY DEF BeginReview
  <1> HIDE DEF row
  <1>3. /\ first \o <<row>> \in Seq(RowType)
        /\ \A r \in ToSet(first \o <<row>>) : r.at = now'
    <2> DEFINE one == <<row>>
    <2>1. one \in Seq(RowType) /\ ToSet(one) = {row}
      BY <1>1, SingleKeeps
    <2> HIDE DEF one
    <2>2. first \o one \in Seq(RowType) /\ ToSet(first \o one) = ToSet(first) \cup ToSet(one)
      BY <2>1, ConcatKeeps
    <2> QED
      BY <1>1, <2>1, <2>2 DEF one
  <1>4. /\ queue' \in Seq(RowType)
        /\ \A r \in rows' \cup late' \cup ToSet(queue') : r.at <= now'
    BY <1>2, <1>3, QueueKeeps
  <1>5. timeline' \in Seq(Actions \cup {"note"}) /\ Len(timeline') <= FinalActivityLimit
    BY NoteKeeps DEF BeginReview, Typed
  <1>6. Newest(timeline', ActivityLimit) \in Seq(Actions \cup {"note"})
    BY <1>5, NewestKeeps, BudgetAssumption
  <1>7. request' \in Requests
    BY <1>6 DEF BeginReview, Typed, Requests
  <1>8. reviews' \in 0..config'.reviews
    <2>1. config.reviews \in Nat
      BY ReviewAssumption DEF Typed
    <2> QED
      BY <2>1 DEF BeginReview, Typed
  <1> QED
    BY <1>4, <1>5, <1>7, <1>8 DEF BeginReview, Typed

(* The proposal that is taken is an action.                                *)
LEMMA TypedNextProposal ==
  ASSUME Typed, NextProposal
  PROVE  plan' \in Seq(Actions) /\ Head(plan) \in Actions /\ UNCHANGED queue
  BY TailKeeps DEF Typed, NextProposal

(* The row of an action is a row, dated by the request.                    *)
LEMMA TypedActionRow ==
  ASSUME Typed
  PROVE  ActionRow \in RowType /\ ActionRow.at = now
  <1>1. ActionRow = [kind |-> "business_action_executed", at |-> now, event |-> "none",
                     type |-> "none", trigger |-> request.trigger, cause |-> cause]
    BY DEF ActionRow, Row
  <1>2. now \in Nat /\ request.trigger \in Triggers /\ cause \in Events \cup {"none"}
    BY DEF Typed, Requests
  <1>3. "business_action_executed" \in RowKinds /\ "none" \in Triggers
    BY DEF RowKinds, Triggers, EventTypes
  <1> QED
    BY <1>1, <1>2, <1>3 DEF RowType

(* The memory that a review leaves.                                        *)
LEMMA TypedUpdate ==
  ASSUME Typed, Honest
  PROVE  /\ ValidatedMemoryUpdate(memory, update, executed) \in Memory
         /\ Valid(ValidatedMemoryUpdate(memory, update, executed))
         /\ ToSet(ValidatedMemoryUpdate(memory, update, executed).actions)
              = ToSet(memory.actions) \cup ToSet(executed)
  <1> DEFINE known == memory.actions \o executed
             m == ValidatedMemoryUpdate(memory, update, executed)
  <1>1. known \in Seq(Actions) /\ ToSet(known) = ToSet(memory.actions) \cup ToSet(executed)
    BY ConcatKeeps DEF Typed, Memory
  <1>2. m.actions = BoundedTextList(known) /\ m.constraints = BoundedTextList(update.constraints)
    BY DEF ValidatedMemoryUpdate
  <1>3. m = [actions |-> m.actions, constraints |-> m.constraints]
    BY DEF ValidatedMemoryUpdate
  <1> HIDE DEF known, m
  <1>4. \A v \in Actions : BoundedText(v) \in Actions
    BY ProvidersAssumption DEF BoundedText
  <1>5. m.actions \in Seq(Actions) /\ NoRepeats(m.actions) /\ ToSet(m.actions) = ToSet(known)
    BY <1>1, <1>2, <1>4, BoundedTextListKeeps, BoundedTextListOfActions
  <1>6. m.constraints \in Kept /\ NoRepeats(m.constraints)
    <2>1. \A v \in Texts \cup Range(Cut) : BoundedText(v) \in Remembered
      BY BoundedTextRemembered
    <2>2. update.constraints \in Seq(Texts \cup Range(Cut))
      BY DEF Honest
    <2> QED
      BY <1>2, <2>1, <2>2, BoundedTextListKeeps DEF Kept
  <1>7. m.constraints \in Seq(Texts \cup Range(Cut))
    <2>1. ToSet(m.constraints) \subseteq Texts \cup Range(Cut)
      BY <1>6, ToSetOfSeq DEF Kept, Remembered
    <2> QED
      BY <1>6, <2>1, SeqOfToSet DEF Kept
  <1> QED
    BY <1>1, <1>3, <1>5, <1>6, <1>7 DEF Memory, Valid, m

-----------------------------------------------------------------------------
(* Every step keeps the types.                                             *)
LEMMA TypedNext ==
  ASSUME Typed, Honest, [Next]_vars
  PROVE  Typed'
  <1>0. now \in Nat /\ now + 1 \in Nat /\ now <= now + 1 /\ now <= now
    BY DEF Typed
  <1>1. ASSUME NEW text \in Texts, add_instruction(text) PROVE Typed'
    <2>1. timeline' \in Seq(Actions \cup {"note"}) /\ Len(timeline') <= FinalActivityLimit
      BY <1>1, NoteKeeps DEF add_instruction, Typed
    <2>2. instructions' \in Seq(Texts)
      BY <1>1 DEF add_instruction, Typed
    <2> QED
      BY <1>1, <2>1, <2>2 DEF add_instruction, Typed, callVars, rowVars, history
  <1>2. ASSUME NEW event \in Events, receive_event(event) PROVE Typed'
    <2>1. timeline' \in Seq(Actions \cup {"note"}) /\ Len(timeline') <= FinalActivityLimit
      BY <1>2, NoteKeeps DEF receive_event, Typed
    <2>2. inbox' \in Seq(Events)
      BY <1>2 DEF receive_event, Typed
    <2> DEFINE row == EventRow("order_event_received", event)
    <2>3. now' = now + 1 /\ Queue(<<row>>) /\ UNCHANGED <<rows, late>>
      BY <1>2 DEF receive_event
    <2>4. row \in RowType /\ row.at = now'
      BY <1>0, <2>3, EventRowIsRow DEF RowKinds
    <2> HIDE DEF row
    <2>5. /\ queue' \in Seq(RowType)
          /\ \A r \in rows' \cup late' \cup ToSet(queue') : r.at <= now'
      BY <1>0, <2>3, <2>4, SingleKeeps, QueueKeeps
    <2> QED
      BY <1>0, <1>2, <2>1, <2>2, <2>3, <2>5 DEF receive_event, Typed, callVars, history
  <1>3. ASSUME NEW event \in Events, WakeSupervisor(event) PROVE Typed'
    <2> DEFINE row == EventRow("supervisor_wake_requested", event)
    <2>1. /\ BeginReview(TypeOf[event], TypeOf[event], event, <<row>>)
          /\ now' = now /\ inbox' \in Seq(Events) /\ applied' \subseteq Events
      BY <1>3, TailKeeps DEF WakeSupervisor, TakeEvent, Typed
    <2>2. row \in RowType /\ row.at = now'
      BY <1>0, <2>1, EventRowIsRow DEF RowKinds
    <2>3. TypeOf[event] \in Triggers
      BY DEF Triggers, EventTypes
    <2> HIDE DEF row
    <2>4. <<row>> \in Seq(RowType) /\ ToSet(<<row>>) = {row}
      BY <2>2, SingleKeeps
    <2> QED
      BY <1>0, <2>1, <2>2, <2>3, <2>4, TypedBeginReview
  <1>4. ASSUME NEW event \in Events, SuppressWake(event) PROVE Typed'
    <2>1. timeline' \in Seq(Actions \cup {"note"}) /\ Len(timeline') <= FinalActivityLimit
      BY <1>4, NoteKeeps DEF SuppressWake, Typed
    <2>2. now' = now /\ inbox' \in Seq(Events) /\ applied' \subseteq Events
      BY <1>4, TailKeeps DEF SuppressWake, TakeEvent, Typed
    <2> DEFINE row == EventRow("supervisor_wake_suppressed", event)
    <2>3. Queue(<<row>>) /\ UNCHANGED <<rows, late>>
      BY <1>4 DEF SuppressWake
    <2>4. row \in RowType /\ row.at = now'
      BY <1>0, <2>2, EventRowIsRow DEF RowKinds
    <2> HIDE DEF row
    <2>5. /\ queue' \in Seq(RowType)
          /\ \A r \in rows' \cup late' \cup ToSet(queue') : r.at <= now'
      BY <1>0, <2>2, <2>3, <2>4, SingleKeeps, QueueKeeps
    <2> QED
      BY <1>0, <1>4, <2>1, <2>2, <2>5 DEF SuppressWake, Typed, callVars
  <1>5. CASE Startup \/ ScheduledReview
    <2>1. /\ now' \in Nat /\ now <= now' /\ UNCHANGED <<inbox, applied>>
          /\ \E trigger \in Triggers : BeginReview(trigger, "none", "none", <<>>)
      BY <1>0, <1>5 DEF Startup, ScheduledReview, Triggers
    <2>2. "none" \in Triggers /\ <<>> \in Seq(RowType) /\ ToSet(<<>>) = {}
      BY DEF Triggers, EventTypes, ToSet
    <2>3. inbox' \in Seq(Events) /\ applied' \subseteq Events
      BY <2>1 DEF Typed
    <2> QED
      BY <2>1, <2>2, <2>3, TypedBeginReview
  <1>6. ASSUME NEW actions \in Seq(Actions), NEW recollection, Decided(actions, recollection)
        PROVE  Typed'
    <2>1. timeline' \in Seq(Actions \cup {"note"}) /\ Len(timeline') <= FinalActivityLimit
      BY <1>6, NoteKeeps DEF Decided, Typed
    <2>2. \A row \in rows' \cup late' \cup ToSet(queue') : row.at <= now'
      BY <1>6, RowsStay DEF Decided, rowVars
    <2> QED
      BY <1>0, <1>6, <2>1, <2>2 DEF Decided, Typed, dataVars, rowVars, history
  <1>7. CASE DecideByRules \/ DecideByModel
    <2>1. \A type \in Triggers : ActionForEvent(type) \in Seq(Actions)
      <3>1. ASSUME NEW type \in Triggers PROVE ActionForEvent(type) \in Seq(Actions)
        <4>1. ActionForEvent(type) = <<>> \/ \E a : ActionForEvent(type) = <<a>>
          BY DEF ActionForEvent
        <4>2. CASE \E e \in Events : type = TypeOf[e]
          <5>1. ToSet(ActionForEvent(type)) \subseteq Actions
            BY <4>2, ReviewAssumption
          <5>2. CASE ActionForEvent(type) = <<>>
            BY <5>2
          <5>3. ASSUME NEW a, ActionForEvent(type) = <<a>>
                PROVE  ActionForEvent(type) \in Seq(Actions)
            <6>1. ToSet(<<a>>) \subseteq Actions
              BY <5>1, <5>3
            <6>2. a \in Actions
              BY <6>1 DEF ToSet
            <6> QED
              BY <5>3, <6>2
          <5> QED
            BY <4>1, <5>2, <5>3
        <4>3. CASE type \in {"none", "workflow_start", "scheduled_wake"}
          BY <4>3 DEF ActionForEvent
        <4> QED
          BY <4>2, <4>3 DEF Triggers, EventTypes
      <3> QED
        BY <3>1
    <2>2. request.type \in Triggers
      BY DEF Typed, Requests
    <2>3. RulesDecide(request).actions \in Seq(Actions)
      BY <2>1, <2>2 DEF RulesDecide
    <2>4. CASE DecideByRules
      BY <1>6, <2>3, <2>4 DEF DecideByRules
    <2>5. CASE DecideByModel
      BY <1>6, <2>5, ReviewAssumption DEF DecideByModel
    <2> QED
      BY <1>7, <2>4, <2>5
  <1>8. CASE ReviewFails
    <2>1. timeline' \in Seq(Actions \cup {"note"}) /\ Len(timeline') <= FinalActivityLimit
      BY <1>8, NoteKeeps DEF ReviewFails, Typed
    <2>2. /\ request' \in Requests /\ cause' = "none" /\ plan' \in Seq(Actions)
          /\ executed' \in Seq(Actions)
      BY <1>8, TypedCallEnds DEF ReviewFails
    <2>3. \A row \in rows' \cup late' \cup ToSet(queue') : row.at <= now'
      BY <1>8, RowsStay DEF ReviewFails, rowVars
    <2> QED
      BY <1>0, <1>8, <2>1, <2>2, <2>3 DEF ReviewFails, Typed, dataVars, rowVars, history
  <1>9. CASE RefuseProposal
    <2>1. timeline' \in Seq(Actions \cup {"note"}) /\ Len(timeline') <= FinalActivityLimit
      BY <1>9, NoteKeeps DEF RefuseProposal, Typed
    <2>2. plan' \in Seq(Actions) /\ NextProposal
      BY <1>9, TypedNextProposal DEF RefuseProposal
    <2> QED
      BY <1>9, <2>1, <2>2 DEF RefuseProposal, NextProposal, Typed, dataVars
  <1>10. CASE ActionExecuted
    <2>1. NextProposal /\ plan' \in Seq(Actions) /\ Head(plan) \in Actions
      BY <1>10, TypedNextProposal DEF ActionExecuted
    <2>2. timeline' \in Seq(Actions \cup {"note"}) /\ Len(timeline') <= FinalActivityLimit
      <3>1. <<Head(plan)>> \in Seq(Actions \cup {"note"}) /\ timeline \in Seq(Actions \cup {"note"})
        BY <2>1 DEF Typed
      <3>2. Append(timeline, Head(plan)) = timeline \o <<Head(plan)>>
        BY <3>1
      <3> QED
        BY <1>10, <3>1, <3>2, EntryKeeps DEF ActionExecuted
    <2>3. ActionRow \in RowType /\ ActionRow.at = now
      BY TypedActionRow
    <2>4. /\ rows' \subseteq RowType /\ late' \subseteq RowType
          /\ \A row \in rows' \cup late' \cup ToSet(queue') : row.at <= now'
      <3>1. ToSet(queue) \subseteq RowType
        BY ToSetOfSeq DEF Typed
      <3>2. \A row \in rows \cup late \cup ToSet(queue) \cup {ActionRow} : row.at \in Nat
        BY <2>3, <3>1 DEF Typed, RowType
      <3>3. \A row \in rows \cup late \cup ToSet(queue) \cup {ActionRow} : row.at <= now
        BY <1>0, <2>3 DEF Typed
      <3>4. \A row \in rows \cup late \cup ToSet(queue) \cup {ActionRow} : row.at <= now + 1
        BY <1>0, <3>2, <3>3
      <3>5. now' = now + 1 /\ rows' = rows \cup {ActionRow} /\ late' = late /\ queue' = queue
        BY <1>10 DEF ActionExecuted, NextProposal
      <3> QED
        BY <2>3, <3>4, <3>5 DEF Typed
    <2>5. executed' \in Seq(Actions) /\ done' \subseteq Actions /\ now' \in Nat
      BY <1>0, <1>10, <2>1 DEF ActionExecuted, Typed
    <2> QED
      BY <1>10, <2>1, <2>2, <2>4, <2>5 DEF ActionExecuted, NextProposal, Typed, dataVars
  <1>11. CASE ActionFails
    <2>1. NextProposal /\ plan' \in Seq(Actions)
      BY <1>11, TypedNextProposal DEF ActionFails
    <2>2. timeline' \in Seq(Actions \cup {"note"}) /\ Len(timeline') <= FinalActivityLimit
      BY <1>11, NoteKeeps DEF ActionFails, Typed
    <2>3. ActionRow \in RowType /\ ActionRow.at = now
      BY TypedActionRow
    <2>4. /\ rows' \subseteq RowType /\ late' \subseteq RowType
          /\ \A row \in rows' \cup late' \cup ToSet(queue') : row.at <= now'
      <3>1. ToSet(queue) \subseteq RowType
        BY ToSetOfSeq DEF Typed
      <3>2. \A row \in rows \cup late \cup ToSet(queue) \cup {ActionRow} : row.at \in Nat
        BY <2>3, <3>1 DEF Typed, RowType
      <3>3. \A row \in rows \cup late \cup ToSet(queue) \cup {ActionRow} : row.at <= now
        BY <1>0, <2>3 DEF Typed
      <3>4. \A row \in rows \cup late \cup ToSet(queue) \cup {ActionRow} : row.at <= now + 1
        BY <1>0, <3>2, <3>3
      <3>5. /\ now' = now + 1 /\ queue' = queue
            /\ rows' \subseteq rows \cup {ActionRow} /\ late' \subseteq late \cup {ActionRow}
        BY <1>11 DEF ActionFails, NextProposal
      <3> QED
        BY <2>3, <3>4, <3>5 DEF Typed
    <2>5. now' \in Nat
      BY <1>0, <1>11 DEF ActionFails
    <2> QED
      BY <1>11, <2>1, <2>2, <2>4, <2>5 DEF ActionFails, NextProposal, Typed, dataVars
  <1>12. CASE LateCommit
    <2>1. /\ rows' \cup late' = rows \cup late
          /\ rows' \subseteq rows \cup late /\ late' \subseteq rows \cup late
      BY <1>12 DEF LateCommit
    <2> QED
      BY <1>12, <2>1 DEF LateCommit, Typed, dataVars, callVars, history
  <1>13. CASE Remember
    <2>1. timeline' \in Seq(Actions \cup {"note"}) /\ Len(timeline') <= FinalActivityLimit
      BY <1>13, NoteKeeps DEF Remember, Typed
    <2>2. memory' \in Memory
      BY <1>13, TypedUpdate DEF Remember
    <2>3. /\ request' \in Requests /\ cause' = "none" /\ plan' \in Seq(Actions)
          /\ executed' \in Seq(Actions)
      BY <1>13, TypedCallEnds DEF Remember
    <2> QED
      BY <1>13, <2>1, <2>2, <2>3 DEF Remember, Typed, rowVars, history
  <1>14. CASE Flush
    <2>1. timeline' \in Seq(Actions \cup {"note"}) /\ Len(timeline') <= FinalActivityLimit
      BY <1>14, NoteKeeps DEF Flush, Typed
    <2>2. /\ ToSet(queue) \subseteq RowType /\ queue' \in Seq(RowType) /\ ToSet(queue') = {}
          /\ rows' = rows \cup ToSet(queue)
      BY <1>14, ToSetOfSeq DEF Flush, Typed, ToSet
    <2> QED
      BY <1>14, <2>1, <2>2 DEF Flush, Typed, dataVars, callVars, history
  <1>15. CASE Finish
    <2>1. timeline' \in Seq(Actions \cup {"note"}) /\ Len(timeline') <= FinalActivityLimit
      BY <1>15, NoteKeeps DEF Finish, Typed
    <2>2. /\ ToSet(queue) \subseteq RowType /\ queue' \in Seq(RowType) /\ ToSet(queue') = {}
          /\ rows' = rows \cup ToSet(queue)
      BY <1>15, ToSetOfSeq DEF Finish, Typed, ToSet
    <2>3. request' \in Requests
      BY <1>15, <2>1 DEF Finish, Typed, NoRequest, Requests, Triggers, EventTypes
    <2>4. /\ rows' \subseteq RowType /\ inbox' \in Seq(Events)
          /\ \A row \in rows' \cup late' \cup ToSet(queue') : row.at <= now'
      BY <1>15, <2>2 DEF Finish, Typed
    <2> QED
      BY <1>15, <2>1, <2>2, <2>3, <2>4 DEF Finish, Typed, history
  <1>16. ASSUME NEW names, Report(names) PROVE Typed'
    <2>1. /\ request' \in Requests /\ cause' = "none" /\ plan' \in Seq(Actions)
          /\ executed' \in Seq(Actions)
      BY <1>16, TypedCallEnds DEF Report
    <2> QED
      BY <1>16, <2>1 DEF Report, Typed, dataVars, rowVars, history
  <1>17. CASE ReportByRules \/ ReportByModel \/ ReportFallback
    BY <1>16, <1>17 DEF ReportByRules, ReportByModel, ReportFallback
  <1>18. CASE UNCHANGED vars
    BY <1>18 DEF Typed, vars, dataVars, callVars, rowVars, history
  <1> QED
    BY <1>1, <1>2, <1>3, <1>4, <1>5, <1>7, <1>8, <1>9, <1>10, <1>11, <1>12, <1>13, <1>14,
       <1>15, <1>17, <1>18 DEF Next, Finished

-----------------------------------------------------------------------------
(* Memory and the report.                                                  *)

(* The memory of a new run is valid.                                       *)
LEMMA EmptyIsValid ==
  /\ Valid(EmptyMemory) /\ EmptyMemory.constraints \in Seq(Texts \cup Range(Cut))
  /\ ToSet(EmptyMemory.actions) = {} /\ ToSet(<<>>) = {}
  <1>1. EmptyMemory.actions = <<>> /\ EmptyMemory.constraints = <<>>
    BY DEF EmptyMemory
  <1>2. NoRepeats(<<>>) /\ ToSet(<<>>) = {}
    BY DEF NoRepeats, ToSet
  <1>3. Len(<<>>) <= MemoryItems /\ <<>> \in Seq(Remembered)
    BY ProvidersAssumption
  <1> QED
    BY <1>1, <1>2, <1>3 DEF Valid, Kept

(* What the rules decide to remember: the instructions appended to a       *)
(* memory that validation left as it is.                                   *)
LEMMA RulesUpdate ==
  ASSUME Typed, Honest
  PROVE  LET constraints == RulesDecide(request).memory.constraints IN
         /\ constraints = AppendEach(request.memory.constraints,
                                     Newest(request.instructions, InstructionLimit))
         /\ constraints \in Kept /\ constraints \in Seq(Texts \cup Range(Cut))
         /\ request.instructions # <<>> =>
              BoundedText(Last(request.instructions)) \in ToSet(constraints)
  <1> DEFINE known == request.memory.constraints
             looked == Newest(request.instructions, InstructionLimit)
             constraints == AppendEach(known, looked)
  <1>1. known \in Kept /\ NoRepeats(known)
    BY DEF Honest, Valid
  <1>2. Distinct(known) = known
    BY <1>1, DistinctIsNoRepeats DEF Kept
  <1>3. RulesDecide(request).memory.constraints = constraints
    BY <1>2 DEF RulesDecide, MemoryFromData, AppendInstructions
  <1>4. InstructionLimit \in Nat /\ InstructionLimit > 0
    BY BudgetAssumption
  <1>5. request.instructions \in Seq(Texts)
    BY DEF Typed, Requests
  <1>6. looked \in Seq(Texts)
    BY <1>4, <1>5, NewestKeeps
  <1>7. request.instructions # <<>> => looked # <<>> /\ Last(looked) = Last(request.instructions)
    BY <1>4, <1>5, NewestAmong
  <1> HIDE DEF known, looked
  <1>8. /\ constraints \in Kept
        /\ looked # <<>> => BoundedText(Last(looked)) \in ToSet(constraints)
    BY <1>1, <1>6, AppendEachKeeps
  <1> HIDE DEF constraints
  <1>9. constraints \in Seq(Texts \cup Range(Cut))
    <2>1. ToSet(constraints) \subseteq Texts \cup Range(Cut)
      BY <1>8, ToSetOfSeq DEF Kept, Remembered
    <2> QED
      BY <1>8, <2>1, SeqOfToSet DEF Kept
  <1> QED
    BY <1>3, <1>7, <1>8, <1>9 DEF constraints, known, looked

(* Memory at the start.                                                    *)
LEMMA HonestInit ==
  ASSUME Init PROVE Honest
  BY EmptyIsValid DEF Init, Honest, NoRequest

(* Every step keeps memory honest: what it says of actions is what was     *)
(* executed, and it stays valid.                                           *)
LEMMA HonestNext ==
  ASSUME Typed, Honest, [Next]_vars
  PROVE  Honest'
  <1>1. CASE UNCHANGED <<memory, request, update, executed, done>>
             /\ (pc # "acting" => pc' # "acting" \/ executed = <<>>)
             /\ (pc = "acting" => pc' = "acting")
    BY <1>1 DEF Honest
  <1>2. ASSUME NEW trigger, NEW type, NEW event, NEW first,
               BeginReview(trigger, type, event, first), pc = "waiting"
        PROVE  Honest'
    <2>1. request'.memory = memory /\ UNCHANGED <<memory, update, executed, done>>
      BY <1>2 DEF BeginReview
    <2> QED
      BY <1>2, <2>1 DEF Honest
  <1>3. ASSUME NEW text \in Texts, add_instruction(text) PROVE Honest'
    BY <1>1, <1>3 DEF add_instruction, callVars, history
  <1>4. ASSUME NEW event \in Events, receive_event(event) PROVE Honest'
    BY <1>1, <1>4 DEF receive_event, callVars, history
  <1>5. ASSUME NEW event \in Events, WakeSupervisor(event) PROVE Honest'
    BY <1>2, <1>5 DEF WakeSupervisor, TakeEvent
  <1>6. ASSUME NEW event \in Events, SuppressWake(event) PROVE Honest'
    BY <1>1, <1>6 DEF SuppressWake, callVars
  <1>7. CASE Startup \/ ScheduledReview
    BY <1>2, <1>7 DEF Startup, ScheduledReview
  <1>8. CASE DecideByRules \/ DecideByModel
    <2>1. /\ pc = "asking" /\ pc' = "acting" /\ UNCHANGED <<memory, request, executed, done>>
          /\ update'.constraints \in Seq(Texts \cup Range(Cut))
      <3>1. CASE DecideByRules
        BY <3>1, RulesUpdate DEF DecideByRules, Decided, dataVars, history
      <3>2. CASE DecideByModel
        <4>1. PICK recollection \in Recollections, actions \in Plans :
                 Decided(actions, recollection)
          BY <3>2 DEF DecideByModel
        <4>2. recollection.constraints \in Seq(Texts \cup Range(Cut))
          <5>1. recollection.constraints \in Seq(Texts)
            BY ReviewAssumption
          <5> QED
            BY <5>1
        <4> QED
          BY <4>1, <4>2 DEF Decided, dataVars, history
      <3> QED
        BY <1>8, <3>1, <3>2
    <2> QED
      BY <2>1 DEF Honest
  <1>9. ASSUME CallEnds, pc # "acting", pc' # "acting", UNCHANGED <<memory, done>> PROVE Honest'
    <2>1. request'.memory = EmptyMemory /\ update' = EmptyMemory /\ executed' = <<>>
      BY <1>9, TypedCallEnds
    <2> QED
      BY <1>9, <2>1, EmptyIsValid DEF Honest
  <1>10. CASE ReviewFails
    BY <1>9, <1>10 DEF ReviewFails, dataVars, history
  <1>11. CASE RefuseProposal
    BY <1>1, <1>11 DEF RefuseProposal, NextProposal, dataVars
  <1>12. CASE ActionExecuted
    <2>1. NextProposal /\ Head(plan) \in Actions
      BY <1>12, TypedNextProposal DEF ActionExecuted
    <2>2. /\ pc = "acting" /\ pc' = "acting" /\ UNCHANGED <<memory, request, update>>
          /\ executed' = Append(executed, Head(plan)) /\ done' = done \cup {Head(plan)}
      BY <1>12, <2>1 DEF ActionExecuted, NextProposal, dataVars
    <2>3. ToSet(executed') = ToSet(executed) \cup {Head(plan)}
      BY <2>2, AppendGrows DEF Typed
    <2> QED
      BY <2>2, <2>3 DEF Honest
  <1>13. CASE ActionFails
    BY <1>1, <1>13 DEF ActionFails, NextProposal, dataVars
  <1>14. CASE LateCommit
    BY <1>1, <1>14 DEF LateCommit, dataVars, callVars, history
  <1>15. CASE Remember
    <2>1. /\ Valid(memory') /\ UNCHANGED done /\ pc' = "flushing"
          /\ ToSet(memory'.actions) = ToSet(memory.actions) \cup ToSet(executed)
      BY <1>15, TypedUpdate DEF Remember, history
    <2>2. request'.memory = EmptyMemory /\ update' = EmptyMemory /\ executed' = <<>>
      BY <1>15, TypedCallEnds DEF Remember
    <2> QED
      BY <2>1, <2>2, EmptyIsValid DEF Honest
  <1>16. CASE Flush
    BY <1>1, <1>16 DEF Flush, dataVars, callVars, history
  <1>17. CASE Finish
    <2>1. /\ request'.memory = memory /\ pc = "waiting" /\ pc' = "reporting"
          /\ UNCHANGED <<memory, update, executed, done>>
      BY <1>17 DEF Finish, NoRequest, history
    <2> QED
      BY <2>1 DEF Honest
  <1>18. CASE ReportByRules \/ ReportByModel \/ ReportFallback
    BY <1>9, <1>18 DEF ReportByRules, ReportByModel, ReportFallback, Report, dataVars, history
  <1>19. CASE UNCHANGED vars
    BY <1>1, <1>19 DEF vars, dataVars, callVars, history
  <1> QED
    BY <1>3, <1>4, <1>5, <1>6, <1>7, <1>8, <1>10, <1>11, <1>12, <1>13, <1>14, <1>15, <1>16,
       <1>17, <1>18, <1>19 DEF Next, Finished

-----------------------------------------------------------------------------
(* The report at the start.                                                *)
LEMMA ReportedInit ==
  ASSUME Init PROVE Reported
  BY EmptyIsValid DEF Init, Reported

(* A note names no action.                                                 *)
LEMMA ReportedNote ==
  ASSUME Typed, Reported, NEW n \in Nat, Note(n), done \subseteq done'
  PROVE  ToSet(timeline') \cap Actions \subseteq done'
  BY NoteKeeps DEF Typed, Reported

(* The report of the rules names what was executed, once: memory has all   *)
(* of it, and recent activity nothing else.                                *)
LEMMA RulesReport ==
  ASSUME Typed, Honest, Reported, pc = "reporting"
  PROVE  LET names == RulesFinalize(request) IN
         names \in Seq(Actions) /\ ToSet(names) = done /\ NoRepeats(names)
  <1> DEFINE activity == Newest(request.activity, FinalActivityLimit)
             found == ExecutedActionNames(activity)
             known == Distinct(request.memory.actions)
             names == Distinct(known \o found)
  <1>1. names = RulesFinalize(request)
    BY DEF RulesFinalize, MemoryFromData
  <1>2. known \in Seq(Actions) /\ ToSet(known) = done
    <2>1. request.memory = memory /\ ToSet(memory.actions) = done
      BY EmptyIsValid DEF Honest, Reported
    <2>2. request.memory.actions \in Seq(Actions)
      BY DEF Typed, Requests, Memory
    <2> QED
      BY <2>1, <2>2, DistinctKeeps
  <1>3. activity \in Seq(Actions \cup {"note"}) /\ ToSet(activity) \cap Actions \subseteq done
    <2>1. request.activity \in Seq(Actions \cup {"note"}) /\ FinalActivityLimit \in Nat
      BY ProvidersAssumption DEF Typed, Requests
    <2>2. /\ activity \in Seq(Actions \cup {"note"})
          /\ ToSet(activity) \subseteq ToSet(request.activity)
      BY <2>1, NewestKeeps, NewestAmong
    <2> HIDE DEF activity
    <2> QED
      BY <2>2 DEF Reported
  <1> HIDE DEF activity, known
  <1>4. found \in Seq(Actions) /\ ToSet(found) \subseteq done
    <2>1. /\ found \in Seq(Actions \cup {"note"})
          /\ ToSet(found) = ToSet(activity) \cap Actions
      BY <1>3, OnceKeeps DEF ExecutedActionNames
    <2> HIDE DEF found
    <2> QED
      BY <1>3, <2>1, SeqOfToSet
  <1> HIDE DEF found
  <1>5. known \o found \in Seq(Actions) /\ ToSet(known \o found) = done
    <2>1. /\ known \o found \in Seq(Actions)
          /\ ToSet(known \o found) = ToSet(known) \cup ToSet(found)
      BY <1>2, <1>4, ConcatKeeps
    <2> QED
      BY <1>2, <1>4, <2>1
  <1>6. names \in Seq(Actions) /\ ToSet(names) = done /\ NoRepeats(names)
    BY <1>5, DistinctKeeps
  <1> QED
    BY <1>1, <1>6

(* Every step keeps the timeline and the report honest.                    *)
LEMMA ReportedNext ==
  ASSUME Typed, Honest, Reported, [Next]_vars
  PROVE  Reported'
  <1>1. ASSUME pc \notin {"reporting", "closing", "closed"},
               pc' \notin {"reporting", "closing", "closed"}, UNCHANGED named,
               ToSet(timeline') \cap Actions \subseteq done'
        PROVE  Reported'
    BY <1>1 DEF Reported
  <1>2. CASE UNCHANGED <<pc, request, memory, timeline, named, done>>
    BY <1>2 DEF Reported
  <1>3. ASSUME NEW trigger, NEW type, NEW event, NEW first,
               BeginReview(trigger, type, event, first), pc = "waiting"
        PROVE  Reported'
    BY <1>1, <1>3, ReportedNote DEF BeginReview
  <1>4. ASSUME NEW text \in Texts, add_instruction(text) PROVE Reported'
    BY <1>1, <1>4, ReportedNote DEF add_instruction, Open, history
  <1>5. ASSUME NEW event \in Events, receive_event(event) PROVE Reported'
    BY <1>1, <1>5, ReportedNote DEF receive_event, Open, history
  <1>6. ASSUME NEW event \in Events, WakeSupervisor(event) PROVE Reported'
    BY <1>3, <1>6 DEF WakeSupervisor, TakeEvent
  <1>7. ASSUME NEW event \in Events, SuppressWake(event) PROVE Reported'
    BY <1>1, <1>7, ReportedNote DEF SuppressWake, TakeEvent
  <1>8. CASE Startup \/ ScheduledReview
    BY <1>3, <1>8 DEF Startup, ScheduledReview
  <1>9. ASSUME NEW actions, NEW recollection, Decided(actions, recollection) PROVE Reported'
    BY <1>1, <1>9, ReportedNote DEF Decided, history
  <1>10. CASE DecideByRules \/ DecideByModel
    BY <1>9, <1>10 DEF DecideByRules, DecideByModel
  <1>11. CASE ReviewFails
    BY <1>1, <1>11, ReportedNote DEF ReviewFails, history
  <1>12. CASE RefuseProposal
    BY <1>1, <1>12, ReportedNote DEF RefuseProposal, NextProposal
  <1>13. CASE ActionExecuted
    <2>1. NextProposal /\ Head(plan) \in Actions
      BY <1>13, TypedNextProposal DEF ActionExecuted
    <2>2. ToSet(timeline') \subseteq ToSet(timeline) \cup {Head(plan)}
      <3>1. /\ <<Head(plan)>> \in Seq(Actions \cup {"note"}) /\ ToSet(<<Head(plan)>>) = {Head(plan)}
            /\ timeline \in Seq(Actions \cup {"note"})
        BY <2>1, SingleKeeps DEF Typed
      <3>2. Append(timeline, Head(plan)) = timeline \o <<Head(plan)>>
        BY <3>1
      <3> QED
        BY <1>13, <3>1, <3>2, EntryKeeps DEF ActionExecuted
    <2>3. ToSet(timeline') \cap Actions \subseteq done'
      BY <1>13, <2>2 DEF ActionExecuted, Reported
    <2> QED
      BY <1>1, <1>13, <2>1, <2>3 DEF ActionExecuted, NextProposal
  <1>14. CASE ActionFails
    BY <1>1, <1>14, ReportedNote DEF ActionFails, NextProposal
  <1>15. CASE LateCommit
    BY <1>2, <1>15 DEF LateCommit, dataVars, callVars, history
  <1>16. CASE Remember
    BY <1>1, <1>16, ReportedNote DEF Remember, history
  <1>17. CASE Flush
    <2>1. ToSet(timeline') \cap Actions \subseteq done'
      BY <1>17, ReportedNote DEF Flush, history
    <2> QED
      BY <1>17, <2>1 DEF Flush, Reported, dataVars, callVars, history
  <1>18. CASE Finish
    <2>1. ToSet(timeline') \cap Actions \subseteq done'
      BY <1>18, ReportedNote DEF Finish, history
    <2>2. request'.memory = memory /\ request'.activity = timeline'
      BY <1>18 DEF Finish, NoRequest
    <2> QED
      BY <1>18, <2>1, <2>2 DEF Finish, Reported, history
  <1>19. ASSUME NEW names, Report(names),
                \/ names = <<"free text">>
                \/ names \in Seq(Actions) /\ ToSet(names) = done /\ NoRepeats(names)
         PROVE  Reported'
    BY <1>19 DEF Report, Reported, dataVars, history
  <1>20. CASE ReportByRules
    BY <1>19, <1>20, RulesReport DEF ReportByRules, Report
  <1>21. CASE ReportByModel
    BY <1>19, <1>21 DEF ReportByModel
  <1>22. CASE ReportFallback
    <2>1. pc = "reporting" /\ Report(memory.actions)
      BY <1>22 DEF ReportFallback, DeterministicFinalOutput, Report
    <2>2. /\ memory.actions \in Seq(Actions) /\ NoRepeats(memory.actions)
          /\ ToSet(memory.actions) = done
      BY <2>1, EmptyIsValid DEF Honest, Valid
    <2> QED
      BY <1>19, <2>1, <2>2
  <1>23. CASE UNCHANGED vars
    BY <1>2, <1>23 DEF vars, dataVars, callVars, history
  <1> QED
    BY <1>4, <1>5, <1>6, <1>7, <1>8, <1>10, <1>11, <1>12, <1>13, <1>14, <1>15, <1>16, <1>17,
       <1>18, <1>20, <1>21, <1>22, <1>23 DEF Next, Finished

(* The three parts together are an invariant.                              *)
LEMMA ReviewInductive ==
  Spec => [](Typed /\ Honest /\ Reported)
  <1>1. Init => Typed /\ Honest /\ Reported
    BY TypedInit, HonestInit, ReportedInit
  <1>2. Typed /\ Honest /\ Reported /\ [Next]_vars => (Typed /\ Honest /\ Reported)'
    BY TypedNext, HonestNext, ReportedNext
  <1> QED
    BY <1>1, <1>2, PTL DEF Spec

(* The lengths of what the Activity is asked are lengths.                  *)
LEMMA AskTyped ==
  ASSUME Typed
  PROVE  IsAsk(Ask, BuiltFor(request).activity, BuiltFor(request).instructions)
  <1>1. config.frame \in Nat /\ BaseChars \in Nat /\ InitialChars \in Nat
    BY ReviewAssumption DEF Typed
  <1>2. /\ request.memory.actions \in Seq(Actions)
        /\ request.memory.constraints \in Seq(Texts \cup Range(Cut))
        /\ request.instructions \in Seq(Texts) /\ request.activity \in Seq(Actions \cup {"note"})
    BY DEF Typed, Requests, Memory
  <1> QED
    BY <1>1, <1>2, AskIsAsk DEF Ask

(* Every state of supervision is of its types, a request has lengths for   *)
(* its context, and no row is dated later than now.                        *)
THEOREM ReviewTypes == Spec => []ReviewTypeOK
  <1>1. Typed => ReviewTypeOK
    <2> SUFFICES ASSUME Typed PROVE ReviewTypeOK
      OBVIOUS
    <2>1. \A row \in rows \cup late \cup ToSet(queue) : row.kind \in RowKinds /\ row.at <= now
      <3>1. ToSet(queue) \subseteq RowType
        BY ToSetOfSeq DEF Typed
      <3> QED
        BY <3>1 DEF Typed, RowType
    <2>2. request.memory \in Memory
      BY DEF Typed, Requests
    <2> QED
      BY <2>1, <2>2, AskTyped DEF Typed, ReviewTypeOK
  <1> QED
    BY <1>1, ReviewInductive, PTL

(* For every number of events, instructions, reviews and attempts: memory  *)
(* names exactly the actions that were reported executed                   *)
(* (_validated_memory_update), whatever a model claims, and passes the     *)
(* validation of the next review unchanged (SupervisorMemorySummary).      *)
THEOREM MemoryIsHonest == Spec => []MemoryHonest
  <1>1. Typed /\ Honest => MemoryHonest
    <2> SUFFICES ASSUME Typed, Honest PROVE MemoryHonest
      OBVIOUS
    <2>1. ToSet(memory.actions) \cup (IF pc = "acting" THEN ToSet(executed) ELSE {}) = done
      BY EmptyIsValid DEF Honest
    <2>2. /\ Len(memory.constraints) <= MemoryItems
          /\ Distinct(memory.constraints) = memory.constraints
      BY DistinctIsNoRepeats DEF Honest, Valid, Kept
    <2>3. Len(memory.actions) <= MemoryItems /\ Distinct(memory.actions) = memory.actions
      <3>1. memory.actions \in Seq(Actions) /\ NoRepeats(memory.actions)
        BY DEF Honest, Valid
      <3>2. Len(memory.actions) <= Cardinality(Actions)
        BY <3>1, NoRepeatsBounds, ProvidersAssumption
      <3>3. /\ Len(memory.actions) \in Nat /\ Cardinality(Actions) \in Nat /\ MemoryItems \in Nat
            /\ Cardinality(Actions) <= MemoryItems
        BY <3>1, FS_CardinalityType, ProvidersAssumption
      <3> QED
        BY <3>1, <3>2, <3>3, DistinctIsNoRepeats
    <2>4. ToSet(memory.constraints) \cap DOMAIN Cut = {}
      BY ToSetOfSeq DEF Honest, Valid, Kept, Remembered
    <2> QED
      BY <2>1, <2>2, <2>3, <2>4 DEF MemoryHonest
  <1> QED
    BY <1>1, ReviewInductive, PTL

(* A report by the rules or the fallback names each executed action once   *)
(* and nothing else, also when the action has left the timeline (finalize, *)
(* _deterministic_final_output).                                           *)
THEOREM ReportIsHonest == Spec => []ReportNamesExecuted
  <1>1. Reported => ReportNamesExecuted
    BY DistinctIsNoRepeats DEF Reported, ReportNamesExecuted
  <1> QED
    BY <1>1, ReviewInductive, PTL

(* Every context that a model is asked with in a run, for whatever lengths *)
(* of texts and budget, holds the newest instruction, dropped nothing that *)
(* had room until the last resort, and is refused only when that           *)
(* instruction does not fit; in a review it accounts for all instructions  *)
(* until the last resort (_fit_supervisor_context,                         *)
(* _fit_final_output_context).                                             *)
THEOREM ContextsAreSound == Spec => []ContextSound
  <1>1. Typed => ContextSound
    <2> SUFFICES ASSUME Typed
                 PROVE  /\ PrunedWell(Ask, BuiltFor(request), Context)
                        /\ pc # "reporting" => Accounted(Ask, BuiltFor(request), Context,
                                                         Len(request.instructions))
      BY DEF ContextSound
    <2>1. Len(request.activity) \in Nat /\ Len(request.instructions) \in Nat
      BY DEF Typed, Requests
    <2>2. IsAsk(Ask, Built(Len(request.activity), Len(request.instructions)).activity,
                     Built(Len(request.activity), Len(request.instructions)).instructions)
      BY AskTyped DEF BuiltFor
    <2>3. CASE pc = "reporting"
      <3>1. Context = FitFinalOutputContext(Ask,
                        Built(Len(request.activity), Len(request.instructions)))
        BY <2>3 DEF Context, BuildFinalOutputContext, BuiltFor
      <3> QED
        BY <2>1, <2>2, <2>3, <3>1, ReportContextSound DEF BuiltFor
    <2>4. CASE pc # "reporting"
      <3>1. Context = FitSupervisorContext(Ask,
                        Built(Len(request.activity), Len(request.instructions)))
        BY <2>4 DEF Context, BuildSupervisorContext, BuiltFor
      <3> QED
        BY <2>1, <2>2, <3>1, ReviewContextSound DEF BuiltFor
    <2> QED
      BY <2>3, <2>4
  <1> QED
    BY <1>1, ReviewInductive, PTL

-----------------------------------------------------------------------------
(* The rows and the analytics.                                             *)

(* The rows of the run, stored or on their way.                            *)
Entries == rows \cup ToSet(queue)

(* The rows from which a review, or an action of one, at a time t is       *)
(* explained: the wake request of its cause is the closest one before, and *)
(* the event was received before that.                                     *)
Explained(entries, behind, trigger, t) ==
  IF behind = "none" THEN trigger \in {"workflow_start", "scheduled_wake"}
  ELSE /\ behind \in Events /\ trigger = TypeOf[behind]
       /\ \E w \in Wakes(entries), r \in Received(entries) :
            /\ w.event = behind /\ w.type = trigger /\ w.at <= t
            /\ r.event = behind /\ r.at <= w.at
            /\ \A v \in Wakes(entries) : v.at <= t => v.at <= w.at

(* An event waits, is taken, or was dropped at the end; once each.         *)
EventsOnce ==
  /\ NoRepeats(inbox) /\ ToSet(inbox) \cap applied = {}
  /\ \A r, s \in Received(Entries) : r.event = s.event => r = s
  /\ Open => \A r \in Received(Entries) : r.event \in applied \cup ToSet(inbox)
  /\ \A e \in ToSet(inbox) : \E r \in Received(Entries) : r.event = e
  /\ \A row \in Suppressed(Entries) \cup Wakes(Entries) : row.event \in applied

(* Time passes between two reviews, and after every action.                *)
TimesApart ==
  /\ pc # "asking" => \A row \in Invocations(Entries) \cup Wakes(Entries) : row.at < now
  /\ \A v, w \in Wakes(Entries) : v.at = w.at => v = w
  /\ Executed(ToSet(queue)) = {} /\ late \subseteq Executed(late)
  /\ \A a \in Executed(rows \cup late) : a.at < now

CausesKnown ==
  /\ \A a \in Executed(rows \cup late) : Explained(Entries, a.cause, a.trigger, a.at)
  /\ pc \in {"asking", "acting"} => Explained(Entries, cause, request.trigger, now)

Counted ==
  /\ IsFiniteSet(rows) /\ IsFiniteSet(applied)
  /\ Cardinality(Invocations(Entries)) = reviews
  /\ Cardinality(Suppressed(Entries) \cup Wakes(Entries)) = Cardinality(applied)
  /\ Cardinality(Suppressed(Entries))
       = Cardinality({e \in applied : ClassifyEvent(TypeOf[e]) = "suppress"})
  /\ Cardinality(Executed(rows)) >= Cardinality(done)

(* What the analytics rest on.                                             *)
Consistent == EventsOnce /\ TimesApart /\ CausesKnown /\ Counted

(* The rows are rows, and none is of the future.                           *)
LEMMA EntriesTyped ==
  ASSUME Typed
  PROVE  /\ Entries \subseteq RowType /\ \A row \in Entries : row.at \in Nat /\ row.at <= now
         /\ now \in Nat
  <1>1. ToSet(queue) \subseteq RowType
    BY ToSetOfSeq DEF Typed
  <1> QED
    BY <1>1 DEF Typed, Entries, RowType

(* The rows are finitely many.                                             *)
LEMMA EntriesFinite ==
  ASSUME Typed, Counted
  PROVE  IsFiniteSet(Entries)
  <1>1. IsFiniteSet(ToSet(queue)) /\ IsFiniteSet(rows)
    BY NotMoreThanPlaces DEF Typed, Counted
  <1> QED
    BY <1>1, FS_Union DEF Entries

(* An entry of a larger set of rows does not explain what was explained,   *)
(* when it is younger.                                                     *)
LEMMA ExplainedStays ==
  ASSUME NEW entries, NEW more, entries \subseteq more, NEW behind, NEW trigger, NEW t,
         \A v \in Wakes(more) : v.at <= t => v \in entries,
         Explained(entries, behind, trigger, t)
  PROVE  Explained(more, behind, trigger, t)
  <1>1. CASE behind = "none"
    BY <1>1 DEF Explained
  <1>2. CASE behind # "none"
    <2>1. PICK w \in Wakes(entries), r \in Received(entries) :
            /\ w.event = behind /\ w.type = trigger /\ w.at <= t
            /\ r.event = behind /\ r.at <= w.at
            /\ \A v \in Wakes(entries) : v.at <= t => v.at <= w.at
      BY <1>2 DEF Explained
    <2>2. w \in Wakes(more) /\ r \in Received(more)
      BY DEF Wakes, Received
    <2>3. \A v \in Wakes(more) : v.at <= t => v \in Wakes(entries)
      BY DEF Wakes
    <2> QED
      BY <1>2, <2>1, <2>2, <2>3 DEF Explained
  <1> QED
    BY <1>1, <1>2

(* Time alone does not change the explanation.                             *)
LEMMA ExplainedLater ==
  ASSUME NEW entries, NEW behind, NEW trigger, NEW t \in Nat, NEW u \in Nat, t <= u,
         \A v \in entries : v.at \in Nat /\ v.at <= t,
         Explained(entries, behind, trigger, t)
  PROVE  Explained(entries, behind, trigger, u)
  <1>1. CASE behind = "none"
    BY <1>1 DEF Explained
  <1>2. CASE behind # "none"
    <2>1. PICK w \in Wakes(entries), r \in Received(entries) :
            /\ w.event = behind /\ w.type = trigger /\ w.at <= t
            /\ r.event = behind /\ r.at <= w.at
            /\ \A v \in Wakes(entries) : v.at <= t => v.at <= w.at
      BY <1>2 DEF Explained
    <2>2. \A v \in Wakes(entries) : v.at \in Nat /\ v.at <= t
      BY DEF Wakes
    <2> QED
      BY <1>2, <2>1, <2>2 DEF Explained
  <1> QED
    BY <1>1, <1>2

(* A step that adds no row.                                                *)
QuietStep ==
  /\ \/ UNCHANGED <<rows, queue>>
     \/ rows' = rows \cup ToSet(queue) /\ queue' = <<>>
  /\ UNCHANGED <<late, applied, reviews, done>>
  /\ inbox' = inbox \/ (inbox' = <<>> /\ ~Open')
  /\ now' \in {now, now + 1}
  /\ Open' => Open
  /\ pc' = "asking" => pc = "asking"
  /\ pc = "asking" /\ pc' # "asking" => now' = now + 1
  /\ pc' \in {"asking", "acting"} =>
       pc \in {"asking", "acting"} /\ UNCHANGED <<cause, request>>

(* Rows stay consistent over a step that records none.                     *)
LEMMA QuietKeeps ==
  ASSUME Typed, Consistent, QuietStep
  PROVE  Consistent'
  <1>1. Entries' = Entries
    BY DEF QuietStep, Entries, ToSet
  <1>2. /\ Entries \subseteq RowType /\ \A row \in Entries : row.at \in Nat /\ row.at <= now
        /\ now \in Nat /\ now' \in Nat /\ now <= now'
    BY EntriesTyped DEF QuietStep
  <1>3. ToSet(<<>>) = {} /\ NoRepeats(<<>>)
    BY DEF ToSet, NoRepeats
  <1>4. Executed(rows') = Executed(rows) /\ Executed(ToSet(queue')) = {}
    BY <1>3 DEF QuietStep, Consistent, TimesApart, Executed
  <1>5. EventsOnce'
    <2>1. NoRepeats(inbox') /\ ToSet(inbox') \subseteq ToSet(inbox)
      BY <1>3 DEF Consistent, EventsOnce, QuietStep
    <2>2. Open' => inbox' = inbox
      BY DEF QuietStep
    <2> QED
      BY <1>1, <2>1, <2>2 DEF Consistent, EventsOnce, QuietStep
  <1>6. TimesApart'
    <2>1. ASSUME pc' # "asking", NEW row \in Invocations(Entries) \cup Wakes(Entries)
          PROVE  row.at < now'
      <3>1. row.at \in Nat /\ row.at <= now
        BY <1>2 DEF Invocations, Wakes
      <3>2. CASE pc = "asking"
        BY <1>2, <2>1, <3>1, <3>2 DEF QuietStep
      <3>3. CASE pc # "asking"
        BY <1>2, <3>1, <3>3 DEF Consistent, TimesApart
      <3> QED
        BY <3>2, <3>3
    <2>2. /\ Executed(rows' \cup late') = Executed(rows \cup late)
          /\ Executed(late') = Executed(late) /\ late' = late
      BY <1>4 DEF QuietStep, Executed
    <2>3. \A a \in Executed(rows \cup late) : a.at < now'
      <3>1. \A a \in Executed(rows \cup late) : a.at \in Nat /\ a.at < now
        BY DEF Consistent, TimesApart, Executed, Typed, RowType
      <3> QED
        BY <1>2, <3>1
    <2> QED
      BY <1>1, <1>4, <2>1, <2>2, <2>3 DEF Consistent, TimesApart
  <1>7. CausesKnown'
    <2>1. \A a \in Executed(rows' \cup late') : Explained(Entries', a.cause, a.trigger, a.at)
      BY <1>1, <1>4 DEF Consistent, CausesKnown, QuietStep, Executed
    <2>2. pc' \in {"asking", "acting"} => Explained(Entries', cause', request'.trigger, now')
      BY <1>1, <1>2, ExplainedLater DEF Consistent, CausesKnown, QuietStep
    <2> QED
      BY <2>1, <2>2 DEF CausesKnown
  <1>8. Counted'
    <2>1. IsFiniteSet(rows')
      <3>1. IsFiniteSet(rows) /\ IsFiniteSet(Entries)
        BY EntriesFinite DEF Consistent, Counted
      <3> QED
        BY <3>1 DEF QuietStep, Entries
    <2> QED
      BY <1>1, <1>4, <2>1 DEF Consistent, Counted, QuietStep
  <1> QED
    BY <1>5, <1>6, <1>7, <1>8 DEF Consistent

(* Counting one more.                                                      *)
LEMMA OneMore ==
  ASSUME NEW S, IsFiniteSet(S), NEW x, x \notin S
  PROVE  Cardinality(S \cup {x}) = Cardinality(S) + 1 /\ IsFiniteSet(S \cup {x})
  BY FS_AddElement

(* The parts of the rows, by their kinds.                                  *)
LEMMA PartsFinite ==
  ASSUME NEW S, IsFiniteSet(S)
  PROVE  /\ IsFiniteSet(Invocations(S)) /\ IsFiniteSet(Suppressed(S)) /\ IsFiniteSet(Wakes(S))
         /\ IsFiniteSet(Suppressed(S) \cup Wakes(S)) /\ IsFiniteSet(Executed(S))
  <1>1. /\ Invocations(S) \subseteq S /\ Suppressed(S) \subseteq S /\ Wakes(S) \subseteq S
        /\ Executed(S) \subseteq S
    BY DEF Invocations, Suppressed, Wakes, Executed
  <1>2. Suppressed(S) \cup Wakes(S) \subseteq S
    BY <1>1
  <1> QED
    BY <1>1, <1>2, FS_Subset

(* A row more is a row of its kind more.                                   *)
LEMMA RowAdded ==
  ASSUME NEW S, NEW row
  PROVE  /\ row.kind = "order_event_received" => Received(S \cup {row}) = Received(S) \cup {row}
         /\ row.kind # "order_event_received" => Received(S \cup {row}) = Received(S)
         /\ row.kind = "supervisor_invocation" =>
              Invocations(S \cup {row}) = Invocations(S) \cup {row}
         /\ row.kind # "supervisor_invocation" => Invocations(S \cup {row}) = Invocations(S)
         /\ row.kind = "supervisor_wake_suppressed" =>
              Suppressed(S \cup {row}) = Suppressed(S) \cup {row}
         /\ row.kind # "supervisor_wake_suppressed" => Suppressed(S \cup {row}) = Suppressed(S)
         /\ row.kind = "supervisor_wake_requested" => Wakes(S \cup {row}) = Wakes(S) \cup {row}
         /\ row.kind # "supervisor_wake_requested" => Wakes(S \cup {row}) = Wakes(S)
         /\ row.kind = "business_action_executed" => Executed(S \cup {row}) = Executed(S) \cup {row}
         /\ row.kind # "business_action_executed" => Executed(S \cup {row}) = Executed(S)
  BY DEF Received, Invocations, Suppressed, Wakes, Executed

(* The events that wait behind the first one.                              *)
LEMMA HeadAndTail ==
  ASSUME NEW V, NEW s \in Seq(V), s # <<>>
  PROVE  /\ Tail(s) \in Seq(V) /\ ToSet(s) = {Head(s)} \cup ToSet(Tail(s))
         /\ NoRepeats(s) => NoRepeats(Tail(s)) /\ Head(s) \notin ToSet(Tail(s))
  <1> DEFINE n == Len(s)
             t == Tail(s)
  <1>1. n \in Nat \ {0} /\ t \in Seq(V) /\ Len(t) = n - 1 /\ Head(s) = s[1]
    OBVIOUS
  <1>2. DOMAIN s = 1..n /\ DOMAIN t = 1..(n - 1) /\ \A i \in 1..(n - 1) : t[i] = s[i + 1]
    BY <1>1
  <1>3. Len(s) = n
    OBVIOUS
  <1> HIDE DEF t, n
  <1>5. 1 \in 1..n /\ \A i \in 1..(n - 1) : i + 1 \in 1..n /\ i + 1 # 1
    BY <1>1
  <1>6. ToSet(s) \subseteq {Head(s)} \cup ToSet(t)
    <2> SUFFICES ASSUME NEW i \in 1..n PROVE s[i] \in {Head(s)} \cup ToSet(t)
      BY <1>2 DEF ToSet
    <2>1. CASE i = 1
      BY <1>1, <2>1
    <2>2. CASE i # 1
      <3>1. i - 1 \in 1..(n - 1) /\ t[i - 1] = s[i]
        <4>1. i - 1 \in 1..(n - 1) /\ (i - 1) + 1 = i
          BY <1>1, <2>2
        <4> QED
          BY <1>2, <4>1
      <3> QED
        BY <1>2, <3>1 DEF ToSet
    <2> QED
      BY <2>1, <2>2
  <1>7. {Head(s)} \cup ToSet(t) \subseteq ToSet(s)
    BY <1>1, <1>2, <1>5 DEF ToSet
  <1>8. NoRepeats(s) => NoRepeats(t)
    <2> SUFFICES ASSUME NoRepeats(s), NEW i \in 1..(n - 1), NEW j \in 1..(n - 1), t[i] = t[j]
                 PROVE  i = j
      BY <1>1 DEF NoRepeats
    <2>1. i + 1 = j + 1
      BY <1>2, <1>3, <1>5 DEF NoRepeats
    <2> QED
      BY <1>1, <2>1
  <1>9. NoRepeats(s) => Head(s) \notin ToSet(t)
    BY <1>1, <1>2, <1>3, <1>5 DEF NoRepeats, ToSet
  <1> QED
    BY <1>1, <1>6, <1>7, <1>8, <1>9 DEF t

(* Rows that are queued.                                                   *)
LEMMA EntriesGrow ==
  ASSUME Typed, NEW new \in Seq(RowType), Queue(new), UNCHANGED <<rows, late>>
  PROVE  Entries' = Entries \cup ToSet(new) /\ ToSet(queue') = ToSet(queue) \cup ToSet(new)
  <1>1. ToSet(queue') = ToSet(queue) \cup ToSet(new)
    BY ConcatKeeps DEF Typed, Queue
  <1> QED
    BY <1>1 DEF Entries

-----------------------------------------------------------------------------
(* An event that is received: it waits, and no review was explained by it. *)
LEMMA ReceiveKeeps ==
  ASSUME Typed, Consistent, NEW event \in Events, receive_event(event)
  PROVE  Consistent'
  <1> DEFINE row == EventRow("order_event_received", event)
  <1>1. /\ row.kind = "order_event_received" /\ row.event = event /\ row.at = now'
    BY DEF EventRow, Row
  <1>2. /\ now' = now + 1 /\ Queue(<<row>>) /\ UNCHANGED <<rows, late, pc, applied, reviews, done>>
        /\ event \notin applied \cup ToSet(inbox) /\ inbox' = Append(inbox, event) /\ Open
        /\ UNCHANGED <<cause, request>>
    BY DEF receive_event, history, callVars
  <1>3. /\ Entries \subseteq RowType /\ \A r \in Entries : r.at \in Nat /\ r.at <= now
        /\ now \in Nat /\ now' \in Nat
    BY <1>2, EntriesTyped
  <1>4. row \in RowType
    BY <1>3, EventRowIsRow DEF RowKinds
  <1> HIDE DEF row
  <1>5. Entries' = Entries \cup {row} /\ ToSet(queue') = ToSet(queue) \cup {row}
    <2> DEFINE new == <<row>>
    <2>1. new \in Seq(RowType) /\ ToSet(new) = {row}
      BY <1>4, SingleKeeps
    <2> HIDE DEF new
    <2> QED
      BY <1>2, <2>1, EntriesGrow DEF new
  <1>6. /\ Received(Entries') = Received(Entries) \cup {row}
        /\ Invocations(Entries') = Invocations(Entries) /\ Wakes(Entries') = Wakes(Entries)
        /\ Suppressed(Entries') = Suppressed(Entries)
        /\ Executed(ToSet(queue')) = Executed(ToSet(queue))
    <2>1. /\ Received(Entries \cup {row}) = Received(Entries) \cup {row}
          /\ Invocations(Entries \cup {row}) = Invocations(Entries)
          /\ Wakes(Entries \cup {row}) = Wakes(Entries)
          /\ Suppressed(Entries \cup {row}) = Suppressed(Entries)
      BY <1>1, RowAdded
    <2>2. Executed(ToSet(queue) \cup {row}) = Executed(ToSet(queue))
      BY <1>1, RowAdded
    <2> QED
      BY <1>5, <2>1, <2>2
  <1>7. EventsOnce'
    <2>1. /\ NoRepeats(inbox') /\ ToSet(inbox') = ToSet(inbox) \cup {event}
      BY <1>2, AppendGrows, ContainsIsMember DEF Typed, Consistent, EventsOnce
    <2>2. \A r \in Received(Entries) : r.event # event
      BY <1>2 DEF Consistent, EventsOnce
    <2>3. \A r, s \in Received(Entries') : r.event = s.event => r = s
      BY <1>1, <1>6, <2>2 DEF Consistent, EventsOnce
    <2>4. \A r \in Received(Entries') : r.event \in applied' \cup ToSet(inbox')
      BY <1>1, <1>2, <1>6, <2>1 DEF Consistent, EventsOnce
    <2>5. \A e \in ToSet(inbox') : \E r \in Received(Entries') : r.event = e
      BY <1>1, <1>6, <2>1 DEF Consistent, EventsOnce
    <2> QED
      BY <1>2, <1>6, <2>1, <2>3, <2>4, <2>5 DEF Consistent, EventsOnce
  <1>8. TimesApart'
    <2>1. \A r \in Invocations(Entries) \cup Wakes(Entries) : r.at < now'
      BY <1>2, <1>3 DEF Invocations, Wakes
    <2>2. \A a \in Executed(rows \cup late) : a.at < now'
      <3>1. \A a \in Executed(rows \cup late) : a.at \in Nat /\ a.at < now
        BY DEF Consistent, TimesApart, Executed, Typed, RowType
      <3> QED
        BY <1>2, <1>3, <3>1
    <2> QED
      BY <1>2, <1>6, <2>1, <2>2 DEF Consistent, TimesApart
  <1>9. ASSUME NEW behind, NEW trigger, NEW t, Explained(Entries, behind, trigger, t)
        PROVE  Explained(Entries', behind, trigger, t)
    <2>1. \A v \in Wakes(Entries') : v.at <= t => v \in Entries
      BY <1>6 DEF Wakes
    <2> QED
      BY <1>5, <1>9, <2>1, ExplainedStays
  <1>10. CausesKnown'
    <2>1. \A a \in Executed(rows' \cup late') : Explained(Entries', a.cause, a.trigger, a.at)
      BY <1>2, <1>9 DEF Consistent, CausesKnown
    <2>2. ASSUME pc' \in {"asking", "acting"}
          PROVE  Explained(Entries', cause', request'.trigger, now')
      <3>1. Explained(Entries, cause, request.trigger, now)
        BY <1>2, <2>2 DEF Consistent, CausesKnown
      <3>2. Explained(Entries, cause, request.trigger, now')
        BY <1>2, <1>3, <3>1, ExplainedLater
      <3> QED
        BY <1>2, <1>9, <3>2
    <2> QED
      BY <2>1, <2>2 DEF CausesKnown
  <1>11. Counted'
    BY <1>2, <1>6 DEF Consistent, Counted
  <1> QED
    BY <1>7, <1>8, <1>10, <1>11 DEF Consistent

(* An event that wakes nobody is one decision and one suppressed.          *)
LEMMA SuppressKeeps ==
  ASSUME Typed, Consistent, NEW event \in Events, SuppressWake(event)
  PROVE  Consistent'
  <1> DEFINE row == EventRow("supervisor_wake_suppressed", event)
  <1>1. /\ row.kind = "supervisor_wake_suppressed" /\ row.event = event /\ row.at = now'
    BY DEF EventRow, Row
  <1>2. /\ now' = now /\ Queue(<<row>>) /\ UNCHANGED <<rows, late, pc, reviews, done>>
        /\ pc = "waiting" /\ inbox # <<>> /\ event = Head(inbox)
        /\ inbox' = Tail(inbox) /\ applied' = applied \cup {event}
        /\ UNCHANGED <<cause, request>> /\ ClassifyEvent(TypeOf[event]) = "suppress"
    BY DEF SuppressWake, TakeEvent, callVars
  <1>3. /\ Entries \subseteq RowType /\ \A r \in Entries : r.at \in Nat /\ r.at <= now
        /\ now \in Nat /\ now' \in Nat
    BY <1>2, EntriesTyped
  <1>4. row \in RowType
    BY <1>3, EventRowIsRow DEF RowKinds
  <1> HIDE DEF row
  <1>5. Entries' = Entries \cup {row} /\ ToSet(queue') = ToSet(queue) \cup {row}
    <2> DEFINE new == <<row>>
    <2>1. new \in Seq(RowType) /\ ToSet(new) = {row}
      BY <1>4, SingleKeeps
    <2> HIDE DEF new
    <2> QED
      BY <1>2, <2>1, EntriesGrow DEF new
  <1>6. /\ Received(Entries') = Received(Entries)
        /\ Invocations(Entries') = Invocations(Entries) /\ Wakes(Entries') = Wakes(Entries)
        /\ Suppressed(Entries') = Suppressed(Entries) \cup {row}
        /\ Executed(ToSet(queue')) = Executed(ToSet(queue))
    <2>1. /\ Received(Entries \cup {row}) = Received(Entries)
          /\ Invocations(Entries \cup {row}) = Invocations(Entries)
          /\ Wakes(Entries \cup {row}) = Wakes(Entries)
          /\ Suppressed(Entries \cup {row}) = Suppressed(Entries) \cup {row}
      BY <1>1, RowAdded
    <2>2. Executed(ToSet(queue) \cup {row}) = Executed(ToSet(queue))
      BY <1>1, RowAdded
    <2> QED
      BY <1>5, <2>1, <2>2
  <1>7. /\ NoRepeats(inbox') /\ ToSet(inbox) = {event} \cup ToSet(inbox')
        /\ event \notin ToSet(inbox') /\ event \notin applied
    BY <1>2, HeadAndTail DEF Typed, Consistent, EventsOnce
  <1>8. EventsOnce'
    BY <1>1, <1>2, <1>6, <1>7 DEF Consistent, EventsOnce, Open
  <1>9. TimesApart'
    BY <1>2, <1>6 DEF Consistent, TimesApart
  <1>10. CausesKnown'
    <2>1. ASSUME NEW a \in Executed(rows \cup late)
          PROVE  Explained(Entries', a.cause, a.trigger, a.at)
      <3>1. Explained(Entries, a.cause, a.trigger, a.at)
        BY DEF Consistent, CausesKnown
      <3>2. \A v \in Wakes(Entries') : v.at <= a.at => v \in Entries
        BY <1>6 DEF Wakes
      <3> QED
        BY <1>5, <3>1, <3>2, ExplainedStays
    <2> QED
      BY <1>2, <2>1 DEF CausesKnown
  <1>11. Counted'
    <2>1. IsFiniteSet(Suppressed(Entries)) /\ IsFiniteSet(Suppressed(Entries) \cup Wakes(Entries))
      BY EntriesFinite, PartsFinite DEF Consistent
    <2>2. row \notin Suppressed(Entries) \cup Wakes(Entries)
      BY <1>1, <1>7 DEF Consistent, EventsOnce
    <2> DEFINE decided == Suppressed(Entries) \cup Wakes(Entries)
               suppressed == {e \in applied : ClassifyEvent(TypeOf[e]) = "suppress"}
    <2>3. Suppressed(Entries') \cup Wakes(Entries') = decided \cup {row}
      BY <1>6
    <2>4. {e \in applied' : ClassifyEvent(TypeOf[e]) = "suppress"} = suppressed \cup {event}
      BY <1>2
    <2>5. IsFiniteSet(applied) /\ IsFiniteSet(suppressed) /\ event \notin suppressed
      <3>1. IsFiniteSet(applied) /\ suppressed \subseteq applied
        BY DEF Consistent, Counted
      <3> QED
        BY <1>7, <3>1, FS_Subset
    <2>6. /\ Cardinality(decided) = Cardinality(applied)
          /\ Cardinality(Suppressed(Entries)) = Cardinality(suppressed)
      BY DEF Consistent, Counted
    <2> HIDE DEF decided, suppressed
    <2>7. Cardinality(decided \cup {row}) = Cardinality(applied \cup {event})
      BY <1>7, <2>1, <2>2, <2>5, <2>6, OneMore DEF decided
    <2>8. Cardinality(Suppressed(Entries) \cup {row}) = Cardinality(suppressed \cup {event})
      BY <2>1, <2>2, <2>5, <2>6, OneMore
    <2>9. IsFiniteSet(applied')
      BY <1>2, <1>7, <2>5, OneMore
    <2> QED
      BY <1>2, <1>6, <2>3, <2>4, <2>7, <2>8, <2>9 DEF Consistent, Counted
  <1> QED
    BY <1>8, <1>9, <1>10, <1>11 DEF Consistent

(* The row of a review that begins.                                        *)
InvocationRow(type, trigger, event) == Row("supervisor_invocation", "none", type, trigger, event)

(* It is a row, dated now.                                                 *)
LEMMA InvocationRowIsRow ==
  ASSUME NEW trigger \in Triggers, NEW type \in Triggers, NEW event \in Events \cup {"none"},
         now' \in Nat
  PROVE  /\ InvocationRow(type, trigger, event) \in RowType
         /\ InvocationRow(type, trigger, event).kind = "supervisor_invocation"
         /\ InvocationRow(type, trigger, event).at = now'
  BY DEF InvocationRow, Row, RowType, RowKinds, Triggers, EventTypes

(* No review has begun at this moment.                                     *)
LEMMA InvocationIsNew ==
  ASSUME Typed, Consistent, pc = "waiting", now' \in {now, now + 1},
         NEW row, row.kind = "supervisor_invocation", row.at = now',
         NEW more, Invocations(more) = Invocations(Entries) \cup {row}
  PROVE  Cardinality(Invocations(more)) = reviews + 1
  <1>1. \A r \in Invocations(Entries) : r.at < now' /\ r.at \in Nat
    <2>1. now \in Nat /\ \A r \in Invocations(Entries) : r.at \in Nat /\ r.at < now
      BY EntriesTyped DEF Consistent, TimesApart, Invocations
    <2> QED
      BY <2>1
  <1>2. row \notin Invocations(Entries)
    BY <1>1, EntriesTyped
  <1>3. IsFiniteSet(Invocations(Entries))
    BY EntriesFinite, PartsFinite DEF Consistent
  <1> QED
    BY <1>2, <1>3, OneMore DEF Consistent, Counted

(* A review that no event caused.                                          *)
LEMMA UnpromptedKeeps ==
  ASSUME Typed, Consistent, Startup \/ ScheduledReview
  PROVE  Consistent'
  <1>1. PICK trigger \in {"workflow_start", "scheduled_wake"} :
          BeginReview(trigger, "none", "none", <<>>)
    BY DEF Startup, ScheduledReview
  <1> DEFINE row == InvocationRow("none", trigger, "none")
  <1>2. /\ pc = "waiting" /\ pc' = "asking" /\ now' \in {now, now + 1}
        /\ UNCHANGED <<inbox, applied, rows, late, done>> /\ reviews' = reviews + 1
        /\ Queue(<<>> \o <<row>>) /\ cause' = "none" /\ request'.trigger = trigger
    BY <1>1 DEF Startup, ScheduledReview, BeginReview, InvocationRow
  <1>3. /\ Entries \subseteq RowType /\ \A r \in Entries : r.at \in Nat /\ r.at <= now
        /\ now \in Nat /\ now' \in Nat /\ now <= now'
    BY <1>2, EntriesTyped
  <1>4. row \in RowType /\ row.kind = "supervisor_invocation" /\ row.at = now'
    BY <1>3, InvocationRowIsRow DEF Triggers, EventTypes
  <1> HIDE DEF row
  <1>5. Entries' = Entries \cup {row} /\ ToSet(queue') = ToSet(queue) \cup {row}
    <2> DEFINE new == <<row>>
    <2>1. new \in Seq(RowType) /\ ToSet(new) = {row}
      BY <1>4, SingleKeeps
    <2>2. <<>> \o new = new
      OBVIOUS
    <2> HIDE DEF new
    <2> QED
      BY <1>2, <2>1, <2>2, EntriesGrow DEF new
  <1>6. /\ Received(Entries') = Received(Entries)
        /\ Invocations(Entries') = Invocations(Entries) \cup {row}
        /\ Wakes(Entries') = Wakes(Entries)
        /\ Suppressed(Entries') = Suppressed(Entries)
        /\ Executed(ToSet(queue')) = Executed(ToSet(queue))
    <2>1. /\ Received(Entries \cup {row}) = Received(Entries)
          /\ Invocations(Entries \cup {row}) = Invocations(Entries) \cup {row}
          /\ Wakes(Entries \cup {row}) = Wakes(Entries)
          /\ Suppressed(Entries \cup {row}) = Suppressed(Entries)
      BY <1>4, RowAdded
    <2>2. Executed(ToSet(queue) \cup {row}) = Executed(ToSet(queue))
      BY <1>4, RowAdded
    <2> QED
      BY <1>5, <2>1, <2>2
  <1>7. EventsOnce'
    BY <1>2, <1>6 DEF Consistent, EventsOnce, Open
  <1>8. TimesApart'
    <2>1. \A a \in Executed(rows \cup late) : a.at < now'
      <3>1. \A a \in Executed(rows \cup late) : a.at \in Nat /\ a.at < now
        BY DEF Consistent, TimesApart, Executed, Typed, RowType
      <3> QED
        BY <1>3, <3>1
    <2> QED
      BY <1>2, <1>6, <2>1 DEF Consistent, TimesApart
  <1>9. CausesKnown'
    <2>1. ASSUME NEW a \in Executed(rows \cup late)
          PROVE  Explained(Entries', a.cause, a.trigger, a.at)
      <3>1. Explained(Entries, a.cause, a.trigger, a.at)
        BY DEF Consistent, CausesKnown
      <3>2. \A v \in Wakes(Entries') : v.at <= a.at => v \in Entries
        BY <1>6 DEF Wakes
      <3> QED
        BY <1>5, <3>1, <3>2, ExplainedStays
    <2>2. Explained(Entries', cause', request'.trigger, now')
      BY <1>2 DEF Explained
    <2> QED
      BY <1>2, <2>1, <2>2 DEF CausesKnown
  <1>10. Counted'
    <2>1. Cardinality(Invocations(Entries')) = reviews + 1
      BY <1>2, <1>4, <1>6, InvocationIsNew
    <2> QED
      BY <1>2, <1>6, <2>1 DEF Consistent, Counted
  <1> QED
    BY <1>7, <1>8, <1>9, <1>10 DEF Consistent

(* A review that an event caused.                                          *)
LEMMA WakeKeeps ==
  ASSUME Typed, Consistent, NEW event \in Events, WakeSupervisor(event)
  PROVE  Consistent'
  <1> DEFINE type == TypeOf[event]
             wake == EventRow("supervisor_wake_requested", event)
             row == InvocationRow(type, type, event)
  <1>1. /\ now' = now /\ UNCHANGED <<rows, late, done>> /\ Queue(<<wake>> \o <<row>>)
        /\ pc = "waiting" /\ pc' = "asking" /\ inbox # <<>> /\ event = Head(inbox)
        /\ inbox' = Tail(inbox) /\ applied' = applied \cup {event} /\ reviews' = reviews + 1
        /\ cause' = event /\ request'.trigger = type /\ ClassifyEvent(type) = "wake"
    BY DEF WakeSupervisor, TakeEvent, BeginReview, InvocationRow
  <1>2. /\ Entries \subseteq RowType /\ \A r \in Entries : r.at \in Nat /\ r.at <= now
        /\ now \in Nat /\ now' \in Nat
    BY <1>1, EntriesTyped
  <1>3. /\ wake.kind = "supervisor_wake_requested" /\ wake.event = event /\ wake.type = type
        /\ wake.at = now /\ wake \in RowType
    <2>1. wake \in RowType
      BY <1>2, EventRowIsRow DEF RowKinds
    <2> QED
      BY <1>1, <2>1 DEF EventRow, Row
  <1>4. row \in RowType /\ row.kind = "supervisor_invocation" /\ row.at = now
    <2>1. type \in Triggers
      BY DEF Triggers, EventTypes
    <2> HIDE DEF type
    <2> QED
      BY <1>1, <1>2, <2>1, InvocationRowIsRow
  <1> HIDE DEF wake, row
  <1>5. /\ Entries' = (Entries \cup {wake}) \cup {row}
        /\ ToSet(queue') = (ToSet(queue) \cup {wake}) \cup {row}
    <2> DEFINE first == <<wake>>
               second == <<row>>
    <2>1. /\ first \in Seq(RowType) /\ ToSet(first) = {wake}
          /\ second \in Seq(RowType) /\ ToSet(second) = {row}
      BY <1>3, <1>4, SingleKeeps
    <2> HIDE DEF first, second
    <2>2. /\ first \o second \in Seq(RowType)
          /\ ToSet(first \o second) = {wake} \cup {row}
      BY <2>1, ConcatKeeps
    <2>3. Queue(first \o second)
      BY <1>1 DEF first, second
    <2>4. /\ Entries' = Entries \cup ToSet(first \o second)
          /\ ToSet(queue') = ToSet(queue) \cup ToSet(first \o second)
      BY <1>1, <2>2, <2>3, EntriesGrow
    <2> QED
      BY <2>2, <2>4
  <1>6. /\ Received(Entries') = Received(Entries)
        /\ Invocations(Entries') = Invocations(Entries) \cup {row}
        /\ Wakes(Entries') = Wakes(Entries) \cup {wake}
        /\ Suppressed(Entries') = Suppressed(Entries)
        /\ Executed(ToSet(queue')) = Executed(ToSet(queue))
    <2> DEFINE more == Entries \cup {wake}
               queued == ToSet(queue) \cup {wake}
    <2>1. /\ Received(more) = Received(Entries)
          /\ Invocations(more) = Invocations(Entries)
          /\ Wakes(more) = Wakes(Entries) \cup {wake}
          /\ Suppressed(more) = Suppressed(Entries)
          /\ Executed(queued) = Executed(ToSet(queue))
      <3>1. Executed(queued) = Executed(ToSet(queue))
        BY <1>3, RowAdded
      <3> QED
        BY <1>3, <3>1, RowAdded
    <2>2. Entries' = more \cup {row} /\ ToSet(queue') = queued \cup {row}
      BY <1>5
    <2> HIDE DEF more, queued
    <2>3. /\ Received(more \cup {row}) = Received(more)
          /\ Invocations(more \cup {row}) = Invocations(more) \cup {row}
          /\ Wakes(more \cup {row}) = Wakes(more)
          /\ Suppressed(more \cup {row}) = Suppressed(more)
      BY <1>4, RowAdded
    <2>4. Executed(queued \cup {row}) = Executed(queued)
      BY <1>4, RowAdded
    <2> QED
      BY <2>1, <2>2, <2>3, <2>4
  <1>7. /\ NoRepeats(inbox') /\ ToSet(inbox) = {event} \cup ToSet(inbox')
        /\ event \notin ToSet(inbox') /\ event \notin applied
    BY <1>1, HeadAndTail DEF Typed, Consistent, EventsOnce
  <1>8. \A v \in Wakes(Entries) : v.at \in Nat /\ v.at < now
    BY <1>1, <1>2 DEF Consistent, TimesApart, Wakes
  <1>9. EventsOnce'
    BY <1>1, <1>3, <1>6, <1>7 DEF Consistent, EventsOnce, Open
  <1>10. TimesApart'
    <2>1. \A v, w \in Wakes(Entries') : v.at = w.at => v = w
      BY <1>2, <1>3, <1>6, <1>8 DEF Consistent, TimesApart
    <2> QED
      BY <1>1, <1>6, <2>1 DEF Consistent, TimesApart
  <1>11. CausesKnown'
    <2>1. ASSUME NEW a \in Executed(rows \cup late)
          PROVE  Explained(Entries', a.cause, a.trigger, a.at)
      <3>1. Explained(Entries, a.cause, a.trigger, a.at) /\ a.at \in Nat /\ a.at < now
        BY DEF Consistent, CausesKnown, TimesApart, Executed, Typed, RowType
      <3>2. \A v \in Wakes(Entries') : v.at <= a.at => v \in Entries
        BY <1>2, <1>3, <1>6, <3>1 DEF Wakes
      <3> QED
        BY <1>5, <3>1, <3>2, ExplainedStays
    <2>2. Explained(Entries', event, type, now)
      <3>1. event # "none"
        BY ReviewAssumption
      <3>2. PICK r \in Received(Entries) : r.event = event
        BY <1>7 DEF Consistent, EventsOnce
      <3>3. r \in Received(Entries') /\ r.at <= wake.at
        BY <1>2, <1>3, <1>6, <3>2 DEF Received
      <3>4. wake \in Wakes(Entries') /\ \A v \in Wakes(Entries') : v.at <= wake.at
        BY <1>2, <1>3, <1>6, <1>8
      <3>5. wake.at <= now
        BY <1>2, <1>3
      <3> HIDE DEF type
      <3> QED
        BY <1>3, <3>1, <3>2, <3>3, <3>4, <3>5 DEF Explained, type
    <2> QED
      BY <1>1, <2>1, <2>2 DEF CausesKnown
  <1>12. Counted'
    <2>1. Cardinality(Invocations(Entries')) = reviews + 1
      BY <1>1, <1>4, <1>6, InvocationIsNew
    <2> DEFINE decided == Suppressed(Entries) \cup Wakes(Entries)
    <2>2. IsFiniteSet(decided) /\ wake \notin decided
      <3>1. IsFiniteSet(decided)
        BY EntriesFinite, PartsFinite DEF Consistent
      <3> QED
        BY <1>3, <1>7, <3>1 DEF Consistent, EventsOnce
    <2>3. Suppressed(Entries') \cup Wakes(Entries') = decided \cup {wake}
      BY <1>6
    <2>4. {e \in applied' : ClassifyEvent(TypeOf[e]) = "suppress"}
            = {e \in applied : ClassifyEvent(TypeOf[e]) = "suppress"}
      BY <1>1
    <2>5. IsFiniteSet(applied) /\ Cardinality(decided) = Cardinality(applied)
      BY DEF Consistent, Counted
    <2> HIDE DEF decided
    <2>6. Cardinality(decided \cup {wake}) = Cardinality(applied \cup {event})
      BY <1>7, <2>2, <2>5, OneMore
    <2>7. IsFiniteSet(applied')
      BY <1>1, <1>7, <2>5, OneMore
    <2> QED
      BY <1>1, <1>6, <2>1, <2>3, <2>4, <2>6, <2>7 DEF Consistent, Counted
  <1> QED
    BY <1>9, <1>10, <1>11, <1>12 DEF Consistent

(* Rows of actions do not meet those of events and reviews.                *)
LEMMA ExecutedRowsAdded ==
  ASSUME Typed, Consistent, NEW row \in RowType, row.kind = "business_action_executed",
         rows' \in {rows, rows \cup {row}}, queue' = queue
  PROVE  /\ Entries' \in {Entries, Entries \cup {row}}
         /\ Received(Entries') = Received(Entries)
         /\ Invocations(Entries') = Invocations(Entries) /\ Wakes(Entries') = Wakes(Entries)
         /\ Suppressed(Entries') = Suppressed(Entries)
         /\ Executed(ToSet(queue')) = {}
  <1>1. Entries' \in {Entries, Entries \cup {row}}
    BY DEF Entries
  <1>2. /\ Received(Entries \cup {row}) = Received(Entries)
        /\ Invocations(Entries \cup {row}) = Invocations(Entries)
        /\ Wakes(Entries \cup {row}) = Wakes(Entries)
        /\ Suppressed(Entries \cup {row}) = Suppressed(Entries)
    BY RowAdded
  <1>3. Executed(ToSet(queue')) = {}
    BY DEF Consistent, TimesApart
  <1> QED
    BY <1>1, <1>2, <1>3

(* An attempt of an action: its row is stored, or on the way, or neither.  *)
LEMMA AttemptKeeps ==
  ASSUME Typed, Consistent, ActionExecuted \/ ActionFails
  PROVE  Consistent'
  <1>1. /\ NextProposal /\ now' = now + 1 /\ pc = "acting" /\ pc' = pc
        /\ UNCHANGED <<inbox, applied, reviews, queue, cause, request>>
        /\ rows' \in {rows, rows \cup {ActionRow}} /\ late' \in {late, late \cup {ActionRow}}
        /\ done' = done \/ (rows' = rows \cup {ActionRow} /\ \E name : done' = done \cup {name})
    BY DEF ActionExecuted, ActionFails, NextProposal, dataVars
  <1> DEFINE row == ActionRow
  <1>2. /\ row \in RowType /\ row.kind = "business_action_executed" /\ row.at = now
        /\ row.cause = cause /\ row.trigger = request.trigger
    BY TypedActionRow DEF ActionRow, Row
  <1> HIDE DEF row
  <1>3. /\ Entries \subseteq RowType /\ \A r \in Entries : r.at \in Nat /\ r.at <= now
        /\ now \in Nat /\ now' \in Nat
    BY <1>1, EntriesTyped
  <1>4. /\ Entries' \in {Entries, Entries \cup {row}}
        /\ Received(Entries') = Received(Entries)
        /\ Invocations(Entries') = Invocations(Entries) /\ Wakes(Entries') = Wakes(Entries)
        /\ Suppressed(Entries') = Suppressed(Entries)
        /\ Executed(ToSet(queue')) = {}
    BY <1>1, <1>2, ExecutedRowsAdded DEF row
  <1>5. \A a \in Executed(rows \cup late) : a.at \in Nat /\ a.at < now
    BY DEF Consistent, TimesApart, Executed, Typed, RowType
  <1>6. Executed(rows' \cup late') \subseteq Executed(rows \cup late) \cup {row}
    BY <1>1 DEF Executed, row
  <1>7. EventsOnce'
    BY <1>1, <1>4 DEF Consistent, EventsOnce, Open
  <1>8. TimesApart'
    <2>1. \A r \in Invocations(Entries) \cup Wakes(Entries) : r.at < now'
      BY <1>1, <1>3 DEF Invocations, Wakes
    <2>2. \A a \in Executed(rows' \cup late') : a.at < now'
      <3>1. now < now' /\ \A a \in Executed(rows \cup late) : a.at < now'
        <4>1. now' = now + 1
          BY <1>1
        <4>2. now < now'
          BY <1>3, <4>1
        <4>3. ASSUME NEW a \in Executed(rows \cup late) PROVE a.at < now'
          <5>1. a.at \in Nat /\ a.at < now
            BY <1>5
          <5> QED
            BY <1>3, <4>2, <5>1
        <4> QED
          BY <4>2, <4>3
      <3>2. row.at < now'
        BY <1>2, <3>1
      <3> QED
        BY <1>6, <3>1, <3>2
    <2>3. late' \subseteq Executed(late')
      BY <1>1, <1>2 DEF Consistent, TimesApart, Executed, row
    <2> QED
      BY <1>1, <1>4, <2>1, <2>2, <2>3 DEF Consistent, TimesApart
  <1>9. ASSUME NEW behind, NEW trigger, NEW t, Explained(Entries, behind, trigger, t)
        PROVE  Explained(Entries', behind, trigger, t)
    <2>1. \A v \in Wakes(Entries') : v.at <= t => v \in Entries
      BY <1>4 DEF Wakes
    <2>2. Entries \subseteq Entries'
      BY <1>4
    <2> QED
      BY <1>9, <2>1, <2>2, ExplainedStays
  <1>10. CausesKnown'
    <2>1. Explained(Entries, cause, request.trigger, now)
      BY <1>1 DEF Consistent, CausesKnown
    <2>2. \A a \in Executed(rows' \cup late') : Explained(Entries', a.cause, a.trigger, a.at)
      <3>1. \A a \in Executed(rows \cup late) : Explained(Entries', a.cause, a.trigger, a.at)
        BY <1>9 DEF Consistent, CausesKnown
      <3>2. Explained(Entries', row.cause, row.trigger, row.at)
        BY <1>2, <1>9, <2>1
      <3> QED
        BY <1>6, <3>1, <3>2
    <2>3. Explained(Entries', cause', request'.trigger, now')
      <3>1. Explained(Entries, cause, request.trigger, now')
        BY <1>1, <1>3, <2>1, ExplainedLater
      <3> QED
        BY <1>1, <1>9, <3>1
    <2> QED
      BY <2>2, <2>3 DEF CausesKnown
  <1>11. Counted'
    <2>1. IsFiniteSet(rows) /\ IsFiniteSet(Executed(rows)) /\ IsFiniteSet(done)
      BY PartsFinite, FS_Subset, ProvidersAssumption DEF Consistent, Counted, Typed
    <2>2. row \notin Executed(rows)
      <3>1. \A a \in Executed(rows) : a.at < now /\ a.at \in Nat
        BY <1>5 DEF Executed
      <3> QED
        BY <1>2, <1>3, <3>1
    <2>3. /\ Executed(rows \cup {row}) = Executed(rows) \cup {row}
      BY <1>2, RowAdded
    <2>4. Cardinality(Executed(rows) \cup {row}) = Cardinality(Executed(rows)) + 1
      BY <2>1, <2>2, OneMore
    <2>5. /\ Cardinality(Executed(rows)) \in Nat /\ Cardinality(done) \in Nat
          /\ Cardinality(Executed(rows)) >= Cardinality(done)
      BY <2>1, FS_CardinalityType DEF Consistent, Counted
    <2>6. ASSUME NEW name
          PROVE  /\ Cardinality(done \cup {name}) \in Nat
                 /\ Cardinality(done \cup {name}) <= Cardinality(done) + 1
      <3>1. CASE name \in done
        <4>1. done \cup {name} = done
          BY <3>1
        <4> QED
          BY <2>5, <4>1
      <3>2. CASE name \notin done
        <4>1. Cardinality(done \cup {name}) = Cardinality(done) + 1
          BY <2>1, <3>2, OneMore
        <4> QED
          BY <2>5, <4>1
      <3> QED
        BY <3>1, <3>2
    <2>7. Cardinality(Executed(rows')) >= Cardinality(done')
      <3>1. CASE done' = done
        <4>1. Cardinality(Executed(rows')) \in {Cardinality(Executed(rows)),
                                                Cardinality(Executed(rows)) + 1}
          BY <1>1, <2>3, <2>4 DEF row
        <4> QED
          BY <2>5, <3>1, <4>1
      <3>2. ASSUME rows' = rows \cup {row}, NEW name, done' = done \cup {name}
            PROVE  Cardinality(Executed(rows')) >= Cardinality(done')
        <4>1. Cardinality(Executed(rows')) = Cardinality(Executed(rows)) + 1
          BY <2>3, <2>4, <3>2
        <4>2. Cardinality(done') \in Nat /\ Cardinality(done') <= Cardinality(done) + 1
          BY <2>6, <3>2
        <4> QED
          BY <2>5, <4>1, <4>2
      <3> QED
        BY <1>1, <3>1, <3>2 DEF row
    <2>8. IsFiniteSet(rows')
      BY <1>1, <2>1, FS_AddElement
    <2> QED
      BY <1>1, <1>4, <2>7, <2>8 DEF Consistent, Counted
  <1> QED
    BY <1>7, <1>8, <1>10, <1>11 DEF Consistent

(* A commit that arrives when nobody waits for it.                         *)
LEMMA LateCommitKeeps ==
  ASSUME Typed, Consistent, LateCommit
  PROVE  Consistent'
  <1>1. PICK row \in late : rows' = rows \cup {row} /\ late' = late \ {row}
    BY DEF LateCommit
  <1>2. UNCHANGED <<pc, now, inbox, applied, reviews, done, queue, cause, request>>
    BY DEF LateCommit, dataVars, callVars, history
  <1>3. row \in RowType /\ row.kind = "business_action_executed"
    BY DEF Typed, Consistent, TimesApart, Executed
  <1>4. /\ Entries' \in {Entries, Entries \cup {row}}
        /\ Received(Entries') = Received(Entries)
        /\ Invocations(Entries') = Invocations(Entries) /\ Wakes(Entries') = Wakes(Entries)
        /\ Suppressed(Entries') = Suppressed(Entries)
        /\ Executed(ToSet(queue')) = {}
    BY <1>1, <1>2, <1>3, ExecutedRowsAdded
  <1>5. Executed(rows' \cup late') = Executed(rows \cup late)
    BY <1>1 DEF Executed
  <1>6. EventsOnce'
    BY <1>2, <1>4 DEF Consistent, EventsOnce, Open
  <1>7. TimesApart'
    <2>1. late' \subseteq Executed(late')
      BY <1>1 DEF Consistent, TimesApart, Executed
    <2> QED
      BY <1>2, <1>4, <1>5, <2>1 DEF Consistent, TimesApart
  <1>8. ASSUME NEW behind, NEW trigger, NEW t, Explained(Entries, behind, trigger, t)
        PROVE  Explained(Entries', behind, trigger, t)
    <2>1. \A v \in Wakes(Entries') : v.at <= t => v \in Entries
      BY <1>4 DEF Wakes
    <2>2. Entries \subseteq Entries'
      BY <1>4
    <2> QED
      BY <1>8, <2>1, <2>2, ExplainedStays
  <1>9. CausesKnown'
    BY <1>2, <1>5, <1>8 DEF Consistent, CausesKnown
  <1>10. Counted'
    <2>1. IsFiniteSet(rows) /\ IsFiniteSet(Executed(rows)) /\ IsFiniteSet(done)
      BY PartsFinite, FS_Subset, ProvidersAssumption DEF Consistent, Counted, Typed
    <2>2. IsFiniteSet(rows') /\ IsFiniteSet(Executed(rows'))
      BY <1>1, <2>1, FS_AddElement, PartsFinite
    <2>3. Executed(rows) \subseteq Executed(rows')
      BY <1>1 DEF Executed
    <2>4. Cardinality(Executed(rows)) <= Cardinality(Executed(rows'))
      BY <2>2, <2>3, FS_Subset
    <2>5. /\ Cardinality(Executed(rows)) \in Nat /\ Cardinality(Executed(rows')) \in Nat
          /\ Cardinality(done) \in Nat /\ Cardinality(Executed(rows)) >= Cardinality(done)
      BY <2>1, <2>2, FS_CardinalityType DEF Consistent, Counted
    <2> QED
      BY <1>2, <1>4, <2>2, <2>4, <2>5 DEF Consistent, Counted
  <1> QED
    BY <1>6, <1>7, <1>9, <1>10 DEF Consistent

-----------------------------------------------------------------------------
(* No rows at the start.                                                   *)
LEMMA ConsistentInit ==
  ASSUME Init PROVE Consistent
  <1>1. ToSet(<<>>) = {} /\ NoRepeats(<<>>)
    BY DEF ToSet, NoRepeats
  <1>2. Entries = {} /\ rows = {} /\ late = {} /\ ToSet(queue) = {}
    BY <1>1 DEF Init, Entries
  <1>3. /\ Received({}) = {} /\ Invocations({}) = {} /\ Suppressed({}) = {} /\ Wakes({}) = {}
        /\ Executed({}) = {}
    BY DEF Received, Invocations, Suppressed, Wakes, Executed
  <1>4. IsFiniteSet({}) /\ Cardinality({}) = 0
    BY FS_EmptySet
  <1>5. EventsOnce
    BY <1>1, <1>2, <1>3 DEF Init, EventsOnce
  <1>6. TimesApart
    BY <1>2, <1>3 DEF TimesApart
  <1>7. CausesKnown
    <2>1. Executed(rows \cup late) = {}
      BY <1>2, <1>3
    <2> QED
      BY <2>1 DEF CausesKnown, Init
  <1>8. Counted
    <2>1. {e \in applied : ClassifyEvent(TypeOf[e]) = "suppress"} = {}
      BY DEF Init
    <2>2. applied = {} /\ reviews = 0 /\ done = {}
      BY DEF Init
    <2> QED
      BY <1>2, <1>3, <1>4, <2>1, <2>2 DEF Counted
  <1> QED
    BY <1>5, <1>6, <1>7, <1>8 DEF Consistent

(* Every step keeps the rows consistent.                                   *)
LEMMA ConsistentNext ==
  ASSUME Typed, Consistent, [Next]_vars
  PROVE  Consistent'
  <1> USE QuietKeeps
  <1>1. ASSUME NEW text \in Texts, add_instruction(text) PROVE Consistent'
    BY <1>1 DEF add_instruction, QuietStep, Open, callVars, rowVars, history
  <1>2. ASSUME NEW event \in Events, receive_event(event) PROVE Consistent'
    BY <1>2, ReceiveKeeps
  <1>3. ASSUME NEW event \in Events, WakeSupervisor(event) PROVE Consistent'
    BY <1>3, WakeKeeps
  <1>4. ASSUME NEW event \in Events, SuppressWake(event) PROVE Consistent'
    BY <1>4, SuppressKeeps
  <1>5. CASE Startup \/ ScheduledReview
    BY <1>5, UnpromptedKeeps
  <1>6. ASSUME NEW actions, NEW recollection, Decided(actions, recollection) PROVE Consistent'
    BY <1>6 DEF Decided, QuietStep, Open, dataVars, rowVars, history
  <1>7. CASE DecideByRules \/ DecideByModel
    BY <1>6, <1>7 DEF DecideByRules, DecideByModel
  <1>8. CASE ReviewFails
    BY <1>8 DEF ReviewFails, QuietStep, Open, dataVars, rowVars, history
  <1>9. CASE RefuseProposal
    BY <1>9 DEF RefuseProposal, NextProposal, QuietStep, Open, dataVars
  <1>10. CASE ActionExecuted \/ ActionFails
    BY <1>10, AttemptKeeps
  <1>11. CASE LateCommit
    BY <1>11, LateCommitKeeps
  <1>12. CASE Remember
    BY <1>12 DEF Remember, QuietStep, Open, rowVars, history
  <1>13. CASE Flush
    BY <1>13 DEF Flush, QuietStep, Open, dataVars, callVars, history
  <1>14. CASE Finish
    BY <1>14 DEF Finish, QuietStep, Open, history
  <1>15. ASSUME NEW names, Report(names) PROVE Consistent'
    BY <1>15 DEF Report, QuietStep, Open, dataVars, rowVars, history
  <1>16. CASE ReportByRules \/ ReportByModel \/ ReportFallback
    BY <1>15, <1>16 DEF ReportByRules, ReportByModel, ReportFallback
  <1>17. CASE UNCHANGED vars
    BY <1>17 DEF vars, QuietStep, Open, dataVars, callVars, rowVars, history
  <1> QED
    BY <1>1, <1>2, <1>3, <1>4, <1>5, <1>7, <1>8, <1>9, <1>10, <1>11, <1>12, <1>13, <1>14,
       <1>16, <1>17 DEF Next, Finished

(* The query's candidates, by what they are made of.                       *)
LEMMA CandidateParts ==
  ASSUME NEW all, NEW p
  PROVE  p \in Candidates(all) <=>
           \E a \in EventActions(all), w \in Wakes(all), r \in Received(all) :
             /\ p = <<a, w, r>>
             /\ w.at <= a.at /\ a.trigger = w.type /\ r.event = w.event /\ r.at <= w.at
  BY DEF Candidates

(* An action has the rows it is explained by as its only candidates with   *)
(* the closest wake request.                                               *)
LEMMA MatchedIsExplained ==
  ASSUME Typed, EventsOnce, TimesApart, CausesKnown, Entries = rows
  PROVE  /\ \A a \in Executed(rows) : a.cause # "none" =>
              \E p \in Matched(rows) : p[1] = a
         /\ \A p \in Matched(rows) :
              /\ p[1] \in Executed(rows) /\ p[1].cause # "none"
              /\ p[3] \in Received(rows) /\ p[3].event = p[1].cause
  <1>1. ASSUME NEW a \in Executed(rows) PROVE Explained(rows, a.cause, a.trigger, a.at)
    BY <1>1 DEF CausesKnown, Executed
  <1>2. \A x \in rows : x.at \in Nat
    BY EntriesTyped
  <1>3. \A v, w \in Wakes(rows) : v.at = w.at => v = w
    BY DEF TimesApart
  <1>4. ASSUME NEW a \in Executed(rows)
        PROVE  a \in EventActions(rows) <=> a.cause # "none"
    <2>1. CASE a.cause = "none"
      BY <1>1, <2>1 DEF Explained, EventActions
    <2>2. CASE a.cause # "none"
      <3>1. a.cause \in Events /\ a.trigger = TypeOf[a.cause]
        BY <1>1, <2>2 DEF Explained
      <3>2. a.trigger \notin {"workflow_start", "scheduled_wake"}
        BY <3>1, ReviewAssumption
      <3> QED
        BY <2>2, <3>2 DEF EventActions
    <2> QED
      BY <2>1, <2>2
  <1>5. ASSUME NEW a \in Executed(rows), a.cause # "none"
        PROVE  \E w \in Wakes(rows), r \in Received(rows) :
                 /\ <<a, w, r>> \in Candidates(rows) /\ w.event = a.cause
                 /\ a.at >= r.at
                 /\ \A q \in Candidates(rows) : q[1] = a => q[2].at <= w.at
    <2>1. PICK w \in Wakes(rows), r \in Received(rows) :
            /\ w.event = a.cause /\ w.type = a.trigger /\ w.at <= a.at
            /\ r.event = a.cause /\ r.at <= w.at
            /\ \A v \in Wakes(rows) : v.at <= a.at => v.at <= w.at
      BY <1>1, <1>5 DEF Explained
    <2>2. <<a, w, r>> \in Candidates(rows)
      BY <1>4, <1>5, <2>1, CandidateParts
    <2>3. a.at \in Nat /\ w.at \in Nat /\ r.at \in Nat
      BY <1>2 DEF Executed, Wakes, Received
    <2>4. ASSUME NEW q \in Candidates(rows), q[1] = a PROVE q[2].at <= w.at
      <3>1. q[2] \in Wakes(rows) /\ q[2].at <= a.at
        BY <2>4 DEF Candidates
      <3> QED
        BY <2>1, <3>1
    <2> QED
      BY <2>1, <2>2, <2>3, <2>4
  <1>6. ASSUME NEW a \in Executed(rows), a.cause # "none"
        PROVE  \E p \in Matched(rows) : p[1] = a
    <2>1. PICK w \in Wakes(rows), r \in Received(rows) :
            /\ <<a, w, r>> \in Candidates(rows) /\ a.at >= r.at
            /\ \A q \in Candidates(rows) : q[1] = a => q[2].at <= w.at
      BY <1>5, <1>6
    <2> DEFINE p == <<a, w, r>>
    <2>2. p[1] = a /\ p[2] = w /\ p[3] = r
      OBVIOUS
    <2> HIDE DEF p
    <2>3. p \in Matched(rows)
      BY <2>1, <2>2 DEF Matched, p
    <2> QED
      BY <2>2, <2>3
  <1>7. ASSUME NEW p \in Matched(rows)
        PROVE  /\ p[1] \in Executed(rows) /\ p[1].cause # "none"
               /\ p[3] \in Received(rows) /\ p[3].event = p[1].cause
    <2>1. /\ p \in Candidates(rows)
          /\ \A q \in Candidates(rows) : q[1] = p[1] => q[2].at <= p[2].at
      BY DEF Matched
    <2>2. /\ p[1] \in EventActions(rows) /\ p[2] \in Wakes(rows) /\ p[3] \in Received(rows)
          /\ p[3].event = p[2].event /\ p[2].at <= p[1].at
      BY <2>1 DEF Candidates
    <2>3. p[1] \in Executed(rows)
      BY <2>2 DEF EventActions
    <2>4. p[1].cause # "none"
      BY <1>4, <2>2, <2>3
    <2>5. PICK w \in Wakes(rows), r \in Received(rows) :
            /\ <<p[1], w, r>> \in Candidates(rows) /\ w.event = p[1].cause
            /\ \A q \in Candidates(rows) : q[1] = p[1] => q[2].at <= w.at
      BY <1>5, <2>3, <2>4
    <2>6. p[2].at <= w.at /\ w.at <= p[2].at
      <3> DEFINE c == <<p[1], w, r>>
      <3>1. c[1] = p[1] /\ c[2] = w /\ c \in Candidates(rows)
        BY <2>5
      <3> HIDE DEF c
      <3> QED
        BY <2>1, <2>5, <3>1
    <2>7. p[2].at \in Nat /\ w.at \in Nat
      BY <1>2, <2>2 DEF Wakes
    <2>8. p[2] = w
      BY <1>3, <2>2, <2>6, <2>7
    <2> QED
      BY <2>2, <2>3, <2>4, <2>5, <2>8
  <1> QED
    BY <1>6, <1>7

(* Over all rows of a run, the query and the truth are the same set of     *)
(* latencies.                                                              *)
LEMMA FirstLatencyIsTrue ==
  ASSUME Typed, EventsOnce, TimesApart, CausesKnown, Entries = rows
  PROVE  FirstLatency(rows) = TrueLatency
  <1> DEFINE actions == {a \in Executed(rows) : a.cause # "none"}
             matched == Matched(rows)
             firstMatched == {q \in matched : \A m \in matched : q[1].at <= m[1].at}
             first == {p \in actions \X Received(rows) :
                         p[2].event = p[1].cause /\ \A a \in actions : p[1].at <= a.at}
  <1>1. FirstLatency(rows) = {p[1].at - p[3].at : p \in firstMatched}
    BY DEF FirstLatency
  <1>2. TrueLatency = {p[1].at - p[2].at : p \in first}
    BY DEF TrueLatency
  <1>3. \A a \in actions : \E p \in matched : p[1] = a
    BY MatchedIsExplained
  <1>4. \A p \in matched : /\ p[1] \in actions /\ p[3] \in Received(rows)
                           /\ p[3].event = p[1].cause
    BY MatchedIsExplained
  <1>5. \A r, s \in Received(rows) : r.event = s.event => r = s
    BY DEF EventsOnce
  <1> HIDE DEF matched, actions
  <1>6. ASSUME NEW p \in firstMatched PROVE <<p[1], p[3]>> \in first
    BY <1>3, <1>4
  <1>7. ASSUME NEW p \in first PROVE \E q \in firstMatched : q[1] = p[1] /\ q[3] = p[2]
    <2>1. /\ p[1] \in actions /\ p[2] \in Received(rows) /\ p[2].event = p[1].cause
          /\ \A a \in actions : p[1].at <= a.at
      OBVIOUS
    <2>2. PICK q \in matched : q[1] = p[1]
      BY <1>3, <2>1
    <2>3. q[3] = p[2]
      BY <1>4, <1>5, <2>1, <2>2
    <2>4. q \in firstMatched
      BY <1>4, <2>1, <2>2
    <2> QED
      BY <2>2, <2>3, <2>4
  <1> HIDE DEF first, firstMatched
  <1>8. ASSUME NEW p \in firstMatched
        PROVE  \E q \in first : q[1].at - q[2].at = p[1].at - p[3].at
    <2> DEFINE q == <<p[1], p[3]>>
    <2>1. q \in first /\ q[1] = p[1] /\ q[2] = p[3]
      BY <1>6
    <2> HIDE DEF q
    <2> QED
      BY <2>1
  <1>9. ASSUME NEW p \in first
        PROVE  \E q \in firstMatched : q[1].at - q[3].at = p[1].at - p[2].at
    BY <1>7
  <1> QED
    BY <1>1, <1>2, <1>8, <1>9

(* Once the transitions are stored, the latency and the counts that the    *)
(* analytics read from the rows are those of the run: its first executed   *)
(* action is paired with the event that really caused it, however events,  *)
(* reviews and late commits interleave.                                    *)
THEOREM AnalyticsAreTrue == Spec => []AnalyticsTrue
  <1>1. Init => Typed /\ Honest /\ Consistent
    BY TypedInit, HonestInit, ConsistentInit
  <1>2. Typed /\ Honest /\ Consistent /\ [Next]_vars => (Typed /\ Honest /\ Consistent)'
    BY TypedNext, HonestNext, ConsistentNext
  <1>3. Typed /\ Consistent => AnalyticsTrue
    <2> SUFFICES ASSUME Typed, Consistent, queue = <<>>
                 PROVE  LET counts == RunCounts(rows) IN
                        /\ FirstLatency(rows) = TrueLatency
                        /\ counts.invocations = reviews
                        /\ counts.decisions = Cardinality(applied)
                        /\ counts.suppressed
                             = Cardinality({e \in applied : ClassifyEvent(TypeOf[e]) = "suppress"})
                        /\ counts.executed >= Cardinality(done)
      BY DEF AnalyticsTrue
    <2>1. Entries = rows
      BY DEF Entries, ToSet
    <2>2. FirstLatency(rows) = TrueLatency
      BY <2>1, FirstLatencyIsTrue DEF Consistent
    <2> QED
      BY <2>1, <2>2 DEF Consistent, Counted, RunCounts
  <1> QED
    BY <1>1, <1>2, <1>3, PTL DEF Spec

-----------------------------------------------------------------------------
(* The instructions in memory.                                             *)

(* The rules remember the newest of the instructions that the last         *)
(* successful review was given, and the next review adds to that.          *)
HeldUpTo(p) ==
  /\ Plain(SubSeq(instructions, 1, p)) => memory.constraints = Window(instructions, p)
  /\ pc \in {"asking", "acting"} =>
       /\ request.memory = memory
       /\ \E q \in p..Len(instructions) : request.instructions = SubSeq(instructions, 1, q)

WindowRemembered ==
  config.provider = "deterministic" =>
    /\ \E p \in 0..Len(instructions) : HeldUpTo(p)
    /\ pc = "acting" => update.constraints = RulesDecide(request).memory.constraints

(* What a review by the rules leaves in memory, from what the reviews      *)
(* before it left there.                                                   *)
LEMMA RememberedIsWindow ==
  ASSUME Typed, Honest, WindowRemembered, pc = "acting", config.provider = "deterministic"
  PROVE  LET given == request.instructions
             kept  == BoundedTextList(update.constraints) IN
         /\ given # <<>> => Contains(kept, BoundedText(Last(given)))
         /\ Plain(given) => kept = Window(given, Len(given))
         /\ \E q \in 0..Len(instructions) : given = SubSeq(instructions, 1, q)
  <1> DEFINE given == request.instructions
             known == update.constraints
             kept  == BoundedTextList(known)
  <1>1. PICK p \in 0..Len(instructions) : HeldUpTo(p)
    BY DEF WindowRemembered
  <1>2. PICK q \in p..Len(instructions) : given = SubSeq(instructions, 1, q)
    BY <1>1 DEF HeldUpTo
  <1>3. instructions \in Seq(Texts) /\ Len(instructions) \in Nat
    BY DEF Typed
  <1>4. q \in 0..Len(instructions) /\ p \in 0..q
    BY <1>1, <1>2, <1>3
  <1>5. /\ known = AppendInstructions(request.memory.constraints, given)
        /\ known \in Kept
        /\ given # <<>> => BoundedText(Last(given)) \in ToSet(known)
    BY RulesUpdate DEF WindowRemembered, AppendInstructions
  <1>6. given \in Seq(Texts) /\ Len(given) = q /\ SubSeq(given, 1, p) = SubSeq(instructions, 1, p)
    BY <1>2, <1>3, <1>4, PrefixOfPrefix
  <1> HIDE DEF given, known
  <1>7. kept \in Kept /\ ToSet(kept) = ToSet(known) /\ (NoRepeats(known) => kept = known)
    BY <1>5, BoundedTextListOfKept
  <1> HIDE DEF kept
  <1>8. given # <<>> => Contains(kept, BoundedText(Last(given)))
    BY <1>5, <1>7, ContainsIsMember DEF Kept
  <1>9. Plain(given) => kept = Window(given, Len(given))
    <2> SUFFICES ASSUME Plain(given) PROVE kept = Window(given, Len(given))
      OBVIOUS
    <2>1. p \in 0..Len(given) /\ Len(given) \in 0..Len(given)
      BY <1>4, <1>6
    <2>2. Plain(SubSeq(instructions, 1, p))
      BY <1>6, <2>1, PlainPrefix
    <2>3. request.memory.constraints = Window(given, p)
      BY <1>1, <1>6, <2>2 DEF HeldUpTo, Window
    <2>4. known = Window(given, Len(given))
      BY <1>5, <1>6, <2>1, <2>3, WindowMoves
    <2>5. NoRepeats(known)
      BY <1>6, <2>1, <2>4, PlainKeeps
    <2> QED
      BY <1>7, <2>4, <2>5
  <1> QED
    BY <1>2, <1>4, <1>8, <1>9 DEF given, known, kept

(* Nothing is given and nothing remembered at the start.                   *)
LEMMA WindowInit ==
  ASSUME Init PROVE WindowRemembered
  <1>1. instructions = <<>> /\ memory.constraints = <<>> /\ pc = "waiting"
    BY DEF Init, EmptyMemory
  <1>2. Window(<<>>, 0) = <<>>
    <2>1. <<>> \in Seq(Texts) /\ Len(<<>>) = 0 /\ MemoryItems \in Nat
      BY ProvidersAssumption
    <2>2. SubSeq(<<>>, 1, 0) = <<>>
      OBVIOUS
    <2>3. Newest(<<>>, MemoryItems) = <<>>
      <3>1. Excess(Len(<<>>), MemoryItems) = 0
        BY <2>1 DEF Excess
      <3> QED
        BY <2>1, <2>2, <3>1 DEF Newest
    <2> QED
      BY <2>2, <2>3 DEF Window
  <1>3. HeldUpTo(0)
    BY <1>1, <1>2 DEF HeldUpTo
  <1> QED
    BY <1>1, <1>3 DEF WindowRemembered

(* Every step keeps memory at the window of a prefix of the instructions.  *)
LEMMA WindowNext ==
  ASSUME Typed, Honest, WindowRemembered, [Next]_vars
  PROVE  WindowRemembered'
  <1>0. config' = config
    BY DEF Next, Finished, vars, dataVars, callVars, rowVars, history, add_instruction,
           receive_event, WakeSupervisor, SuppressWake, Startup, ScheduledReview, BeginReview,
           DecideByRules, DecideByModel, Decided, ReviewFails, RefuseProposal, NextProposal,
           ActionExecuted, ActionFails, LateCommit, Remember, Flush, Finish, ReportByRules,
           ReportByModel, ReportFallback, Report
  <1> SUFFICES ASSUME config.provider = "deterministic"
               PROVE  WindowRemembered'
    BY <1>0 DEF WindowRemembered
  <1>p. PICK p \in 0..Len(instructions) : HeldUpTo(p)
    BY DEF WindowRemembered
  <1>t. instructions \in Seq(Texts) /\ Len(instructions) \in Nat
    BY DEF Typed
  <1>1. ASSUME UNCHANGED <<instructions, memory>>, pc' \notin {"asking", "acting"}
        PROVE  WindowRemembered'
    BY <1>0, <1>1, <1>p DEF WindowRemembered, HeldUpTo
  <1>2. ASSUME UNCHANGED <<pc, instructions, memory, request, update>>
        PROVE  WindowRemembered'
    BY <1>0, <1>2 DEF WindowRemembered, HeldUpTo
  <1>3. ASSUME NEW trigger, NEW type, NEW event, NEW first,
               BeginReview(trigger, type, event, first)
        PROVE  WindowRemembered'
    <2>1. /\ request'.instructions = instructions /\ request'.memory = memory
          /\ pc' = "asking" /\ UNCHANGED <<instructions, memory>>
      BY <1>3 DEF BeginReview
    <2>2. instructions = SubSeq(instructions, 1, Len(instructions))
      BY <1>t, WholeIsPrefix
    <2>3. Len(instructions) \in p..Len(instructions)
      BY <1>p, <1>t
    <2>4. HeldUpTo(p)'
      BY <1>p, <2>1, <2>2, <2>3 DEF HeldUpTo
    <2> QED
      BY <1>p, <2>1, <2>4 DEF WindowRemembered
  <1>4. ASSUME NEW text \in Texts, add_instruction(text) PROVE WindowRemembered'
    <2>1. /\ instructions' = Append(instructions, text)
          /\ UNCHANGED <<pc, memory, request, update>>
      BY <1>4 DEF add_instruction, callVars
    <2>2. Len(instructions') = Len(instructions) + 1
      BY <1>t, <2>1
    <2>3. \A n \in 0..Len(instructions) :
             SubSeq(instructions', 1, n) = SubSeq(instructions, 1, n)
      BY <1>t, <2>1, PrefixOfAppend
    <2>4. \A n \in p..Len(instructions) : n \in 0..Len(instructions) /\ n \in p..Len(instructions')
      BY <1>p, <1>t, <2>2
    <2>5. p \in 0..Len(instructions')
      BY <1>p, <1>t, <2>2
    <2>6. Window(instructions', p) = Window(instructions, p)
      BY <1>p, <2>3 DEF Window
    <2>7. HeldUpTo(p)'
      BY <1>p, <2>1, <2>3, <2>4, <2>6 DEF HeldUpTo
    <2> QED
      BY <2>1, <2>5, <2>7 DEF WindowRemembered
  <1>5. ASSUME NEW event \in Events, receive_event(event) PROVE WindowRemembered'
    BY <1>2, <1>5 DEF receive_event, callVars
  <1>6. ASSUME NEW event \in Events, WakeSupervisor(event) PROVE WindowRemembered'
    BY <1>3, <1>6 DEF WakeSupervisor
  <1>7. ASSUME NEW event \in Events, SuppressWake(event) PROVE WindowRemembered'
    BY <1>2, <1>7 DEF SuppressWake, callVars
  <1>8. CASE Startup \/ ScheduledReview
    BY <1>3, <1>8 DEF Startup, ScheduledReview
  <1>9. CASE DecideByRules
    <2>1. /\ pc = "asking" /\ pc' = "acting" /\ UNCHANGED <<instructions, memory, request>>
          /\ update' = RulesDecide(request).memory
      BY <1>9 DEF DecideByRules, Decided, dataVars
    <2>2. HeldUpTo(p)'
      BY <1>p, <2>1 DEF HeldUpTo
    <2> QED
      BY <1>p, <2>1, <2>2 DEF WindowRemembered
  <1>10. CASE DecideByModel
    BY <1>10 DEF DecideByModel
  <1>11. CASE ReviewFails
    BY <1>1, <1>11 DEF ReviewFails, dataVars
  <1>12. CASE RefuseProposal \/ ActionExecuted \/ ActionFails
    BY <1>2, <1>12 DEF RefuseProposal, ActionExecuted, ActionFails, NextProposal, dataVars
  <1>13. CASE LateCommit
    BY <1>2, <1>13 DEF LateCommit, dataVars, callVars
  <1>14. CASE Remember
    <2> DEFINE given == request.instructions
               kept  == BoundedTextList(update.constraints)
    <2>1. /\ pc = "acting" /\ pc' = "flushing" /\ UNCHANGED instructions
          /\ memory'.constraints = kept
      BY <1>14 DEF Remember, ValidatedMemoryUpdate
    <2>2. PICK q \in 0..Len(instructions) : given = SubSeq(instructions, 1, q)
      BY <2>1, RememberedIsWindow
    <2>3. Plain(given) => kept = Window(given, Len(given))
      BY <2>1, RememberedIsWindow
    <2>4. Len(given) = q /\ SubSeq(given, 1, q) = given
      <3>1. q \in 0..q /\ SubSeq(SubSeq(instructions, 1, q), 1, q) = SubSeq(instructions, 1, q)
        BY <1>t, PrefixOfPrefix
      <3> QED
        BY <1>t, <2>2, <3>1
    <2> HIDE DEF given, kept
    <2>5. Plain(SubSeq(instructions, 1, q)) => memory'.constraints = Window(instructions, q)
      BY <2>1, <2>2, <2>3, <2>4 DEF Window
    <2>6. HeldUpTo(q)'
      BY <2>1, <2>5 DEF HeldUpTo
    <2> QED
      BY <2>1, <2>2, <2>6 DEF WindowRemembered
  <1>15. CASE Flush
    BY <1>1, <1>15 DEF Flush, dataVars
  <1>16. CASE Finish
    BY <1>1, <1>16 DEF Finish
  <1>17. CASE ReportByRules \/ ReportByModel \/ ReportFallback
    BY <1>1, <1>17 DEF ReportByRules, ReportByModel, ReportFallback, Report, dataVars
  <1>18. CASE UNCHANGED vars
    BY <1>2, <1>18 DEF vars, dataVars, callVars
  <1> QED
    BY <1>4, <1>5, <1>6, <1>7, <1>8, <1>9, <1>10, <1>11, <1>12, <1>13, <1>14, <1>15, <1>16,
       <1>17, <1>18 DEF Next, Finished

(* Whatever a run was given, and whichever of its reviews failed: a review *)
(* by the rules leaves the newest instruction in memory, and as long as    *)
(* none was repeated or too long, memory then holds the newest             *)
(* instructions in their order (_append_instructions, _append_bounded).    *)
THEOREM InstructionsAreRemembered == Spec => InstructionsRemembered
  <1> DEFINE Inv == Typed /\ Honest /\ WindowRemembered
             Keeps == Remember /\ config.provider = "deterministic" /\ request.instructions # <<>>
                        => LET given == request.instructions IN
                           /\ Contains(memory'.constraints, BoundedText(Last(given)))
                           /\ Distinct(given) = given /\ ToSet(given) \cap DOMAIN Cut = {} =>
                                memory'.constraints = Newest(given, MemoryItems)
  <1>1. Init => Inv
    BY TypedInit, HonestInit, WindowInit
  <1>2. Inv /\ [Next]_vars => Inv'
    BY TypedNext, HonestNext, WindowNext
  <1>3. Inv => Keeps
    <2> SUFFICES ASSUME Inv, Remember, config.provider = "deterministic",
                        request.instructions # <<>>
                 PROVE  LET given == request.instructions IN
                        /\ Contains(memory'.constraints, BoundedText(Last(given)))
                        /\ Distinct(given) = given /\ ToSet(given) \cap DOMAIN Cut = {} =>
                             memory'.constraints = Newest(given, MemoryItems)
      OBVIOUS
    <2> DEFINE given == request.instructions
               kept  == BoundedTextList(update.constraints)
    <2>1. pc = "acting" /\ memory'.constraints = kept /\ given \in Seq(Texts)
      BY DEF Remember, ValidatedMemoryUpdate, Typed, Requests
    <2>2. /\ Contains(kept, BoundedText(Last(given)))
          /\ Plain(given) => kept = Window(given, Len(given))
      BY <2>1, RememberedIsWindow
    <2> HIDE DEF given, kept
    <2>3. Distinct(given) = given => NoRepeats(given)
      BY <2>1, DistinctIsNoRepeats
    <2>4. Window(given, Len(given)) = Newest(given, MemoryItems)
      BY <2>1, WholeIsPrefix DEF Window
    <2> QED
      BY <2>1, <2>2, <2>3, <2>4 DEF Plain, given
  <1>4. Inv /\ [Next]_vars => [Keeps]_vars
    BY <1>3
  <1> HIDE DEF Inv, Keeps
  <1>5. Spec => [][Keeps]_vars
    BY <1>1, <1>2, <1>4, PTL DEF Spec
  <1> QED
    BY <1>5 DEF Keeps, InstructionsRemembered
=============================================================================
