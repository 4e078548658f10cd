------------------------- MODULE SupervisorProviders -------------------------
(***************************************************************************)
(* What the supervisor decides and remembers.  The rules of                *)
(* DeterministicSupervisorProvider and the contexts of                     *)
(* OllamaSupervisorProvider (backend/app/supervisor/providers.py), the     *)
(* validation of what they work with (schemas.py), and the memory and the  *)
(* fallback report of the workflow itself (workflows.py).                  *)
(*                                                                         *)
(* A memory holds two of its four lists: the actions taken, which are the  *)
(* workflow's own facts, and the constraints, which carry the operator's   *)
(* instructions.  Facts and open issues are bounded lists like the latter. *)
(***************************************************************************)
EXTENDS ContextBudget, SequencesExt

CONSTANTS
  Actions,             \* BUSINESS_ACTION_NAMES
  Texts,               \* instructions an operator may give
  Cut,                 \* the form in which memory keeps a text that is too long
  MemoryItems,         \* bound of a memory list, 6 (MAX_MEMORY_ITEMS)
  MemoryShown,         \* newest items of a list that a context holds, 4
  FinalActivityLimit,  \* FINAL_CONTEXT_ACTIVITY_LIMIT, 25
  TextChars,           \* length of each text in a context
  ItemChars, HeadChars, DetailChars   \* of a memory item, an entry, its details

ASSUME ProvidersAssumption ==
  /\ MemoryItems \in Nat \ {0} /\ MemoryShown \in Nat \ {0} /\ FinalActivityLimit \in Nat
  /\ MemoryItems <= InstructionLimit
  /\ IsFiniteSet(Actions) /\ Cardinality(Actions) <= MemoryItems
  /\ TextChars \in [Texts -> Nat \ {0}] /\ {ItemChars, HeadChars, DetailChars} \subseteq Nat
  /\ DOMAIN Cut \subseteq Texts \ Actions /\ Range(Cut) \cap DOMAIN Cut = {}

(* The slice s[-n:].                                                       *)
Newest(s, n) == SubSeq(s, Excess(Len(s), n) + 1, Len(s))

BoundedText(value) == IF value \in DOMAIN Cut THEN Cut[value] ELSE value

(* Each wanted value once, in the order of their first places.             *)
Once(values, wanted) ==
  LET kept[i \in 0..Len(values)] ==
        IF i = 0 THEN <<>>
        ELSE LET before == kept[i - 1] IN
             IF values[i] \in wanted /\ ~Contains(before, values[i])
             THEN Append(before, values[i]) ELSE before
  IN kept[Len(values)]

Distinct(values) == Once(values, ToSet(values))

-----------------------------------------------------------------------------
(* Memory: the validation before a provider uses it, the list that the     *)
(* rules extend, and the update that the workflow accepts.                 *)

EmptyMemory == [actions |-> <<>>, constraints |-> <<>>]

MemoryFromData(memory) ==
  [actions |-> Distinct(memory.actions), constraints |-> Distinct(memory.constraints)]

(* The value is looked for as it is, and kept in its bounded form: a text  *)
(* that is too long is never found.                                        *)
AppendBounded(items, value) ==
  Newest(IF Contains(items, value) THEN items ELSE Append(items, BoundedText(value)), MemoryItems)

AppendEach(items, values) ==
  LET kept[i \in 0..Len(values)] ==
        IF i = 0 THEN items ELSE AppendBounded(kept[i - 1], values[i])
  IN kept[Len(values)]

(* Fault: the oldest instructions of the run are taken.                    *)
AppendOldestInstructions(items, instructions) ==
  AppendEach(items, SubSeq(instructions, 1, Least(Len(instructions), InstructionLimit)))

AppendInstructions(items, instructions) ==
  AppendEach(items, Newest(instructions, InstructionLimit))

BoundedTextList(values) ==
  Newest(Distinct([i \in DOMAIN values |-> BoundedText(values[i])]), MemoryItems)

(* Fault: the provider's word is taken for what was executed.              *)
TrustedMemoryUpdate(memory, update, executed) ==
  [actions |-> BoundedTextList(update.actions \o executed),
   constraints |-> BoundedTextList(update.constraints)]

(* _validated_memory_update: actions are those the workflow knows of.      *)
ValidatedMemoryUpdate(memory, update, executed) ==
  [actions |-> BoundedTextList(memory.actions \o executed),
   constraints |-> BoundedTextList(update.constraints)]

-----------------------------------------------------------------------------
(* The deterministic provider.                                             *)

(* _action_for_event: no action for a review that no event caused.         *)
ActionForEvent(type) ==
  CASE type \in {"payment_failed", "refund_requested"} -> <<"message_payments_team">>
    [] type = "shipment_delayed"                        -> <<"message_logistics_team">>
    [] type = "customer_message_received"               -> <<"message_customer">>
    [] type = "no_update_for_n_hours"                   -> <<"message_fulfillment_team">>
    [] type = "unknown"                                 -> <<"create_internal_note">>
    [] OTHER                                            -> <<>>

RulesDecide(request) ==
  LET memory == MemoryFromData(request.memory) IN
  [actions |-> ActionForEvent(request.type),
   memory  |-> [memory EXCEPT !.constraints = AppendInstructions(@, request.instructions)]]

(* An entry of the timeline is the name of an action that was executed, or *)
(* a "note" of anything else.                                              *)
ExecutedActionNames(entries) == Once(entries, Actions)

(* Fault: the report is made from recent activity alone.                   *)
ReportRecentActions(request) ==
  Distinct(ExecutedActionNames(Newest(request.activity, FinalActivityLimit)))

(* The actions that the report of the rules names.                         *)
RulesFinalize(request) ==
  Distinct(MemoryFromData(request.memory).actions
           \o ExecutedActionNames(Newest(request.activity, FinalActivityLimit)))

(* The workflow's own report when the Activity failed.                     *)
DeterministicFinalOutput(memory) == memory.actions

-----------------------------------------------------------------------------
(* The language model: what it is asked with.                              *)

(* _memory_context, and the lengths it has beyond a bare memory.           *)
MemoryAsk(memory) ==
  LET chars(n) == ItemChars * (Least(Len(memory.actions), n) + Least(Len(memory.constraints), n))
      bare     == ItemChars * Least(Len(memory.actions), 1)
  IN [full |-> chars(MemoryShown) - bare, last |-> chars(1) - bare]

AskOf(request, frame, base, initial) ==
  LET known    == request.instructions
      texts[k \in 0..Least(Len(known), InstructionLimit)] ==
        IF k = 0 THEN 0 ELSE texts[k - 1] + TextChars[known[Len(known) - k + 1]]
      entries  == 0..Least(Len(request.activity), ActivityLimit)
  IN [frame   |-> frame + ItemChars * Least(Len(request.memory.actions), 1),
      base    |-> base,
      initial |-> initial,
      memory  |-> MemoryAsk(MemoryFromData(request.memory)),
      heads   |-> [k \in entries |-> k * HeadChars],
      details |-> [k \in entries |-> k * DetailChars],
      texts   |-> texts]

BuiltFor(request) == Built(Len(request.activity), Len(request.instructions))

(* build_supervisor_context *)
BuildSupervisorContext(request, ask) == FitSupervisorContext(ask, BuiltFor(request))

(* build_final_output_messages *)
BuildFinalOutputContext(request, ask) == FitFinalOutputContext(ask, BuiltFor(request))
=============================================================================
