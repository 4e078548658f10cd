---------------------------- MODULE ContextBudget ----------------------------
(***************************************************************************)
(* The pruning of the context that a language model is asked with, from    *)
(* backend/app/supervisor/providers.py: a review and the final report each *)
(* build a context from bounded windows and then drop optional detail, in  *)
(* a fixed order, until its JSON text is within the budget.                *)
(*                                                                         *)
(* What matters of a text is its length.  An "ask" gives the lengths of    *)
(* what a request holds:                                                   *)
(*   frame    what is never dropped                                        *)
(*   base     the base instruction beyond its first 240 characters         *)
(*   initial  initial state and attributes of a review; order id and state *)
(*            of a report, beyond their last bounds                        *)
(*   memory   compact memory beyond the bare one, whole ("full") and with  *)
(*            one item per list ("last")                                   *)
(*   heads    [k |-> the newest k entries of recent activity]              *)
(*   details  [k |-> their details]                                        *)
(*   texts    [k |-> the newest k instructions]                            *)
(* Lists are cut from the old end, so a context says how many of the       *)
(* newest entries it keeps, and which of the other parts.  The context of  *)
(* a review also has a count of the instructions it omits (see             *)
(* OmittedInstructions), that of a report has none.  The count is shorter  *)
(* than any instruction; its digits belong to the frame.                   *)
(***************************************************************************)
EXTENDS Naturals

CONSTANTS
  ContextMaxChars,     \* SUPERVISOR_CONTEXT_MAX_CHARS, 4000
  ActivityLimit,       \* RECENT_ACTIVITY_CONTEXT_LIMIT, 10
  InstructionLimit,    \* INSTRUCTION_CONTEXT_LIMIT, 8
  ActivityFloor,       \* 3: recent activity is first cut down to this
  InstructionFloor     \* 2: the same for instructions

ASSUME BudgetAssumption ==
  /\ ContextMaxChars \in Nat
  /\ ActivityFloor \in Nat \ {0} /\ ActivityLimit \in Nat
  /\ InstructionFloor \in Nat \ {0} /\ InstructionLimit \in Nat \ {0}

Least(m, n) == IF m <= n THEN m ELSE n
Excess(m, n) == IF m <= n THEN 0 ELSE m - n

MemoryChars(ask, memory) == IF memory = "bare" THEN 0 ELSE ask.memory[memory]

(* encoded_size *)
Chars(ask, context) ==
  ask.frame
  + (IF context.base THEN ask.base ELSE 0)
  + (IF context.initial THEN ask.initial ELSE 0)
  + MemoryChars(ask, context.memory)
  + ask.heads[context.activity]
  + (IF context.details THEN ask.details[context.activity] ELSE 0)
  + ask.texts[context.instructions]

Fits(ask, context) == Chars(ask, context) <= ContextMaxChars

(* The lengths of a request of which a context may hold "activity" entries *)
(* and "instructions".                                                     *)
IsAsk(ask, activity, instructions) ==
  /\ {ask.frame, ask.base, ask.initial, ask.memory["full"], ask.memory["last"]} \subseteq Nat
  /\ \A k \in 0..activity : {ask.heads[k], ask.details[k]} \subseteq Nat
  /\ \A k \in 0..instructions : ask.texts[k] \in Nat

(* What is left of a request with "activities" entries and "known"         *)
(* instructions before anything is pruned.                                 *)
Built(activities, known) ==
  [activity     |-> Least(activities, ActivityLimit),
   instructions |-> Least(known, InstructionLimit),
   base |-> TRUE, initial |-> TRUE, details |-> TRUE, memory |-> "full"]

(* A loop that removes one entry after the other stops at the first number *)
(* of removals that is enough, or at the floor.                            *)
Removals(enough, most) ==
  IF enough = {} THEN most ELSE CHOOSE p \in enough : \A q \in enough : p <= q

DropActivity(ask, context) ==
  LET most   == Excess(context.activity, ActivityFloor)
      enough == {p \in 0..most : Fits(ask, [context EXCEPT !.activity = @ - p])}
  IN [context EXCEPT !.activity = @ - Removals(enough, most)]

(* The iterations of the loop over instructions, each of which pops one.   *)
PoppedInstructions(ask, context) ==
  LET most   == Excess(context.instructions, InstructionFloor)
      enough == {p \in 0..most : Fits(ask, [context EXCEPT !.instructions = @ - p])}
  IN Removals(enough, most)

(* Fault: the loop may remove the last instruction too.                    *)
DropAllInstructions(ask, context) ==
  LET most   == context.instructions
      enough == {p \in 0..most : Fits(ask, [context EXCEPT !.instructions = @ - p])}
  IN [context EXCEPT !.instructions = @ - Removals(enough, most)]

DropInstructions(ask, context) ==
  [context EXCEPT !.instructions = @ - PoppedInstructions(ask, context)]

(* A stage of the pruning is taken only when the context is too long.      *)
Unless(ask, context, pruned) == IF Fits(ask, context) THEN context ELSE pruned

(* The stages both contexts have in common.                                *)
Listed(ask, context) == DropInstructions(ask, DropActivity(ask, context))

NewestOnly(context) ==
  [context EXCEPT !.base = FALSE, !.activity = Least(@, 1), !.instructions = Least(@, 1)]

Barest(context) == [context EXCEPT !.memory = "bare", !.activity = 0]

(* omitted_instruction_count of a review: what the window left out, and    *)
(* one for each that its loop pops.  It is not brought up to date in the   *)
(* last resort.                                                            *)
OmittedInstructions(ask, built, known) ==
  Excess(known, InstructionLimit) + PoppedInstructions(ask, DropActivity(ask, built))

(* _fit_supervisor_context, with the stages of its last resort.            *)
Pruned(ask, context) ==
  LET listed  == Listed(ask, context)
      terse   == Unless(ask, listed, [listed EXCEPT !.details = FALSE])
      blank   == Unless(ask, terse, [terse EXCEPT !.initial = FALSE])
  IN Unless(ask, blank, [blank EXCEPT !.memory = "last"])

FitSupervisorContext(ask, context) ==
  LET pruned == Pruned(ask, context)
      newest == Unless(ask, pruned, NewestOnly(pruned))
  IN Unless(ask, newest, Barest(newest))

(* _fit_final_output_context *)
FitFinalOutputContext(ask, context) ==
  LET listed == Listed(ask, context)
      terse  == Unless(ask, listed, [listed EXCEPT !.details = FALSE, !.memory = "last"])
      newest == Unless(ask, terse, NewestOnly(terse))
  IN Unless(ask, newest, [Barest(newest) EXCEPT !.initial = FALSE])

(* The last test of both: SupervisorResponseInvalid when even this is too  *)
(* long.                                                                   *)
Refused(ask, context) == ~Fits(ask, context)

(* What a context promises of the one that was "built": it holds the       *)
(* newest instruction.  Unless the last resort was taken, no entry was     *)
(* dropped from its lists that the budget had room for.  It is refused     *)
(* only when the newest instruction has no room next to what is never      *)
(* dropped.                                                                *)
PrunedWell(ask, built, context) ==
  /\ built.instructions > 0 => context.instructions > 0
  /\ context.base =>
       /\ context.activity < built.activity =>
            ~Fits(ask, [built EXCEPT !.activity = context.activity + 1])
       /\ context.instructions < built.instructions =>
            ~Fits(ask, [built EXCEPT !.activity = context.activity,
                                     !.instructions = context.instructions + 1])
  /\ Refused(ask, context) =>
       ask.frame + ask.heads[0] + ask.texts[Least(built.instructions, 1)] > ContextMaxChars

(* What the context of a review promises of the instructions "known":      *)
(* unless the last resort was taken, it holds each or counts it as         *)
(* omitted.                                                                *)
Accounted(ask, built, context, known) ==
  context.base => context.instructions + OmittedInstructions(ask, built, known) = known
=============================================================================
