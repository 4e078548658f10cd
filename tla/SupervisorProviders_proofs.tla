--------------------- MODULE SupervisorProviders_proofs ---------------------
(***************************************************************************)
(* What SupervisorProviders promises, for every bound, every set of texts  *)
(* and all lengths: the contexts of the language model (ContextBudget),    *)
(* the bounded lists of memory, and what the rules remember of an          *)
(* operator's instructions.                                                *)
(*                                                                         *)
(* The loops of the source are recursive functions here. Induction over    *)
(* their index is by the least index at which a fact would fail (Climb).   *)
(***************************************************************************)
EXTENDS SupervisorProviders, WellFoundedInduction, SequenceTheorems, FiniteSetTheorems, TLAPS

Contexts(activity, instructions) ==
  [activity : 0..activity, instructions : 0..instructions,
   base : BOOLEAN, initial : BOOLEAN, details : BOOLEAN, memory : {"full", "last", "bare"}]

(* A non-empty set of natural numbers has a least one.                     *)
LEMMA LeastExists ==
  ASSUME NEW S \in SUBSET Nat, S # {}
  PROVE  \E p \in S : \A q \in S : p <= q
  <1>1. IsWellFoundedOn(OpToRel(<, Nat), Nat)
    BY NatLessThanWellFounded
  <1>2. PICK p \in S : \A q \in S : ~(<<q, p>> \in OpToRel(<, Nat))
    BY <1>1, WFMin
  <1>3. \A q \in S : ~(q < p)
    BY <1>2 DEF OpToRel
  <1> QED
    BY <1>3

(* A loop that pops until it is enough pops at most "most" entries, stops  *)
(* early only when it is enough, and popped no entry when it was enough.   *)
LEMMA RemovalsStop ==
  ASSUME NEW most \in Nat, NEW enough \in SUBSET (0..most)
  PROVE  /\ Removals(enough, most) \in 0..most
         /\ Removals(enough, most) \in enough \/ Removals(enough, most) = most
         /\ \A p \in 0..most : p < Removals(enough, most) => p \notin enough
  <1>1. CASE enough = {}
    BY <1>1 DEF Removals
  <1>2. CASE enough # {}
    <2>1. \E p \in enough : \A q \in enough : p <= q
      BY <1>2, LeastExists
    <2>2. /\ Removals(enough, most) \in enough
          /\ \A q \in enough : Removals(enough, most) <= q
      BY <1>2, <2>1 DEF Removals
    <2>3. Removals(enough, most) \in 0..most
      BY <2>2
    <2>4. ASSUME NEW p \in 0..most, p < Removals(enough, most)
          PROVE  p \notin enough
      <3> DEFINE r == Removals(enough, most)
      <3>1. r \in 0..most /\ \A q \in enough : r <= q
        BY <2>2, <2>3
      <3> HIDE DEF r
      <3>2. p \in enough => r <= p
        BY <3>1
      <3>3. ~(r <= p)
        BY <2>4, <3>1 DEF r
      <3> QED
        BY <3>2, <3>3
    <2> QED
      BY <2>2, <2>3, <2>4
  <1> QED
    BY <1>1, <1>2

-----------------------------------------------------------------------------
(* The two loops.                                                          *)

(* Activity is dropped from its oldest entry on, and none that had room.   *)
LEMMA DropActivityStops ==
  ASSUME NEW a \in Nat, NEW i \in Nat, NEW ask, NEW c \in Contexts(a, i)
  PROVE  LET r == DropActivity(ask, c) IN
         /\ r \in Contexts(a, i)
         /\ r = [c EXCEPT !.activity = r.activity]
         /\ r.activity <= c.activity
         /\ r.activity < c.activity => ~Fits(ask, [c EXCEPT !.activity = r.activity + 1])
  <1> DEFINE most   == Excess(c.activity, ActivityFloor)
             enough == {p \in 0..most : Fits(ask, [c EXCEPT !.activity = @ - p])}
             drop   == Removals(enough, most)
             r      == DropActivity(ask, c)
  <1>1. c.activity \in 0..a /\ most \in 0..c.activity
    BY BudgetAssumption DEF Excess, Contexts
  <1>2. drop \in 0..most /\ \A p \in 0..most : p < drop => p \notin enough
    <2> HIDE DEF most
    <2>1. most \in Nat
      BY <1>1
    <2>2. enough \in SUBSET (0..most)
      OBVIOUS
    <2> HIDE DEF enough
    <2> QED
      BY <2>1, <2>2, RemovalsStop
  <1>3. r = [c EXCEPT !.activity = c.activity - drop]
    BY DEF DropActivity
  <1> HIDE DEF drop, r, most
  <1>4. c.activity - drop \in 0..c.activity
    BY <1>1, <1>2
  <1>5. r \in Contexts(a, i) /\ r.activity = c.activity - drop
    BY <1>1, <1>3, <1>4 DEF Contexts
  <1>6. r.activity < c.activity => ~Fits(ask, [c EXCEPT !.activity = r.activity + 1])
    <2>1. SUFFICES ASSUME r.activity < c.activity
                   PROVE  ~Fits(ask, [c EXCEPT !.activity = r.activity + 1])
      OBVIOUS
    <2>2. drop - 1 \in 0..most /\ drop - 1 < drop
      BY <1>1, <1>2, <1>5, <2>1
    <2>3. drop - 1 \notin enough
      BY <1>2, <2>2
    <2>4. c.activity - (drop - 1) = r.activity + 1
      BY <1>1, <1>2, <1>5, <2>2
    <2> QED
      BY <2>2, <2>3, <2>4
  <1>7. r = [c EXCEPT !.activity = r.activity]
    BY <1>3, <1>5
  <1>8. r.activity <= c.activity
    BY <1>1, <1>4, <1>5
  <1> QED
    BY <1>5, <1>6, <1>7, <1>8 DEF r

(* The loop over instructions pops none that had room, and not the last.   *)
LEMMA PoppedInstructionsStop ==
  ASSUME NEW a \in Nat, NEW i \in Nat, NEW ask, NEW c \in Contexts(a, i)
  PROVE  LET p == PoppedInstructions(ask, c) IN
         /\ p \in 0..c.instructions
         /\ c.instructions > 0 => p < c.instructions
         /\ p > 0 => ~Fits(ask, [c EXCEPT !.instructions = c.instructions - (p - 1)])
  <1> DEFINE most   == Excess(c.instructions, InstructionFloor)
             enough == {p \in 0..most : Fits(ask, [c EXCEPT !.instructions = @ - p])}
             drop   == PoppedInstructions(ask, c)
  <1>1. /\ c.instructions \in 0..i /\ most \in 0..c.instructions
        /\ c.instructions > 0 => most < c.instructions
    BY BudgetAssumption DEF Excess, Contexts
  <1>2. drop \in 0..most /\ \A p \in 0..most : p < drop => p \notin enough
    <2>1. drop = Removals(enough, most)
      BY DEF PoppedInstructions
    <2> HIDE DEF most, drop
    <2>2. most \in Nat
      BY <1>1
    <2>3. enough \in SUBSET (0..most)
      OBVIOUS
    <2> HIDE DEF enough
    <2> QED
      BY <2>1, <2>2, <2>3, RemovalsStop
  <1> HIDE DEF drop, most
  <1>3. drop > 0 => ~Fits(ask, [c EXCEPT !.instructions = c.instructions - (drop - 1)])
    <2>1. SUFFICES ASSUME drop > 0
                   PROVE  ~Fits(ask, [c EXCEPT !.instructions = c.instructions - (drop - 1)])
      OBVIOUS
    <2>2. drop - 1 \in 0..most /\ drop - 1 < drop
      BY <1>1, <1>2, <2>1
    <2>3. drop - 1 \notin enough
      BY <1>2, <2>2
    <2> QED
      BY <2>2, <2>3
  <1> QED
    BY <1>1, <1>2, <1>3 DEF drop

(* So instructions are dropped from the oldest one on, none that had room. *)
LEMMA DropInstructionsStops ==
  ASSUME NEW a \in Nat, NEW i \in Nat, NEW ask, NEW c \in Contexts(a, i)
  PROVE  LET r == DropInstructions(ask, c) IN
         /\ r \in Contexts(a, i)
         /\ r = [c EXCEPT !.instructions = r.instructions]
         /\ r.instructions <= c.instructions
         /\ c.instructions > 0 => r.instructions > 0
         /\ r.instructions < c.instructions =>
              ~Fits(ask, [c EXCEPT !.instructions = r.instructions + 1])
  <1> DEFINE drop == PoppedInstructions(ask, c)
             r    == DropInstructions(ask, c)
  <1>1. /\ drop \in 0..c.instructions
        /\ c.instructions > 0 => drop < c.instructions
        /\ drop > 0 => ~Fits(ask, [c EXCEPT !.instructions = c.instructions - (drop - 1)])
    BY PoppedInstructionsStop
  <1>2. r = [c EXCEPT !.instructions = c.instructions - drop]
    BY DEF DropInstructions
  <1> HIDE DEF drop, r
  <1>3. c.instructions \in 0..i /\ c.instructions - drop \in 0..c.instructions
    BY <1>1 DEF Contexts
  <1>4. r \in Contexts(a, i) /\ r.instructions = c.instructions - drop
    BY <1>2, <1>3 DEF Contexts
  <1>5. r.instructions < c.instructions =>
          ~Fits(ask, [c EXCEPT !.instructions = r.instructions + 1])
    <2>1. r.instructions < c.instructions => drop > 0
      BY <1>1, <1>3, <1>4
    <2>2. c.instructions - (drop - 1) = r.instructions + 1
      BY <1>1, <1>3, <1>4
    <2> QED
      BY <1>1, <2>1, <2>2
  <1>6. r = [c EXCEPT !.instructions = r.instructions]
    BY <1>2, <1>4
  <1>7. r.instructions <= c.instructions /\ (c.instructions > 0 => r.instructions > 0)
    BY <1>1, <1>3, <1>4
  <1> QED
    BY <1>4, <1>5, <1>6, <1>7 DEF r

-----------------------------------------------------------------------------
(* What both contexts have in common: the parts of the lists.              *)

Whole(c) == c.base /\ c.initial /\ c.details /\ c.memory = "full"

(* Both loops, one after the other.                                        *)
LEMMA ListedWell ==
  ASSUME NEW a \in Nat, NEW i \in Nat, NEW ask, NEW c \in Contexts(a, i), Whole(c)
  PROVE  LET r == Listed(ask, c) IN
         /\ r \in Contexts(a, i) /\ Whole(r)
         /\ c.instructions > 0 => r.instructions > 0
         /\ r.instructions <= c.instructions
         /\ r.activity < c.activity => ~Fits(ask, [c EXCEPT !.activity = r.activity + 1])
         /\ r.instructions < c.instructions =>
              ~Fits(ask, [c EXCEPT !.activity = r.activity,
                                   !.instructions = r.instructions + 1])
  <1> DEFINE d == DropActivity(ask, c)
             r == DropInstructions(ask, d)
  <1>1. /\ d \in Contexts(a, i) /\ d = [c EXCEPT !.activity = d.activity]
        /\ d.activity < c.activity => ~Fits(ask, [c EXCEPT !.activity = d.activity + 1])
    BY DropActivityStops
  <1> HIDE DEF d
  <1>2. /\ r \in Contexts(a, i)
        /\ r = [d EXCEPT !.instructions = r.instructions]
        /\ r.instructions <= d.instructions
        /\ d.instructions > 0 => r.instructions > 0
        /\ r.instructions < d.instructions =>
             ~Fits(ask, [d EXCEPT !.instructions = r.instructions + 1])
    BY <1>1, DropInstructionsStops
  <1> HIDE DEF r
  <1>3. /\ d.instructions = c.instructions
        /\ d.base = c.base /\ d.initial = c.initial /\ d.details = c.details
        /\ d.memory = c.memory
    BY <1>1 DEF Contexts
  <1>4. /\ r.activity = d.activity /\ r.base = d.base /\ r.initial = d.initial
        /\ r.details = d.details /\ r.memory = d.memory
    BY <1>1, <1>2 DEF Contexts
  <1>5. [d EXCEPT !.instructions = r.instructions + 1]
          = [c EXCEPT !.activity = r.activity, !.instructions = r.instructions + 1]
    BY <1>1, <1>4 DEF Contexts
  <1>6. Whole(r)
    BY <1>3, <1>4 DEF Whole
  <1>7. r = Listed(ask, c)
    BY DEF Listed, r, d
  <1>8. r.activity < c.activity => ~Fits(ask, [c EXCEPT !.activity = r.activity + 1])
    BY <1>1, <1>4
  <1> QED
    BY <1>2, <1>3, <1>5, <1>6, <1>7, <1>8

(* What a review counts as popped is what its lists have lost.             *)
LEMMA PoppedAreCounted ==
  ASSUME NEW a \in Nat, NEW i \in Nat, NEW ask, NEW c \in Contexts(a, i)
  PROVE  LET p == PoppedInstructions(ask, DropActivity(ask, c)) IN
         p \in Nat /\ Listed(ask, c).instructions + p = c.instructions
  <1> DEFINE d == DropActivity(ask, c)
             p == PoppedInstructions(ask, d)
             r == Listed(ask, c)
  <1>1. /\ d \in Contexts(a, i) /\ d = [c EXCEPT !.activity = d.activity]
        /\ d.activity < c.activity => ~Fits(ask, [c EXCEPT !.activity = d.activity + 1])
    BY DropActivityStops
  <1> HIDE DEF d
  <1>2. p \in 0..d.instructions
    BY <1>1, PoppedInstructionsStop
  <1>3. r = [d EXCEPT !.instructions = d.instructions - p]
    BY DEF d, Listed, DropInstructions
  <1> HIDE DEF p, r
  <1>4. r.instructions = d.instructions - p /\ d.instructions \in Nat
    BY <1>1, <1>3 DEF Contexts
  <1>5. d.instructions = c.instructions
    BY <1>1 DEF Contexts
  <1> QED
    BY <1>2, <1>4, <1>5 DEF p, r, d

-----------------------------------------------------------------------------
(* The barest context, and when it is too long.                            *)

(* A context of nothing but instructions is too long for these only.       *)
LEMMA BarestChars ==
  ASSUME NEW a \in Nat, NEW i \in Nat, NEW ask, IsAsk(ask, a, i),
         NEW c \in Contexts(a, i),
         ~c.base, ~c.initial, ~c.details, c.memory = "bare", c.activity = 0, ~Fits(ask, c)
  PROVE  ask.frame + ask.heads[0] + ask.texts[c.instructions] > ContextMaxChars
  <1>1. ask.frame \in Nat /\ ask.heads[0] \in Nat /\ ask.texts[c.instructions] \in Nat
    BY DEF IsAsk, Contexts
  <1>2. Chars(ask, c) = ask.frame + ask.heads[0] + ask.texts[c.instructions]
    BY <1>1 DEF Chars, MemoryChars
  <1>3. ~(Chars(ask, c) <= ContextMaxChars)
    BY DEF Fits
  <1> QED
    BY <1>1, <1>2, <1>3, BudgetAssumption

(* The last resort keeps the newest instruction only.                      *)
LEMMA NewestOnlyWell ==
  ASSUME NEW a \in Nat, NEW i \in Nat, NEW c \in Contexts(a, i)
  PROVE  LET r == NewestOnly(c) IN
         /\ r \in Contexts(a, i)
         /\ ~r.base /\ r.instructions = Least(c.instructions, 1)
         /\ r.initial = c.initial /\ r.details = c.details
  <1>1. Least(c.activity, 1) \in 0..a /\ Least(c.instructions, 1) \in 0..i
    BY DEF Least, Contexts
  <1> QED
    BY <1>1 DEF NewestOnly, Contexts

(* The barest context keeps its instructions.                              *)
LEMMA BarestWell ==
  ASSUME NEW a \in Nat, NEW i \in Nat, NEW c \in Contexts(a, i)
  PROVE  LET r == Barest(c) IN
         /\ r \in Contexts(a, i) /\ r.memory = "bare" /\ r.activity = 0
         /\ r.base = c.base /\ r.initial = c.initial /\ r.details = c.details
         /\ r.instructions = c.instructions
  <1>1. 0 \in 0..a
    OBVIOUS
  <1> QED
    BY <1>1 DEF Barest, Contexts

(* A context is either the one with pruned lists and perhaps fewer other   *)
(* parts, or one of the last resort, the barest of them when it is too     *)
(* long.                                                                   *)
ListsPruned(ask, listed, c) ==
  /\ Fits(ask, c) /\ c.base /\ c.activity = listed.activity
  /\ c.instructions = listed.instructions

LastResort(ask, listed, c) ==
  /\ ~c.base /\ c.instructions = Least(listed.instructions, 1)
  /\ ~Fits(ask, c) => ~c.initial /\ ~c.details /\ c.memory = "bare" /\ c.activity = 0

(* Either way the context is pruned well.                                  *)
LEMMA WellPruned ==
  ASSUME NEW a \in Nat, NEW i \in Nat, NEW ask, IsAsk(ask, a, i),
         NEW built \in Contexts(a, i), Whole(built), NEW c \in Contexts(a, i),
         ListsPruned(ask, Listed(ask, built), c) \/ LastResort(ask, Listed(ask, built), c)
  PROVE  PrunedWell(ask, built, c)
  <1> DEFINE listed == Listed(ask, built)
  <1>1. /\ listed \in Contexts(a, i)
        /\ built.instructions > 0 => listed.instructions > 0
        /\ listed.instructions <= built.instructions
    <2>1. listed \in Contexts(a, i)
      BY ListedWell
    <2>2. built.instructions > 0 => listed.instructions > 0
      BY ListedWell
    <2>3. listed.instructions <= built.instructions
      BY ListedWell
    <2> QED
      BY <2>1, <2>2, <2>3
  <1>6. listed.activity < built.activity =>
          ~Fits(ask, [built EXCEPT !.activity = listed.activity + 1])
    BY ListedWell
  <1>7. listed.instructions < built.instructions =>
          ~Fits(ask, [built EXCEPT !.activity = listed.activity,
                                   !.instructions = listed.instructions + 1])
    BY ListedWell
  <1>2. listed.instructions \in 0..i /\ built.instructions \in 0..i
    BY <1>1 DEF Contexts
  <1>3. Least(listed.instructions, 1) = Least(built.instructions, 1)
    BY <1>1, <1>2 DEF Least
  <1> HIDE DEF listed
  <1>4. CASE ListsPruned(ask, listed, c)
    BY <1>1, <1>4, <1>6, <1>7 DEF ListsPruned, PrunedWell, Refused
  <1>5. CASE LastResort(ask, listed, c)
    <2> USE DEF LastResort
    <2>1. built.instructions > 0 => c.instructions > 0
      BY <1>1, <1>2, <1>5 DEF Least
    <2>2. ~Fits(ask, c) => ask.frame + ask.heads[0] + ask.texts[c.instructions] > ContextMaxChars
      BY <1>5, BarestChars
    <2> QED
      BY <1>3, <1>5, <2>1, <2>2 DEF PrunedWell, Refused
  <1> QED
    BY <1>4, <1>5 DEF listed

-----------------------------------------------------------------------------
(* The stages between the lists and the last resort of a review.           *)

(* The stages give up details, the initial state and older memory, in this *)
(* order, and leave the lists.                                             *)
LEMMA PrunedStages ==
  ASSUME NEW a \in Nat, NEW i \in Nat, NEW ask, NEW built \in Contexts(a, i), Whole(built)
  PROVE  LET listed == Listed(ask, built)
             p      == Pruned(ask, built) IN
         /\ p \in Contexts(a, i) /\ p.base /\ p.activity = listed.activity
         /\ p.instructions = listed.instructions
         /\ ~Fits(ask, p) => ~p.initial /\ ~p.details
  <1> DEFINE listed == Listed(ask, built)
             terse  == Unless(ask, listed, [listed EXCEPT !.details = FALSE])
             blank  == Unless(ask, terse, [terse EXCEPT !.initial = FALSE])
             p      == Unless(ask, blank, [blank EXCEPT !.memory = "last"])
             Same(c) == /\ c \in Contexts(a, i) /\ c.base /\ c.activity = listed.activity
                        /\ c.instructions = listed.instructions
  <1>1. Same(listed)
    BY ListedWell DEF Whole
  <1> HIDE DEF listed
  <1>2. Same(terse) /\ (~Fits(ask, terse) => ~terse.details)
    <2>1. CASE Fits(ask, listed)
      BY <1>1, <2>1 DEF Unless
    <2>2. CASE ~Fits(ask, listed)
      <3>1. terse = [listed EXCEPT !.details = FALSE]
        BY <2>2 DEF Unless
      <3> QED
        BY <1>1, <3>1 DEF Contexts
    <2> QED
      BY <2>1, <2>2
  <1> HIDE DEF terse
  <1>3. Same(blank) /\ (~Fits(ask, blank) => ~blank.details /\ ~blank.initial)
    <2>1. CASE Fits(ask, terse)
      BY <1>2, <2>1 DEF Unless
    <2>2. CASE ~Fits(ask, terse)
      <3>1. blank = [terse EXCEPT !.initial = FALSE]
        BY <2>2 DEF Unless
      <3> QED
        BY <1>2, <2>2, <3>1 DEF Contexts
    <2> QED
      BY <2>1, <2>2
  <1> HIDE DEF blank
  <1>4. Same(p) /\ (~Fits(ask, p) => ~p.details /\ ~p.initial)
    <2>1. CASE Fits(ask, blank)
      BY <1>3, <2>1 DEF Unless
    <2>2. CASE ~Fits(ask, blank)
      <3>1. p = [blank EXCEPT !.memory = "last"]
        BY <2>2 DEF Unless
      <3> QED
        BY <1>3, <2>2, <3>1 DEF Contexts
    <2> QED
      BY <2>1, <2>2
  <1>5. p = Pruned(ask, built)
    BY DEF Pruned, blank, terse, listed
  <1> QED
    BY <1>4, <1>5 DEF listed

-----------------------------------------------------------------------------

(* The context of a review, from any context with all its parts.           *)
LEMMA SupervisorContextStages ==
  ASSUME NEW a \in Nat, NEW i \in Nat, NEW ask, NEW built \in Contexts(a, i), Whole(built)
  PROVE  LET c == FitSupervisorContext(ask, built) IN
         /\ c \in Contexts(a, i)
         /\ ListsPruned(ask, Listed(ask, built), c) \/ LastResort(ask, Listed(ask, built), c)
  <1> DEFINE listed == Listed(ask, built)
             p      == Pruned(ask, built)
             n      == Unless(ask, p, NewestOnly(p))
             c      == Unless(ask, n, Barest(n))
  <1>1. /\ p \in Contexts(a, i) /\ p.base /\ p.activity = listed.activity
        /\ p.instructions = listed.instructions
        /\ ~Fits(ask, p) => ~p.initial /\ ~p.details
    BY PrunedStages
  <1>2. c = FitSupervisorContext(ask, built)
    BY DEF FitSupervisorContext
  <1> HIDE DEF p, listed
  <1>3. CASE Fits(ask, p)
    <2>1. n = p /\ c = p
      BY <1>3 DEF Unless
    <2>2. ListsPruned(ask, listed, c) /\ c \in Contexts(a, i)
      BY <1>1, <1>3, <2>1 DEF ListsPruned
    <2> QED
      BY <1>2, <2>2 DEF listed
  <1>4. CASE ~Fits(ask, p)
    <2>1. n = NewestOnly(p)
      BY <1>4 DEF Unless
    <2>2. /\ n \in Contexts(a, i) /\ ~n.base /\ ~n.initial /\ ~n.details
          /\ n.instructions = Least(listed.instructions, 1)
      BY <1>1, <1>4, <2>1, NewestOnlyWell
    <2> HIDE DEF n
    <2>3. CASE Fits(ask, n)
      <3>1. c = n
        BY <2>3 DEF Unless
      <3>2. LastResort(ask, listed, c) /\ c \in Contexts(a, i)
        BY <2>2, <2>3, <3>1 DEF LastResort
      <3> QED
        BY <1>2, <3>2 DEF listed
    <2>4. CASE ~Fits(ask, n)
      <3>1. c = Barest(n)
        BY <2>4 DEF Unless
      <3>2. LastResort(ask, listed, c) /\ c \in Contexts(a, i)
        BY <2>2, <3>1, BarestWell DEF LastResort
      <3> QED
        BY <1>2, <3>2 DEF listed
    <2> QED
      BY <2>3, <2>4
  <1> QED
    BY <1>3, <1>4

(* The same of the context of a report.                                    *)
LEMMA FinalOutputContextPrunedWell ==
  ASSUME NEW a \in Nat, NEW i \in Nat, NEW ask, IsAsk(ask, a, i),
         NEW built \in Contexts(a, i), Whole(built)
  PROVE  PrunedWell(ask, built, FitFinalOutputContext(ask, built))
  <1> DEFINE listed == Listed(ask, built)
             t      == Unless(ask, listed, [listed EXCEPT !.details = FALSE, !.memory = "last"])
             n      == Unless(ask, t, NewestOnly(t))
             c      == Unless(ask, n, [Barest(n) EXCEPT !.initial = FALSE])
  <1>1. listed \in Contexts(a, i) /\ listed.base
    BY ListedWell DEF Whole
  <1>2. c = FitFinalOutputContext(ask, built)
    BY DEF FitFinalOutputContext
  <1> HIDE DEF listed
  <1>3. /\ t \in Contexts(a, i) /\ t.base /\ t.activity = listed.activity
        /\ t.instructions = listed.instructions
        /\ ~Fits(ask, t) => ~t.details
    <2>1. CASE Fits(ask, listed)
      BY <1>1, <2>1 DEF Unless
    <2>2. CASE ~Fits(ask, listed)
      <3>1. t = [listed EXCEPT !.details = FALSE, !.memory = "last"]
        BY <2>2 DEF Unless
      <3> QED
        BY <1>1, <3>1 DEF Contexts
    <2> QED
      BY <2>1, <2>2
  <1> HIDE DEF t
  <1>4. CASE Fits(ask, t)
    <2>1. n = t /\ c = t
      BY <1>4 DEF Unless
    <2>2. ListsPruned(ask, listed, c) /\ c \in Contexts(a, i)
      BY <1>3, <1>4, <2>1 DEF ListsPruned
    <2> QED
      BY <1>2, <2>2, WellPruned DEF listed
  <1>5. CASE ~Fits(ask, t)
    <2>1. n = NewestOnly(t)
      BY <1>5 DEF Unless
    <2>2. /\ n \in Contexts(a, i) /\ ~n.base /\ ~n.details
          /\ n.instructions = Least(listed.instructions, 1)
      BY <1>3, <1>5, <2>1, NewestOnlyWell
    <2> HIDE DEF n
    <2>3. CASE Fits(ask, n)
      <3>1. c = n
        BY <2>3 DEF Unless
      <3>2. LastResort(ask, listed, c) /\ c \in Contexts(a, i)
        BY <2>2, <2>3, <3>1 DEF LastResort
      <3> QED
        BY <1>2, <3>2, WellPruned DEF listed
    <2>4. CASE ~Fits(ask, n)
      <3> DEFINE b == Barest(n)
      <3>1. /\ b \in Contexts(a, i) /\ b.memory = "bare" /\ b.activity = 0
            /\ ~b.base /\ ~b.details /\ b.instructions = Least(listed.instructions, 1)
        BY <2>2, BarestWell
      <3>2. c = [b EXCEPT !.initial = FALSE]
        BY <2>4 DEF Unless
      <3> HIDE DEF b, c
      <3>3. /\ c \in Contexts(a, i) /\ c.memory = "bare" /\ c.activity = 0 /\ ~c.initial
            /\ ~c.base /\ ~c.details /\ c.instructions = Least(listed.instructions, 1)
        BY <3>1, <3>2 DEF Contexts
      <3>4. LastResort(ask, listed, c)
        BY <3>3 DEF LastResort
      <3> QED
        BY <1>2, <3>3, <3>4, WellPruned DEF listed, c
    <2> QED
      BY <2>3, <2>4
  <1> QED
    BY <1>4, <1>5

-----------------------------------------------------------------------------

(* A context is built whole, of all that is known or a full window.        *)
LEMMA BuiltWhole ==
  ASSUME NEW activities \in Nat, NEW known \in Nat
  PROVE  LET built == Built(activities, known) IN
         /\ built.activity \in Nat /\ built.instructions \in Nat
         /\ built \in Contexts(built.activity, built.instructions)
         /\ Whole(built)
         /\ Excess(known, InstructionLimit) \in Nat
         /\ built.instructions + Excess(known, InstructionLimit) = known
  <1> DEFINE n == Least(activities, ActivityLimit)
             k == Least(known, InstructionLimit)
             o == Excess(known, InstructionLimit)
  <1>1. n \in Nat /\ k \in Nat /\ o \in Nat /\ k + o = known
    BY BudgetAssumption DEF Least, Excess
  <1>2. Built(activities, known) =
          [activity |-> n, instructions |-> k,
           base |-> TRUE, initial |-> TRUE, details |-> TRUE, memory |-> "full"]
    BY DEF Built
  <1> HIDE DEF n, k, o
  <1>3. /\ Built(activities, known).activity = n /\ Built(activities, known).instructions = k
        /\ Built(activities, known) \in Contexts(n, k) /\ Whole(Built(activities, known))
    BY <1>1, <1>2 DEF Contexts, Whole
  <1> QED
    BY <1>1, <1>3 DEF o

(* For every budget, every bound of the windows and all lengths: the       *)
(* context of a review (_fit_supervisor_context) holds the newest          *)
(* instruction, accounts for all instructions until the last resort, drops *)
(* nothing that had room, and is refused only when that instruction does   *)
(* not fit.                                                                *)
THEOREM ReviewContextSound ==
  ASSUME NEW activities \in Nat, NEW known \in Nat, NEW ask,
         IsAsk(ask, Built(activities, known).activity, Built(activities, known).instructions)
  PROVE  LET built   == Built(activities, known)
             context == FitSupervisorContext(ask, built)
         IN PrunedWell(ask, built, context) /\ Accounted(ask, built, context, known)
  <1> DEFINE built   == Built(activities, known)
             context == FitSupervisorContext(ask, built)
             listed  == Listed(ask, built)
             popped  == PoppedInstructions(ask, DropActivity(ask, built))
             rest    == Excess(known, InstructionLimit)
  <1>1. /\ built.activity \in Nat /\ built.instructions \in Nat
        /\ built \in Contexts(built.activity, built.instructions) /\ Whole(built)
        /\ rest \in Nat /\ built.instructions + rest = known
    BY BuiltWhole
  <1> HIDE DEF built, rest
  <1>2. IsAsk(ask, built.activity, built.instructions)
    BY DEF built
  <1>3. /\ context \in Contexts(built.activity, built.instructions)
        /\ ListsPruned(ask, listed, context) \/ LastResort(ask, listed, context)
    BY <1>1, SupervisorContextStages
  <1>4. PrunedWell(ask, built, context)
    BY <1>1, <1>2, <1>3, WellPruned
  <1>5. Accounted(ask, built, context, known)
    <2>1. /\ listed \in Contexts(built.activity, built.instructions)
          /\ popped \in Nat /\ listed.instructions + popped = built.instructions
      <3>1. listed \in Contexts(built.activity, built.instructions)
        BY <1>1, ListedWell
      <3>2. popped \in Nat /\ listed.instructions + popped = built.instructions
        BY <1>1, PoppedAreCounted
      <3> QED
        BY <3>1, <3>2
    <2>2. listed.instructions \in Nat
      BY <1>1, <2>1 DEF Contexts
    <2> HIDE DEF listed, popped, context
    <2>3. context.base => context.instructions = listed.instructions
      BY <1>3 DEF ListsPruned, LastResort
    <2>4. listed.instructions + (rest + popped) = known
      BY <1>1, <2>1, <2>2
    <2>5. OmittedInstructions(ask, built, known) = rest + popped
      BY DEF OmittedInstructions, popped, rest
    <2> QED
      BY <2>3, <2>4, <2>5 DEF Accounted
  <1> QED
    BY <1>4, <1>5 DEF built

(* The context of the final report (_fit_final_output_context), for every  *)
(* budget and all lengths: it holds the newest instruction, drops nothing  *)
(* that had room until its last resort, and is refused only when that      *)
(* instruction does not fit.  It does not say how many it omits.           *)
THEOREM ReportContextSound ==
  ASSUME NEW activities \in Nat, NEW known \in Nat, NEW ask,
         IsAsk(ask, Built(activities, known).activity, Built(activities, known).instructions)
  PROVE  LET built == Built(activities, known)
         IN PrunedWell(ask, built, FitFinalOutputContext(ask, built))
  <1> DEFINE built == Built(activities, known)
  <1>1. /\ built.activity \in Nat /\ built.instructions \in Nat
        /\ built \in Contexts(built.activity, built.instructions) /\ Whole(built)
    BY BuiltWhole
  <1> HIDE DEF built
  <1>2. IsAsk(ask, built.activity, built.instructions)
    BY DEF built
  <1>3. PrunedWell(ask, built, FitFinalOutputContext(ask, built))
    BY <1>1, <1>2, FinalOutputContextPrunedWell
  <1> QED
    BY <1>3 DEF built

-----------------------------------------------------------------------------
(* Loops.                                                                  *)

(* Induction over 0..n, for a set.                                         *)
LEMMA Climb ==
  ASSUME NEW n \in Nat, NEW S, 0 \in S, \A i \in 1..n : i - 1 \in S => i \in S
  PROVE  0..n \subseteq S
  <1> DEFINE Missing == (0..n) \ S
  <1> SUFFICES ASSUME Missing # {} PROVE FALSE
    OBVIOUS
  <1>1. PICK m \in Missing : \A k \in Missing : m <= k
    <2>1. Missing \in SUBSET Nat
      OBVIOUS
    <2> HIDE DEF Missing
    <2> QED
      BY <2>1, LeastExists
  <1>2. m \in 1..n
    OBVIOUS
  <1>3. m - 1 \in Missing
    BY <1>2
  <1> QED
    BY <1>1, <1>2, <1>3

(* A loop over 1..n has a run: the function of its values exists.          *)
IsLoop(n, T, base, step) == n \in Nat /\ base \in T /\ step \in [1..n -> [T -> T]]
HasRun(n, T, base, step) ==
  \E f \in [0..n -> T] : f[0] = base /\ \A i \in 1..n : f[i] = step[i][f[i - 1]]

(* The run of any such loop, which its definition as a recursive function  *)
(* needs to mean anything.                                                 *)
LEMMA LoopRuns ==
  ASSUME NEW n, NEW T, NEW base, NEW step, IsLoop(n, T, base, step)
  PROVE  HasRun(n, T, base, step)
  <1>0. n \in Nat /\ base \in T /\ step \in [1..n -> [T -> T]]
    BY DEF IsLoop
  <1> DEFINE Run(m, f) == f[0] = base /\ \A i \in 1..m : f[i] = step[i][f[i - 1]]
             S == {m \in 0..n : \E f \in [0..m -> T] : Run(m, f)}
  <1>1. 0 \in S
    <2> DEFINE g == [i \in 0..0 |-> base]
    <2>1. g \in [0..0 -> T] /\ Run(0, g)
      BY <1>0
    <2> HIDE DEF g, Run
    <2> QED
      BY <1>0, <2>1
  <1>2. ASSUME NEW m \in 1..n, m - 1 \in S PROVE m \in S
    <2>1. PICK f \in [0..(m - 1) -> T] : Run(m - 1, f)
      BY <1>2
    <2> DEFINE g == [i \in 0..m |-> IF i = m THEN step[m][f[m - 1]] ELSE f[i]]
    <2>2. g \in [0..m -> T]
      <3>1. f[m - 1] \in T
        BY <1>0
      <3>2. step[m][f[m - 1]] \in T
        BY <1>0, <3>1
      <3> QED
        BY <3>2
    <2>3. ASSUME NEW i \in 1..m PROVE g[i] = step[i][g[i - 1]]
      <3>1. CASE i = m
        BY <1>0, <3>1
      <3>2. CASE i # m
        <4>1. i \in 1..(m - 1) /\ g[i] = f[i] /\ g[i - 1] = f[i - 1]
          BY <1>0, <3>2
        <4>2. f[i] = step[i][f[i - 1]]
          BY <2>1, <4>1
        <4> QED
          BY <4>1, <4>2
      <3> QED
        BY <3>1, <3>2
    <2>4. Run(m, g)
      BY <1>0, <2>1, <2>3
    <2> HIDE DEF g, Run
    <2> QED
      BY <2>2, <2>4
  <1>3. 0..n \subseteq S
    <2> HIDE DEF S
    <2> QED
      BY <1>0, <1>1, <1>2, Climb
  <1> QED
    BY <1>0, <1>3 DEF HasRun

(* The loop of Once, and what it keeps.                                    *)
KeepsOnce(kept, values, wanted) ==
  /\ kept[0] = <<>>
  /\ \A i \in 1..Len(values) :
       kept[i] = IF values[i] \in wanted /\ ~Contains(kept[i - 1], values[i])
                 THEN Append(kept[i - 1], values[i]) ELSE kept[i - 1]

(* The run of the loop of Once.                                            *)
LEMMA OnceLoop ==
  ASSUME NEW V, NEW values \in Seq(V), NEW wanted
  PROVE  \E kept \in [0..Len(values) -> Seq(V)] :
           Once(values, wanted) = kept[Len(values)] /\ KeepsOnce(kept, values, wanted)
  <1> DEFINE n == Len(values)
             After(i, before) == IF values[i] \in wanted /\ ~Contains(before, values[i])
                                 THEN Append(before, values[i]) ELSE before
             step == [i \in 1..n |-> [before \in Seq(V) |-> After(i, before)]]
             IsKept(f) == f = [i \in 0..n |-> IF i = 0 THEN <<>> ELSE After(i, f[i - 1])]
             kept == CHOOSE f : IsKept(f)
  <1>1. n \in Nat /\ <<>> \in Seq(V)
    OBVIOUS
  <1>2. step \in [1..n -> [Seq(V) -> Seq(V)]]
    OBVIOUS
  <1>3. PICK f \in [0..n -> Seq(V)] : f[0] = <<>> /\ \A i \in 1..n : f[i] = step[i][f[i - 1]]
    <2> DEFINE T == Seq(V)
               base == <<>>
    <2>1. IsLoop(n, T, base, step)
      BY <1>1, <1>2 DEF IsLoop
    <2> HIDE DEF step, n, T, base
    <2>2. HasRun(n, T, base, step)
      BY <2>1, LoopRuns
    <2> QED
      BY <2>2 DEF T, base, HasRun
  <1>4. \A i \in 1..n : \A before \in Seq(V) : step[i][before] = After(i, before)
    OBVIOUS
  <1>5. IsKept(f)
    <2>1. ASSUME NEW i \in 0..n
          PROVE  f[i] = IF i = 0 THEN <<>> ELSE After(i, f[i - 1])
      <3>1. i # 0 => i \in 1..n /\ f[i - 1] \in Seq(V)
        BY <1>1
      <3> HIDE DEF step, After, n
      <3> QED
        BY <1>3, <1>4, <3>1
    <2> HIDE DEF step, After, n
    <2> QED
      BY <1>1, <2>1
  <1>6. IsKept(kept)
    <2> HIDE DEF IsKept
    <2> QED
      BY <1>5
  <1>7. Once(values, wanted) = kept[n]
    BY DEF Once
  <1> HIDE DEF kept
  <1>8. kept[0] = <<>> /\ \A i \in 1..n : kept[i] = After(i, kept[i - 1])
    <2> HIDE DEF After, n
    <2> QED
      BY <1>1, <1>6
  <1>9. \A i \in 0..n : kept[i] \in Seq(V)
    <2> DEFINE S == {i \in 0..n : kept[i] \in Seq(V)}
    <2>1. 0 \in S
      <3> HIDE DEF After, n
      <3>1. kept[0] \in Seq(V)
        BY <1>8
      <3>2. 0 \in 0..n
        BY <1>1
      <3> QED
        BY <3>1, <3>2
    <2>2. ASSUME NEW i \in 1..n, i - 1 \in S PROVE i \in S
      <3>1. \A before \in Seq(V) : After(i, before) \in Seq(V)
        OBVIOUS
      <3> HIDE DEF After, n
      <3> QED
        BY <1>1, <1>8, <2>2, <3>1
    <2>3. 0..n \subseteq S
      <3> HIDE DEF S
      <3> QED
        BY <1>1, <2>1, <2>2, Climb
    <2> QED
      BY <2>3
  <1>10. kept \in [0..n -> Seq(V)]
    <2> HIDE DEF After, n
    <2> QED
      BY <1>6, <1>9
  <1>11. KeepsOnce(kept, values, wanted)
    BY <1>8 DEF KeepsOnce
  <1> QED
    BY <1>7, <1>10, <1>11

-----------------------------------------------------------------------------
(* Sequences without repetitions.                                          *)

(* No value of a sequence is there twice.                                  *)
NoRepeats(s) == \A i, j \in 1..Len(s) : s[i] = s[j] => i = j

(* What SequencesExt finds in a sequence, and the values it has.           *)
LEMMA ContainsIsMember ==
  ASSUME NEW V, NEW s \in Seq(V), NEW x
  PROVE  Contains(s, x) <=> x \in ToSet(s)
  BY DEF Contains, ToSet

(* The values of a sequence are among those it is over.                    *)
LEMMA ToSetOfSeq ==
  ASSUME NEW V, NEW s \in Seq(V)
  PROVE  ToSet(s) \subseteq V
  BY DEF ToSet

(* A sequence is one over its own values.                                  *)
LEMMA SeqOfToSet ==
  ASSUME NEW V, NEW W, NEW s \in Seq(V), ToSet(s) \subseteq W
  PROVE  s \in Seq(W)
  <1>1. \A i \in 1..Len(s) : s[i] \in W
    BY DEF ToSet
  <1>2. Len(s) \in Nat /\ s = [i \in 1..Len(s) |-> s[i]]
    OBVIOUS
  <1> DEFINE n == Len(s)
  <1> HIDE DEF n
  <1>3. [i \in 1..n |-> s[i]] \in Seq(W)
    BY <1>1, <1>2 DEF n
  <1> QED
    BY <1>2, <1>3 DEF n

(* A value more: none is repeated when it was not there.                   *)
LEMMA AppendGrows ==
  ASSUME NEW V, NEW s \in Seq(V), NEW x
  PROVE  /\ Append(s, x) \in Seq(V \cup {x})
         /\ ToSet(Append(s, x)) = ToSet(s) \cup {x}
         /\ NoRepeats(s) /\ ~Contains(s, x) => NoRepeats(Append(s, x))
  <1> DEFINE t == Append(s, x)
             n == Len(s)
  <1>1. n \in Nat /\ s \in [1..n -> V]
    OBVIOUS
  <1>3. t \in Seq(V \cup {x}) /\ Len(t) = n + 1
    OBVIOUS
  <1>4. DOMAIN t = 1..(n + 1) /\ DOMAIN s = 1..n
    BY <1>3
  <1>5. t[n + 1] = x /\ \A i \in 1..n : t[i] = s[i]
    BY <1>1
  <1> HIDE DEF t, n
  <1>6. ToSet(t) = ToSet(s) \cup {x}
    <2>1. \A i \in 1..(n + 1) : i \in 1..n \/ i = n + 1
      BY <1>1
    <2>2. \A i \in 1..n : i \in 1..(n + 1)
      BY <1>1
    <2>3. n + 1 \in 1..(n + 1)
      BY <1>1
    <2> QED
      BY <1>4, <1>5, <2>1, <2>2, <2>3 DEF ToSet
  <1>7. NoRepeats(s) /\ ~Contains(s, x) => NoRepeats(t)
    <2>1. \A i \in 1..(n + 1) : i \in 1..n \/ i = n + 1
      BY <1>1
    <2>2. Len(s) = n
      BY DEF n
    <2> QED
      BY <1>3, <1>5, <2>1, <2>2 DEF NoRepeats, Contains
  <1> QED
    BY <1>3, <1>6, <1>7 DEF t

(* Once keeps the wanted values, and none twice (the loops of              *)
(* _executed_action_names and of the bounded lists).                       *)
LEMMA OnceKeeps ==
  ASSUME NEW V, NEW values \in Seq(V), NEW wanted
  PROVE  /\ Once(values, wanted) \in Seq(V)
         /\ ToSet(Once(values, wanted)) = ToSet(values) \cap wanted
         /\ NoRepeats(Once(values, wanted))
  <1> DEFINE n == Len(values)
             First(i) == {values[k] : k \in 1..i}
  <1>1. n \in Nat /\ \A i \in 1..n : values[i] \in V
    OBVIOUS
  <1>2. ToSet(values) = First(n)
    BY DEF ToSet
  <1>3. PICK kept \in [0..n -> Seq(V)] :
           Once(values, wanted) = kept[n] /\ KeepsOnce(kept, values, wanted)
    BY OnceLoop
  <1> HIDE DEF n
  <1> DEFINE Good(i) == ToSet(kept[i]) = First(i) \cap wanted /\ NoRepeats(kept[i])
             S == {i \in 0..n : Good(i)}
  <1>4. Good(0)
    <2>1. First(0) = {} /\ ToSet(kept[0]) = {}
      BY <1>3 DEF ToSet, KeepsOnce
    <2>2. NoRepeats(kept[0])
      BY <1>3 DEF NoRepeats, KeepsOnce
    <2> QED
      BY <2>1, <2>2
  <1>5. ASSUME NEW i \in 1..n, Good(i - 1) PROVE Good(i)
    <2> DEFINE s == kept[i - 1]
               x == values[i]
    <2>1. i - 1 \in 0..n /\ s \in Seq(V)
      BY <1>1
    <2>2. First(i) = First(i - 1) \cup {x}
      <3>1. \A k \in 1..i : k \in 1..(i - 1) \/ k = i
        BY <1>1
      <3>2. \A k \in 1..(i - 1) : k \in 1..i
        BY <1>1
      <3>3. i \in 1..i
        BY <1>1
      <3> QED
        BY <3>1, <3>2, <3>3
    <2>3. kept[i] = IF x \in wanted /\ ~Contains(s, x) THEN Append(s, x) ELSE s
      BY <1>3 DEF KeepsOnce, n
    <2>4. ToSet(s) = First(i - 1) \cap wanted /\ NoRepeats(s)
      BY <1>5
    <2> HIDE DEF s, x, First
    <2>5. CASE x \in wanted /\ ~Contains(s, x)
      <3>1. kept[i] = Append(s, x)
        BY <2>3, <2>5
      <3>2. ToSet(kept[i]) = ToSet(s) \cup {x} /\ NoRepeats(kept[i])
        BY <2>1, <2>4, <2>5, <3>1, AppendGrows
      <3> QED
        BY <2>2, <2>4, <2>5, <3>2
    <2>6. CASE ~(x \in wanted /\ ~Contains(s, x))
      <3>1. kept[i] = s
        BY <2>3, <2>6
      <3>2. x \in wanted => x \in ToSet(s)
        BY <2>1, <2>6, ContainsIsMember
      <3> QED
        BY <2>2, <2>4, <3>1, <3>2
    <2> QED
      BY <2>5, <2>6
  <1>6. 0..n \subseteq S
    <2>1. \A i \in 1..n : i - 1 \in S => i \in S
      <3> HIDE DEF Good
      <3> QED
        BY <1>1, <1>5
    <2>2. 0 \in S
      <3> HIDE DEF Good
      <3> QED
        BY <1>1, <1>4
    <2> HIDE DEF S
    <2> QED
      BY <1>1, <2>1, <2>2, Climb
  <1>7. Good(n)
    <2> HIDE DEF Good
    <2> QED
      BY <1>1, <1>6
  <1>8. kept[n] \in Seq(V)
    BY <1>1
  <1> QED
    BY <1>2, <1>3, <1>7, <1>8

(* Values of which none is repeated are kept as they are.                  *)
LEMMA OnceOfDistinct ==
  ASSUME NEW V, NEW values \in Seq(V), NEW wanted,
         NoRepeats(values), ToSet(values) \subseteq wanted
  PROVE  Once(values, wanted) = values
  <1> DEFINE n == Len(values)
  <1>1. n \in Nat /\ values \in [1..n -> V] /\ \A i \in 1..n : values[i] \in wanted
    BY DEF ToSet
  <1>2. PICK kept \in [0..n -> Seq(V)] :
           Once(values, wanted) = kept[n] /\ KeepsOnce(kept, values, wanted)
    BY OnceLoop
  <1>3. \A i, j \in 1..n : values[i] = values[j] => i = j
    BY DEF NoRepeats
  <1> HIDE DEF n
  <1> DEFINE Good(i) == Len(kept[i]) = i /\ \A k \in 1..i : kept[i][k] = values[k]
             S == {i \in 0..n : Good(i)}
  <1>4. Good(0)
    BY <1>2 DEF KeepsOnce
  <1>5. ASSUME NEW i \in 1..n, Good(i - 1) PROVE Good(i)
    <2> DEFINE s == kept[i - 1]
               x == values[i]
    <2>1. i - 1 \in 0..n /\ s \in Seq(V)
      BY <1>1
    <2>2. Len(s) = i - 1 /\ \A k \in 1..(i - 1) : s[k] = values[k]
      BY <1>5
    <2>3. ~Contains(s, x)
      <3>1. \A k \in 1..(i - 1) : k \in 1..n /\ k # i
        BY <1>1
      <3>2. \A k \in 1..(i - 1) : s[k] # x
        BY <1>3, <2>2, <3>1
      <3> QED
        BY <2>2, <3>2 DEF Contains
    <2>4. kept[i] = Append(s, x)
      BY <1>1, <1>2, <2>3 DEF KeepsOnce, n
    <2> HIDE DEF s, x
    <2>5. Len(kept[i]) = i
      BY <1>1, <2>1, <2>2, <2>4
    <2>6. ASSUME NEW k \in 1..i PROVE kept[i][k] = values[k]
      <3>1. CASE k = i
        BY <1>1, <2>1, <2>2, <2>4, <3>1 DEF x
      <3>2. CASE k # i
        <4>1. k \in 1..(i - 1)
          BY <1>1, <3>2
        <4> QED
          BY <1>1, <2>1, <2>2, <2>4, <4>1
      <3> QED
        BY <3>1, <3>2
    <2> QED
      BY <2>5, <2>6
  <1>6. 0..n \subseteq S
    <2>1. \A i \in 1..n : i - 1 \in S => i \in S
      <3> HIDE DEF Good
      <3> QED
        BY <1>1, <1>5
    <2>2. 0 \in S
      <3> HIDE DEF Good
      <3> QED
        BY <1>1, <1>4
    <2> HIDE DEF S
    <2> QED
      BY <1>1, <2>1, <2>2, Climb
  <1>7. Good(n)
    <2> HIDE DEF Good
    <2> QED
      BY <1>1, <1>6
  <1>8. kept[n] \in Seq(V)
    BY <1>1
  <1>9. kept[n] = values
    BY <1>1, <1>7, <1>8, SeqEqual DEF n
  <1> QED
    BY <1>2, <1>9

(* The validator of memory lists accepts a list as it is exactly when      *)
(* nothing is repeated in it.                                              *)
LEMMA DistinctIsNoRepeats ==
  ASSUME NEW V, NEW s \in Seq(V)
  PROVE  Distinct(s) = s <=> NoRepeats(s)
  <1>1. NoRepeats(Distinct(s))
    BY OnceKeeps DEF Distinct
  <1>2. NoRepeats(s) => Distinct(s) = s
    BY OnceOfDistinct DEF Distinct
  <1> QED
    BY <1>1, <1>2

(* Distinct loses no value.                                                *)
LEMMA DistinctKeeps ==
  ASSUME NEW V, NEW s \in Seq(V)
  PROVE  Distinct(s) \in Seq(V) /\ ToSet(Distinct(s)) = ToSet(s) /\ NoRepeats(Distinct(s))
  <1>1. ToSet(s) \cap ToSet(s) = ToSet(s)
    OBVIOUS
  <1> QED
    BY <1>1, OnceKeeps DEF Distinct

-----------------------------------------------------------------------------
(* Slices and bounded lists.                                               *)

(* The slice s[-n:] has at most n entries, the last ones.                  *)
LEMMA NewestKeeps ==
  ASSUME NEW V, NEW s \in Seq(V), NEW n \in Nat
  PROVE  LET r == Newest(s, n) IN
         /\ r \in Seq(V) /\ Len(r) = Least(Len(s), n) /\ Len(r) <= n
         /\ \A i \in 1..Len(r) : i + Excess(Len(s), n) \in 1..Len(s)
         /\ \A i \in 1..Len(r) : r[i] = s[i + Excess(Len(s), n)]
  <1> DEFINE m == Len(s)
             e == Excess(m, n)
             r == SubSeq(s, e + 1, m)
  <1>1. m \in Nat /\ e \in 0..m /\ m - e = Least(m, n) /\ m - e <= n
    BY DEF Excess, Least
  <1>2. r \in Seq(V) /\ Len(r) = m - e /\ \A i \in 1..Len(r) : r[i] = s[i + e]
    <2> HIDE DEF e
    <2>1. e + 1 \in 1..(m + 1) /\ m \in 0..m
      BY <1>1
    <2> QED
      BY <1>1, <2>1
  <1>3. Newest(s, n) = r
    BY DEF Newest
  <1> HIDE DEF r
  <1>4. \A i \in 1..Len(r) : i + e \in 1..m
    <2> HIDE DEF e, m
    <2> QED
      BY <1>1, <1>2
  <1> QED
    BY <1>1, <1>2, <1>3, <1>4

(* The slice keeps what distinguishes its entries, and the last of them.   *)
LEMMA NewestAmong ==
  ASSUME NEW V, NEW s \in Seq(V), NEW n \in Nat
  PROVE  LET r == Newest(s, n) IN
         /\ ToSet(r) \subseteq ToSet(s)
         /\ NoRepeats(s) => NoRepeats(r)
         /\ Len(s) <= n => r = s
         /\ s # <<>> /\ n > 0 => r # <<>> /\ Last(r) = Last(s) /\ Last(s) \in ToSet(r)
  <1> DEFINE r == Newest(s, n)
             e == Excess(Len(s), n)
  <1>1. /\ r \in Seq(V) /\ Len(r) = Least(Len(s), n) /\ Len(r) <= n
        /\ \A i \in 1..Len(r) : i + e \in 1..Len(s)
        /\ \A i \in 1..Len(r) : r[i] = s[i + e]
    BY NewestKeeps
  <1>2. Len(s) \in Nat /\ e \in Nat /\ Len(r) \in Nat /\ Len(r) + e = Len(s)
    BY <1>1 DEF Excess, Least
  <1>3. Len(s) <= n => e = 0
    BY DEF Excess
  <1> HIDE DEF r, e
  <1>4. ToSet(r) \subseteq ToSet(s)
    BY <1>1 DEF ToSet
  <1>5. NoRepeats(s) => NoRepeats(r)
    BY <1>1, <1>2 DEF NoRepeats
  <1>6. Len(s) <= n => r = s
    <2> SUFFICES ASSUME Len(s) <= n PROVE r = s
      OBVIOUS
    <2>1. e = 0 /\ Len(r) = Len(s)
      BY <1>2, <1>3
    <2>2. \A i \in 1..Len(r) : r[i] = s[i]
      BY <1>1, <1>2, <2>1
    <2> QED
      BY <1>1, <2>1, <2>2, SeqEqual
  <1>7. s # <<>> /\ n > 0 => r # <<>> /\ Last(r) = Last(s) /\ Last(s) \in ToSet(r)
    <2> SUFFICES ASSUME s # <<>>, n > 0
                 PROVE  r # <<>> /\ Last(r) = Last(s) /\ Last(s) \in ToSet(r)
      OBVIOUS
    <2>1. Len(s) > 0
      OBVIOUS
    <2>2. Len(r) > 0
      BY <1>1, <2>1 DEF Least
    <2>3. Len(r) \in 1..Len(r) /\ r[Len(r)] = s[Len(s)] /\ r # <<>>
      BY <1>1, <1>2, <2>2
    <2> QED
      BY <1>1, <2>3 DEF Last, ToSet
  <1> QED
    BY <1>4, <1>5, <1>6, <1>7 DEF r

(* A sequence without repetitions is not longer than its set is large.     *)
LEMMA NoRepeatsBounds ==
  ASSUME NEW S, IsFiniteSet(S), NEW s \in Seq(S), NoRepeats(s)
  PROVE  Len(s) <= Cardinality(S)
  <1>1. Len(s) \in Nat /\ DOMAIN s = 1..Len(s)
    OBVIOUS
  <1>2. s \in Injection(1..Len(s), S)
    BY DEF NoRepeats, Injection, IsInjective
  <1>3. Cardinality(1..Len(s)) <= Cardinality(S) /\ IsFiniteSet(1..Len(s))
    BY <1>2, FS_Injection
  <1>4. Cardinality(1..Len(s)) = Len(s)
    BY <1>1, FS_Interval
  <1> QED
    BY <1>3, <1>4

(* A list of bounded texts, and what it keeps of actions.                  *)
LEMMA BoundedTextListKeeps ==
  ASSUME NEW V, NEW values \in Seq(V), NEW W, \A v \in V : BoundedText(v) \in W
  PROVE  LET r == BoundedTextList(values) IN
         r \in Seq(W) /\ Len(r) <= MemoryItems /\ NoRepeats(r)
  <1> DEFINE b == [i \in DOMAIN values |-> BoundedText(values[i])]
  <1>1. b \in Seq(W)
    <2>1. Len(values) \in Nat /\ DOMAIN values = 1..Len(values)
      OBVIOUS
    <2>2. \A i \in 1..Len(values) : BoundedText(values[i]) \in W
      OBVIOUS
    <2> QED
      BY <2>1, <2>2
  <1>2. Distinct(b) \in Seq(W) /\ NoRepeats(Distinct(b))
    <2> HIDE DEF b
    <2> QED
      BY <1>1, DistinctKeeps
  <1>3. BoundedTextList(values) = Newest(Distinct(b), MemoryItems)
    BY DEF BoundedTextList
  <1> HIDE DEF b
  <1>4. MemoryItems \in Nat
    BY ProvidersAssumption
  <1> QED
    BY <1>2, <1>3, <1>4, NewestKeeps, NewestAmong

(* No action is lost to the bound: there are not more of them than a list  *)
(* holds.                                                                  *)
LEMMA BoundedTextListOfActions ==
  ASSUME NEW values \in Seq(Actions)
  PROVE  ToSet(BoundedTextList(values)) = ToSet(values)
  <1> DEFINE b == [i \in DOMAIN values |-> BoundedText(values[i])]
  <1>1. b = values
    <2>1. \A i \in DOMAIN values : BoundedText(values[i]) = values[i]
      BY ProvidersAssumption DEF BoundedText
    <2> QED
      BY <2>1
  <1> HIDE DEF b
  <1>2. BoundedTextList(values) = Newest(Distinct(values), MemoryItems)
    BY <1>1 DEF BoundedTextList, b
  <1> DEFINE d == Distinct(values)
  <1>3. d \in Seq(Actions) /\ ToSet(d) = ToSet(values) /\ NoRepeats(d)
    BY DistinctKeeps
  <1> HIDE DEF d
  <1>4. Len(d) <= Cardinality(Actions)
    BY <1>3, NoRepeatsBounds, ProvidersAssumption
  <1>5. MemoryItems \in Nat /\ Cardinality(Actions) \in Nat /\ Len(d) \in Nat
    BY <1>3, ProvidersAssumption, FS_CardinalityType
  <1>6. Len(d) <= MemoryItems
    BY <1>4, <1>5, ProvidersAssumption
  <1>7. Newest(d, MemoryItems) = d
    BY <1>3, <1>5, <1>6, NewestAmong
  <1> QED
    BY <1>2, <1>3, <1>7 DEF d

Remembered == (Texts \cup Range(Cut)) \ DOMAIN Cut

(* A text in its bounded form is one that memory can hold, and stays so.   *)
LEMMA BoundedTextRemembered ==
  ASSUME NEW v \in Texts \cup Range(Cut)
  PROVE  BoundedText(v) \in Remembered
  BY ProvidersAssumption DEF BoundedText, Remembered, Range

(* A bounded text appended to what is remembered.                          *)
LEMMA AppendBoundedKeeps ==
  ASSUME NEW items \in Seq(Remembered), Len(items) <= MemoryItems, NEW value \in Texts
  PROVE  LET r == AppendBounded(items, value) IN
         /\ r \in Seq(Remembered) /\ Len(r) <= MemoryItems
         /\ BoundedText(value) \in ToSet(r)
         /\ Contains(items, value) => r = items
         /\ ~Contains(items, value) => r = Newest(Append(items, BoundedText(value)), MemoryItems)
  <1> DEFINE b == BoundedText(value)
             r == AppendBounded(items, value)
  <1>1. MemoryItems \in Nat \ {0} /\ b \in Remembered
    BY ProvidersAssumption, BoundedTextRemembered
  <1>2. CASE Contains(items, value)
    <2>1. r = Newest(items, MemoryItems)
      BY <1>2 DEF AppendBounded
    <2>2. r = items
      BY <1>1, <2>1, NewestAmong
    <2>3. value \in ToSet(items)
      BY <1>2, ContainsIsMember
    <2>4. value \in Remembered
      BY <2>3, ToSetOfSeq
    <2>5. b = value
      BY <2>4 DEF Remembered, BoundedText
    <2> QED
      BY <1>2, <2>2, <2>3, <2>5
  <1>3. CASE ~Contains(items, value)
    <2> DEFINE a == Append(items, b)
    <2>1. r = Newest(a, MemoryItems)
      BY <1>3 DEF AppendBounded
    <2>2. a \in Seq(Remembered) /\ a # <<>> /\ Last(a) = b
      BY <1>1 DEF Last
    <2> HIDE DEF a, b, r
    <2>3. r \in Seq(Remembered) /\ Len(r) <= MemoryItems
      BY <1>1, <2>1, <2>2, NewestKeeps
    <2>4. b \in ToSet(r)
      BY <1>1, <2>1, <2>2, NewestAmong
    <2> QED
      BY <1>3, <2>1, <2>3, <2>4 DEF a, b, r
  <1> QED
    BY <1>2, <1>3

(* The loop of AppendEach, and what it keeps.                              *)
KeepsEach(kept, items, values) ==
  kept[0] = items /\ \A i \in 1..Len(values) : kept[i] = AppendBounded(kept[i - 1], values[i])

Kept == {items \in Seq(Remembered) : Len(items) <= MemoryItems}

(* The run of the loop of AppendEach.                                      *)
LEMMA AppendEachLoop ==
  ASSUME NEW items \in Kept, NEW values \in Seq(Texts)
  PROVE  \E kept \in [0..Len(values) -> Kept] :
           AppendEach(items, values) = kept[Len(values)] /\ KeepsEach(kept, items, values)
  <1> DEFINE n == Len(values)
             step == [i \in 1..n |-> [before \in Kept |-> AppendBounded(before, values[i])]]
             IsKept(f) == f = [i \in 0..n |-> IF i = 0 THEN items
                                              ELSE AppendBounded(f[i - 1], values[i])]
             kept == CHOOSE f : IsKept(f)
  <1>1. n \in Nat /\ \A i \in 1..n : values[i] \in Texts
    OBVIOUS
  <1>2. \A i \in 1..n : \A before \in Kept : AppendBounded(before, values[i]) \in Kept
    <2>1. \A value \in Texts : \A before \in Kept : AppendBounded(before, value) \in Kept
      BY AppendBoundedKeeps DEF Kept
    <2> QED
      BY <1>1, <2>1
  <1>3. PICK f \in [0..n -> Kept] : f[0] = items /\ \A i \in 1..n : f[i] = step[i][f[i - 1]]
    <2> HIDE DEF n
    <2>1. IsLoop(n, Kept, items, step)
      BY <1>1, <1>2 DEF IsLoop
    <2> HIDE DEF step
    <2>2. HasRun(n, Kept, items, step)
      BY <2>1, LoopRuns
    <2> QED
      BY <2>2 DEF HasRun
  <1>4. \A i \in 1..n : \A before \in Kept : step[i][before] = AppendBounded(before, values[i])
    OBVIOUS
  <1>5. IsKept(f)
    <2>1. ASSUME NEW i \in 0..n
          PROVE  f[i] = IF i = 0 THEN items ELSE AppendBounded(f[i - 1], values[i])
      <3>1. i # 0 => i \in 1..n /\ f[i - 1] \in Kept
        BY <1>1
      <3> HIDE DEF step, n
      <3> QED
        BY <1>3, <1>4, <3>1
    <2> HIDE DEF step, n
    <2> QED
      BY <1>1, <2>1
  <1>6. IsKept(kept)
    <2> HIDE DEF IsKept
    <2> QED
      BY <1>5
  <1>7. AppendEach(items, values) = kept[n]
    BY DEF AppendEach
  <1> HIDE DEF kept
  <1>8. kept[0] = items /\ \A i \in 1..n : kept[i] = AppendBounded(kept[i - 1], values[i])
    <2> HIDE DEF n
    <2> QED
      BY <1>1, <1>6
  <1>9. \A i \in 0..n : kept[i] \in Kept
    <2> DEFINE S == {i \in 0..n : kept[i] \in Kept}
    <2>1. 0 \in S
      <3> HIDE DEF n
      <3> QED
        BY <1>1, <1>8
    <2>2. ASSUME NEW i \in 1..n, i - 1 \in S PROVE i \in S
      <3> HIDE DEF n
      <3> QED
        BY <1>1, <1>2, <1>8, <2>2
    <2>3. 0..n \subseteq S
      <3> HIDE DEF S
      <3> QED
        BY <1>1, <2>1, <2>2, Climb
    <2> QED
      BY <2>3
  <1>10. kept \in [0..n -> Kept]
    <2> HIDE DEF n
    <2> QED
      BY <1>6, <1>9
  <1>11. KeepsEach(kept, items, values)
    BY <1>8 DEF KeepsEach
  <1> QED
    BY <1>7, <1>10, <1>11

(* What the rules extend stays within its bounds, and has the last value.  *)
LEMMA AppendEachKeeps ==
  ASSUME NEW items \in Kept, NEW values \in Seq(Texts)
  PROVE  LET r == AppendEach(items, values) IN
         r \in Kept /\ (values # <<>> => BoundedText(Last(values)) \in ToSet(r))
  <1> DEFINE n == Len(values)
  <1>1. PICK kept \in [0..n -> Kept] :
           AppendEach(items, values) = kept[n] /\ KeepsEach(kept, items, values)
    BY AppendEachLoop
  <1>2. n \in Nat /\ kept[n] \in Kept
    OBVIOUS
  <1>3. values # <<>> => BoundedText(Last(values)) \in ToSet(kept[n])
    <2> SUFFICES ASSUME values # <<>> PROVE BoundedText(Last(values)) \in ToSet(kept[n])
      OBVIOUS
    <2>1. n \in 1..n /\ values[n] \in Texts /\ Last(values) = values[n]
      BY DEF Last
    <2>2. kept[n] = AppendBounded(kept[n - 1], values[n]) /\ kept[n - 1] \in Kept
      BY <1>1, <2>1 DEF KeepsEach
    <2> HIDE DEF n
    <2> QED
      BY <2>1, <2>2, AppendBoundedKeeps DEF Kept
  <1> QED
    BY <1>1, <1>2, <1>3

(* A list that the rules extended is validated without a loss.             *)
LEMMA NotMoreThanPlaces ==
  ASSUME NEW V, NEW s \in Seq(V)
  PROVE  IsFiniteSet(ToSet(s)) /\ Cardinality(ToSet(s)) <= Len(s)
  <1>1. Len(s) \in Nat /\ DOMAIN s = 1..Len(s)
    OBVIOUS
  <1>2. s \in Surjection(1..Len(s), ToSet(s))
    BY DEF ToSet, Surjection
  <1>3. IsFiniteSet(1..Len(s)) /\ Cardinality(1..Len(s)) = Len(s)
    BY <1>1, FS_Interval
  <1> QED
    BY <1>2, <1>3, FS_Surjection

(* The workflow accepts what the rules remember: no text is lost, and      *)
(* without repetitions the list stays as it is.                            *)
LEMMA BoundedTextListOfKept ==
  ASSUME NEW items \in Kept
  PROVE  LET r == BoundedTextList(items) IN
         /\ r \in Kept /\ NoRepeats(r) /\ ToSet(r) = ToSet(items)
         /\ NoRepeats(items) => r = items
  <1> DEFINE b == [i \in DOMAIN items |-> BoundedText(items[i])]
             d == Distinct(items)
             r == BoundedTextList(items)
  <1>1. b = items
    <2>1. items \in Seq(Remembered)
      BY DEF Kept
    <2>2. \A i \in DOMAIN items : BoundedText(items[i]) = items[i]
      BY <2>1 DEF BoundedText, Remembered
    <2> QED
      BY <2>1, <2>2
  <1> HIDE DEF b
  <1>2. r = Newest(d, MemoryItems)
    BY <1>1 DEF BoundedTextList, b
  <1>3. items \in Seq(Remembered) /\ Len(items) <= MemoryItems
    BY DEF Kept
  <1>4. /\ d \in Seq(Remembered) /\ ToSet(d) = ToSet(items) /\ NoRepeats(d)
        /\ NoRepeats(items) => d = items
    BY <1>3, DistinctKeeps, DistinctIsNoRepeats
  <1> HIDE DEF d, r
  <1>5. Len(d) <= MemoryItems
    <2>1. d \in Seq(ToSet(items))
      BY <1>4, SeqOfToSet
    <2>2. IsFiniteSet(ToSet(items)) /\ Cardinality(ToSet(items)) <= Len(items)
      BY <1>3, NotMoreThanPlaces
    <2>3. Len(d) <= Cardinality(ToSet(items))
      BY <1>4, <2>1, <2>2, NoRepeatsBounds
    <2>4. Cardinality(ToSet(items)) \in Nat /\ Len(d) \in Nat /\ Len(items) \in Nat
      BY <1>3, <1>4, <2>2, FS_CardinalityType
    <2> QED
      BY <1>3, <2>2, <2>3, <2>4, ProvidersAssumption
  <1>6. r = d
    BY <1>2, <1>4, <1>5, NewestAmong, ProvidersAssumption
  <1> QED
    BY <1>4, <1>5, <1>6 DEF r, Kept

(* A text that is too long is looked for as it was said and kept as it was *)
(* cut (_append_bounded): it is never found, and takes a place again also  *)
(* when memory has it, where a full list gives up its oldest entry.  This  *)
(* is why InstructionsRemembered speaks of instructions of normal length.  *)
THEOREM LongTextTakesPlace ==
  ASSUME NEW items \in Kept, NEW value \in DOMAIN Cut
  PROVE  LET r == AppendBounded(items, value) IN
         /\ Len(items) < MemoryItems => r = Append(items, Cut[value])
         /\ Len(items) = MemoryItems => r = Append(Tail(items), Cut[value])
  <1> DEFINE b == Cut[value]
             a == Append(items, b)
             r == AppendBounded(items, value)
             n == Len(items)
  <1>1. value \in Texts /\ BoundedText(value) = b /\ b \in Remembered
    BY ProvidersAssumption, BoundedTextRemembered DEF BoundedText
  <1>2. items \in Seq(Remembered) /\ n \in Nat /\ MemoryItems \in Nat \ {0} /\ n <= MemoryItems
    BY ProvidersAssumption DEF Kept
  <1>3. ~Contains(items, value)
    <2>1. value \notin Remembered
      BY DEF Remembered
    <2> QED
      BY <1>2, <2>1, ContainsIsMember, ToSetOfSeq
  <1>4. r = Newest(a, MemoryItems)
    BY <1>1, <1>2, <1>3, AppendBoundedKeeps
  <1> HIDE DEF b, r
  <1>5. /\ a \in Seq(Remembered) /\ Len(a) = n + 1 /\ a[n + 1] = b
        /\ \A i \in 1..n : a[i] = items[i]
    BY <1>1, <1>2
  <1>6. CASE n < MemoryItems
    <2>1. r = a
      <3>1. Len(a) <= MemoryItems /\ MemoryItems \in Nat
        BY <1>2, <1>5, <1>6
      <3> HIDE DEF a, n
      <3> QED
        BY <1>4, <1>5, <3>1, NewestAmong
    <2> QED
      BY <1>6, <2>1 DEF b, r
  <1>7. CASE n = MemoryItems
    <2> DEFINE t == Tail(items)
               c == Append(t, b)
    <2>1. t \in Seq(Remembered) /\ Len(t) = n - 1 /\ \A i \in 1..(n - 1) : t[i] = items[i + 1]
      BY <1>2, <1>7
    <2> HIDE DEF t
    <2>2. /\ c \in Seq(Remembered) /\ Len(c) = n /\ c[n] = b
          /\ \A i \in 1..(n - 1) : c[i] = t[i]
      BY <1>1, <1>2, <1>7, <2>1
    <2> HIDE DEF a, c
    <2>3. r \in Seq(Remembered) /\ Len(r) = n /\ \A i \in 1..n : r[i] = a[i + 1]
      <3>1. /\ r \in Seq(Remembered) /\ Len(r) = Least(Len(a), MemoryItems)
            /\ \A i \in 1..Len(r) : r[i] = a[i + Excess(Len(a), MemoryItems)]
        BY <1>2, <1>4, <1>5, NewestKeeps
      <3>2. Least(n + 1, MemoryItems) = n /\ Excess(n + 1, MemoryItems) = 1
        BY <1>2, <1>7 DEF Least, Excess
      <3> QED
        BY <1>5, <3>1, <3>2
    <2> HIDE DEF n
    <2>4. ASSUME NEW i \in 1..n PROVE r[i] = c[i]
      <3>1. CASE i = n
        BY <1>5, <2>2, <2>3, <3>1
      <3>2. CASE i # n
        <4>1. i \in 1..(n - 1) /\ i + 1 \in 1..n
          BY <1>2, <3>2
        <4> QED
          BY <1>5, <2>1, <2>2, <2>3, <4>1
      <3> QED
        BY <3>1, <3>2
    <2>5. r = c
      BY <2>2, <2>3, <2>4, SeqEqual
    <2> QED
      BY <1>7, <2>5, <1>2 DEF r, c, t, b, n
  <1> QED
    BY <1>2, <1>6, <1>7 DEF r, b, n

-----------------------------------------------------------------------------
(* The lengths of what a request holds.                                    *)

(* Arithmetic of lengths.                                                  *)
LEMMA ProductGrows ==
  ASSUME NEW x \in Nat, NEW y \in Nat, NEW z \in Nat, y <= z
  PROVE  x * y \in Nat /\ x * z - x * y \in Nat
  <1>1. x * y \in Nat /\ x * (z - y) \in Nat
    <2>1. z - y \in Nat
      OBVIOUS
    <2>2. \A u, v \in Nat : u * v \in Nat
      OBVIOUS
    <2> QED
      BY <2>1, <2>2
  <1>2. x * z - x * y = x * (z - y)
    OBVIOUS
  <1> QED
    BY <1>1, <1>2

(* A fuller memory is not shorter than a bare one.                         *)
LEMMA MemoryAskIsLength ==
  ASSUME NEW A, NEW C, NEW memory, memory.actions \in Seq(A), memory.constraints \in Seq(C)
  PROVE  MemoryAsk(memory).full \in Nat /\ MemoryAsk(memory).last \in Nat
  <1> DEFINE a == Len(memory.actions)
             c == Len(memory.constraints)
             less == Least(a, 1)
             chars(n) == ItemChars * (Least(a, n) + Least(c, n))
  <1>1. a \in Nat /\ c \in Nat /\ ItemChars \in Nat /\ MemoryShown \in Nat \ {0}
    BY ProvidersAssumption
  <1>2. ASSUME NEW n \in Nat \ {0} PROVE chars(n) - ItemChars * less \in Nat
    <2>1. less \in Nat /\ Least(a, n) + Least(c, n) \in Nat /\ less <= Least(a, n) + Least(c, n)
      <3> HIDE DEF a, c
      <3> QED
        BY <1>1 DEF Least
    <2> HIDE DEF less, a, c
    <2> QED
      BY <1>1, <2>1, ProductGrows
  <1>3. MemoryAsk(memory) = [full |-> chars(MemoryShown) - ItemChars * less,
                             last |-> chars(1) - ItemChars * less]
    BY DEF MemoryAsk
  <1> HIDE DEF chars, less, a, c
  <1> QED
    BY <1>1, <1>2, <1>3

(* The lengths of the newest instructions, one more each time.             *)
LEMMA TextsAreLengths ==
  ASSUME NEW known \in Seq(Texts), NEW m \in Nat, m <= Len(known), NEW texts,
         texts = CHOOSE f : f = [k \in 0..m |-> IF k = 0 THEN 0
                                   ELSE f[k - 1] + TextChars[known[Len(known) - k + 1]]]
  PROVE  \A k \in 0..m : texts[k] \in Nat
  <1> DEFINE n == Len(known)
             length(k) == TextChars[known[n - k + 1]]
             step == [k \in 1..m |-> [before \in Nat |-> before + length(k)]]
             IsSum(f) == f = [k \in 0..m |-> IF k = 0 THEN 0 ELSE f[k - 1] + length(k)]
  <1>1. n \in Nat
    OBVIOUS
  <1>2. ASSUME NEW k \in 1..m PROVE length(k) \in Nat
    <2>1. n - k + 1 \in 1..n
      BY <1>1
    <2>2. known[n - k + 1] \in Texts
      BY <2>1
    <2> QED
      BY <2>2, ProvidersAssumption
  <1> HIDE DEF n
  <1>3. PICK f \in [0..m -> Nat] : f[0] = 0 /\ \A k \in 1..m : f[k] = step[k][f[k - 1]]
    <2> HIDE DEF length
    <2>1. IsLoop(m, Nat, 0, step)
      BY <1>2 DEF IsLoop
    <2> HIDE DEF step
    <2>2. HasRun(m, Nat, 0, step)
      BY <2>1, LoopRuns
    <2> QED
      BY <2>2 DEF HasRun
  <1>4. \A k \in 1..m : \A before \in Nat : step[k][before] = before + length(k)
    OBVIOUS
  <1>5. IsSum(f)
    <2>1. ASSUME NEW k \in 0..m PROVE f[k] = IF k = 0 THEN 0 ELSE f[k - 1] + length(k)
      <3>1. k # 0 => k \in 1..m /\ f[k - 1] \in Nat
        OBVIOUS
      <3> HIDE DEF step, length
      <3> QED
        BY <1>3, <1>4, <3>1
    <2> HIDE DEF step, length
    <2> QED
      BY <2>1
  <1>6. IsSum(texts)
    <2>1. texts = CHOOSE g : IsSum(g)
      BY DEF n
    <2> HIDE DEF IsSum
    <2> QED
      BY <1>5, <2>1
  <1>7. ASSUME NEW g, IsSum(g) PROVE \A k \in 0..m : g[k] \in Nat
    <2>1. g[0] = 0 /\ \A k \in 1..m : g[k] = g[k - 1] + length(k)
      <3>1. 0 \in 0..m /\ \A k \in 1..m : k \in 0..m /\ k # 0
        OBVIOUS
      <3> HIDE DEF length
      <3> QED
        BY <1>7, <3>1
    <2> DEFINE S == {k \in 0..m : g[k] \in Nat}
    <2>2. 0 \in S
      BY <2>1
    <2>3. ASSUME NEW k \in 1..m, k - 1 \in S PROVE k \in S
      <3>1. g[k - 1] \in Nat /\ length(k) \in Nat /\ k \in 0..m
        BY <1>2, <2>3
      <3> HIDE DEF length, IsSum
      <3> QED
        BY <2>1, <3>1
    <2>4. 0..m \subseteq S
      <3> HIDE DEF S
      <3> QED
        BY <2>2, <2>3, Climb
    <2> QED
      BY <2>4
  <1> HIDE DEF IsSum
  <1> QED
    BY <1>6, <1>7

(* What a request holds has lengths.                                       *)
LEMMA AskIsAsk ==
  ASSUME NEW A, NEW C, NEW E, NEW request,
         request.memory.actions \in Seq(A), request.memory.constraints \in Seq(C),
         request.instructions \in Seq(Texts), request.activity \in Seq(E),
         NEW frame \in Nat, NEW base \in Nat, NEW initial \in Nat
  PROVE  IsAsk(AskOf(request, frame, base, initial),
               BuiltFor(request).activity, BuiltFor(request).instructions)
  <1> DEFINE known == request.instructions
             n == Len(known)
             m == Least(n, InstructionLimit)
             a == Least(Len(request.activity), ActivityLimit)
             texts == CHOOSE f : f = [k \in 0..m |-> IF k = 0 THEN 0
                                        ELSE f[k - 1] + TextChars[known[n - k + 1]]]
             memory == MemoryFromData(request.memory)
             ask == AskOf(request, frame, base, initial)
             bare == ItemChars * Least(Len(request.memory.actions), 1)
  <1>1. /\ ask.frame = frame + bare /\ ask.base = base /\ ask.initial = initial
        /\ ask.memory = MemoryAsk(memory) /\ ask.texts = texts
        /\ ask.heads = [k \in 0..a |-> k * HeadChars]
        /\ ask.details = [k \in 0..a |-> k * DetailChars]
    BY DEF AskOf
  <1>2. n \in Nat /\ m \in Nat /\ m <= n /\ a \in Nat
    BY BudgetAssumption DEF Least
  <1>3. \A k \in 0..m : texts[k] \in Nat
    <2> DEFINE t == texts
    <2>1. t = texts
      OBVIOUS
    <2> HIDE DEF t
    <2>2. \A k \in 0..m : t[k] \in Nat
      BY <1>2, <2>1, TextsAreLengths
    <2> QED
      BY <2>1, <2>2
  <1>4. bare \in Nat
    <2>1. Least(Len(request.memory.actions), 1) \in Nat /\ ItemChars \in Nat
      BY ProvidersAssumption DEF Least
    <2> QED
      BY <2>1, ProductGrows
  <1>5. ask.memory.full \in Nat /\ ask.memory.last \in Nat
    <2>1. memory.actions \in Seq(A) /\ memory.constraints \in Seq(C)
      BY DistinctKeeps DEF MemoryFromData
    <2> HIDE DEF memory, ask
    <2> QED
      BY <1>1, <2>1, MemoryAskIsLength
  <1>6. ASSUME NEW k \in 0..a PROVE ask.heads[k] \in Nat /\ ask.details[k] \in Nat
    <2>1. k \in Nat /\ HeadChars \in Nat /\ DetailChars \in Nat
      BY <1>2, ProvidersAssumption
    <2>2. k * HeadChars \in Nat /\ k * DetailChars \in Nat
      BY <2>1, ProductGrows
    <2> HIDE DEF ask, a
    <2> QED
      BY <1>1, <2>2
  <1>7. BuiltFor(request).activity = a /\ BuiltFor(request).instructions = m
    BY DEF BuiltFor, Built
  <1> HIDE DEF ask, a, m, bare, texts, memory
  <1>8. ask.frame \in Nat
    BY <1>1, <1>4
  <1>9. IsAsk(ask, a, m)
    BY <1>1, <1>3, <1>5, <1>6, <1>8 DEF IsAsk
  <1> QED
    BY <1>7, <1>9 DEF ask

-----------------------------------------------------------------------------
(* What the rules remember of the instructions of a run.                   *)

(* Instructions that memory can hold as they are: short, and none twice.   *)
Plain(given) == NoRepeats(given) /\ ToSet(given) \cap DOMAIN Cut = {}

(* The newest of the first m instructions.                                 *)
Window(given, m) == Newest(SubSeq(given, 1, m), MemoryItems)

(* The window over a list that grows at its end needs nothing older.       *)
LEMMA NewestOfAppend ==
  ASSUME NEW V, NEW s \in Seq(V), NEW x \in V, NEW n \in Nat \ {0}
  PROVE  Newest(Append(Newest(s, n), x), n) = Newest(Append(s, x), n)
  <1> DEFINE m == Len(s)
             r == Newest(s, n)
             a == Append(r, x)
             b == Append(s, x)
  <1>1. /\ r \in Seq(V) /\ Len(r) = Least(m, n)
        /\ \A i \in 1..Len(r) : r[i] = s[i + Excess(m, n)]
    BY NewestKeeps
  <1>2. Len(s) \in Nat
    OBVIOUS
  <1> HIDE DEF r
  <1>3. CASE m <= n
    <2>1. r = s
      BY <1>3, NewestAmong DEF r
    <2> QED
      BY <2>1 DEF r
  <1>4. CASE m > n
    <2>1. Len(r) = n /\ \A i \in 1..n : r[i] = s[i + (m - n)]
      BY <1>1, <1>2, <1>4 DEF Least, Excess
    <2>2. a \in Seq(V) /\ Len(a) = n + 1 /\ a[n + 1] = x /\ \A i \in 1..n : a[i] = r[i]
      BY <1>1, <2>1
    <2>3. b \in Seq(V) /\ Len(b) = m + 1 /\ b[m + 1] = x /\ \A i \in 1..m : b[i] = s[i]
      BY <1>2
    <2> HIDE DEF a, b
    <2> DEFINE u == Newest(a, n)
               v == Newest(b, n)
    <2>4. u \in Seq(V) /\ Len(u) = n /\ \A i \in 1..n : u[i] = a[i + 1]
      <3>1. /\ u \in Seq(V) /\ Len(u) = Least(Len(a), n)
            /\ \A i \in 1..Len(u) : u[i] = a[i + Excess(Len(a), n)]
        BY <2>2, NewestKeeps
      <3>2. Least(n + 1, n) = n /\ Excess(n + 1, n) = 1
        BY DEF Least, Excess
      <3> QED
        BY <2>2, <3>1, <3>2
    <2>5. v \in Seq(V) /\ Len(v) = n /\ \A i \in 1..n : v[i] = b[i + (m + 1 - n)]
      <3>1. /\ v \in Seq(V) /\ Len(v) = Least(Len(b), n)
            /\ \A i \in 1..Len(v) : v[i] = b[i + Excess(Len(b), n)]
        BY <2>3, NewestKeeps
      <3>2. Least(m + 1, n) = n /\ Excess(m + 1, n) = m + 1 - n
        BY <1>2, <1>4 DEF Least, Excess
      <3> QED
        BY <2>3, <3>1, <3>2
    <2> HIDE DEF u, v, m
    <2>6. ASSUME NEW i \in 1..n PROVE u[i] = v[i]
      <3>1. CASE i = n
        <4>1. u[i] = x /\ i + (m + 1 - n) = m + 1
          BY <1>2, <2>2, <2>4, <3>1 DEF m
        <4> QED
          BY <2>3, <2>5, <4>1
      <3>2. CASE i # n
        <4>1. i + 1 \in 1..n /\ (i + 1) + (m - n) = i + (m + 1 - n) /\ i + (m + 1 - n) \in 1..m
          BY <1>2, <1>4, <3>2 DEF m
        <4>2. u[i] = a[i + 1] /\ a[i + 1] = r[i + 1] /\ r[i + 1] = s[(i + 1) + (m - n)]
          BY <2>1, <2>2, <2>4, <4>1
        <4>3. v[i] = b[i + (m + 1 - n)] /\ b[i + (m + 1 - n)] = s[i + (m + 1 - n)]
          BY <2>3, <2>5, <4>1
        <4> QED
          BY <4>1, <4>2, <4>3
      <3> QED
        BY <3>1, <3>2
    <2>7. u = v
      BY <2>4, <2>5, <2>6, SeqEqual
    <2> QED
      BY <2>7 DEF u, v, a, b, r
  <1> QED
    BY <1>2, <1>3, <1>4

(* The window, entry by entry.                                             *)
LEMMA WindowIs ==
  ASSUME NEW V, NEW given \in Seq(V), NEW m \in 0..Len(given)
  PROVE  LET w == Window(given, m) IN
         /\ w \in Seq(V) /\ Len(w) = Least(m, MemoryItems)
         /\ \A k \in 1..Len(w) : k + Excess(m, MemoryItems) \in 1..m
         /\ \A k \in 1..Len(w) : w[k] = given[k + Excess(m, MemoryItems)]
  <1> DEFINE s == SubSeq(given, 1, m)
             w == Newest(s, MemoryItems)
             e == Excess(m, MemoryItems)
  <1>1. s \in Seq(V) /\ Len(s) = m /\ \A i \in 1..m : s[i] = given[i]
    OBVIOUS
  <1>2. MemoryItems \in Nat
    BY ProvidersAssumption
  <1> HIDE DEF s
  <1>3. /\ w \in Seq(V) /\ Len(w) = Least(Len(s), MemoryItems)
        /\ \A i \in 1..Len(w) : i + Excess(Len(s), MemoryItems) \in 1..Len(s)
        /\ \A i \in 1..Len(w) : w[i] = s[i + Excess(Len(s), MemoryItems)]
    BY <1>1, <1>2, NewestKeeps
  <1> HIDE DEF w
  <1>4. \A k \in 1..Len(w) : w[k] = given[k + e]
    BY <1>1, <1>3
  <1> QED
    BY <1>1, <1>3, <1>4 DEF w, s, Window

(* Windows of plain instructions are lists that memory can hold.           *)
LEMMA PlainKeeps ==
  ASSUME NEW given \in Seq(Texts), Plain(given)
  PROVE  /\ \A i \in 1..Len(given) : given[i] \in Texts /\ BoundedText(given[i]) = given[i]
         /\ \A i, j \in 1..Len(given) : given[i] = given[j] => i = j
         /\ \A m \in 0..Len(given) : Window(given, m) \in Kept /\ NoRepeats(Window(given, m))
  <1>1. \A i \in 1..Len(given) : given[i] \in ToSet(given) /\ given[i] \in Texts
    BY DEF ToSet
  <1>2. \A i \in 1..Len(given) : given[i] \notin DOMAIN Cut
    BY <1>1 DEF Plain
  <1>3. \A i, j \in 1..Len(given) : given[i] = given[j] => i = j
    BY DEF Plain, NoRepeats
  <1>4. ASSUME NEW m \in 0..Len(given)
        PROVE  Window(given, m) \in Kept /\ NoRepeats(Window(given, m))
    <2> DEFINE w == Window(given, m)
               e == Excess(m, MemoryItems)
    <2>1. /\ w \in Seq(Texts) /\ Len(w) = Least(m, MemoryItems)
          /\ \A k \in 1..Len(w) : k + e \in 1..m /\ w[k] = given[k + e]
      BY WindowIs
    <2>2. m \in Nat /\ MemoryItems \in Nat /\ e \in Nat
      BY ProvidersAssumption DEF Excess
    <2> HIDE DEF w, e
    <2>3. \A k \in 1..Len(w) : k + e \in 1..Len(given)
      BY <2>1, <2>2
    <2>4. ToSet(w) \subseteq Remembered
      BY <1>1, <1>2, <2>1, <2>3 DEF ToSet, Remembered
    <2>5. Len(w) <= MemoryItems
      BY <2>1, <2>2 DEF Least
    <2>6. NoRepeats(w)
      <3> SUFFICES ASSUME NEW i \in 1..Len(w), NEW j \in 1..Len(w), w[i] = w[j] PROVE i = j
        BY DEF NoRepeats
      <3>1. i + e = j + e
        BY <1>3, <2>1, <2>3
      <3> QED
        BY <2>2, <3>1
    <2> QED
      BY <2>1, <2>4, <2>5, <2>6, SeqOfToSet DEF Kept, w
  <1> QED
    BY <1>1, <1>2, <1>3, <1>4 DEF BoundedText

(* An instruction that memory holds stays where it is, and a new one       *)
(* becomes the newest.                                                     *)
LEMMA PlainAppended ==
  ASSUME NEW items \in Kept, NEW value \in Texts, BoundedText(value) = value
  PROVE  /\ value \in ToSet(items) => AppendBounded(items, value) = items
         /\ value \notin ToSet(items) =>
              AppendBounded(items, value) = Newest(Append(items, value), MemoryItems)
  BY AppendBoundedKeeps, ContainsIsMember DEF Kept

(* The window moves by one.                                                *)
LEMMA WindowGrows ==
  ASSUME NEW given \in Seq(Texts), NEW m \in 1..Len(given)
  PROVE  Newest(Append(Window(given, m - 1), given[m]), MemoryItems) = Window(given, m)
  <1> DEFINE s == SubSeq(given, 1, m - 1)
             t == SubSeq(given, 1, m)
             x == given[m]
  <1>1. s \in Seq(Texts) /\ t \in Seq(Texts) /\ x \in Texts /\ MemoryItems \in Nat \ {0}
    BY ProvidersAssumption
  <1>2. Append(s, x) = t
    <2> DEFINE a == Append(s, x)
    <2>1. a \in Seq(Texts) /\ Len(s) = m - 1 /\ Len(a) = m /\ Len(t) = m
      OBVIOUS
    <2>2. ASSUME NEW i \in 1..m PROVE a[i] = t[i]
      <3>1. CASE i = m
        BY <3>1
      <3>2. CASE i # m
        <4>1. i \in 1..(m - 1)
          BY <3>2
        <4>2. s[i] = given[i] /\ t[i] = given[i]
          BY <4>1
        <4>3. a[i] = s[i]
          BY <2>1, <4>1
        <4> QED
          BY <4>2, <4>3
      <3> QED
        BY <3>1, <3>2
    <2> HIDE DEF a, t
    <2>3. a = t
      BY <1>1, <2>1, <2>2, SeqEqual
    <2> QED
      BY <2>3 DEF a
  <1> HIDE DEF s, t, x
  <1>3. Newest(Append(Newest(s, MemoryItems), x), MemoryItems) = Newest(Append(s, x), MemoryItems)
    BY <1>1, NewestOfAppend
  <1> QED
    BY <1>2, <1>3 DEF Window, s, t, x

(* The rules look again at what memory holds, and go on from there.        *)
LEMMA OverlapKeepsWindow ==
  ASSUME NEW given \in Seq(Texts), Plain(given), NEW p \in 0..Len(given),
         NEW start \in 0..p, Excess(p, MemoryItems) <= start,
         NEW looked, Len(looked) = Len(given) - start,
         \A i \in 1..Len(looked) : looked[i] = given[start + i],
         NEW kept \in [0..Len(looked) -> Kept], KeepsEach(kept, Window(given, p), looked)
  PROVE  kept[Len(looked)] = Window(given, Len(given))
  <1> DEFINE n == Len(looked)
             q == Len(given)
             Most(j) == IF p <= j THEN j ELSE p
             Good(i) == kept[i] = Window(given, Most(start + i))
             S == {i \in 0..n : Good(i)}
  <1>1. q \in Nat /\ n = q - start /\ n \in Nat /\ p \in 0..q /\ start \in 0..p
    OBVIOUS
  <1>2. /\ kept[0] = Window(given, p)
        /\ \A i \in 1..n : kept[i] = AppendBounded(kept[i - 1], given[start + i])
    BY DEF KeepsEach
  <1>3. /\ \A i \in 1..q : given[i] \in Texts /\ BoundedText(given[i]) = given[i]
        /\ \A i, j \in 1..q : given[i] = given[j] => i = j
    BY PlainKeeps
  <1> HIDE DEF n, q
  <1>4. Good(0)
    <2>1. Most(start + 0) = p
      BY <1>1
    <2> HIDE DEF Most
    <2> QED
      BY <1>2, <2>1
  <1>5. ASSUME NEW i \in 1..n, Good(i - 1) PROVE Good(i)
    <2> DEFINE j == start + i
               items == kept[i - 1]
               x == given[j]
    <2>1. j \in 1..q /\ i - 1 \in 0..n /\ start + (i - 1) = j - 1
      BY <1>1
    <2>2. items \in Kept /\ x \in Texts /\ BoundedText(x) = x
      BY <1>3, <2>1 DEF n
    <2>3. kept[i] = AppendBounded(items, x)
      BY <1>2
    <2>4. items = Window(given, Most(j - 1))
      BY <1>5, <2>1
    <2> HIDE DEF items, x
    <2>5. CASE j <= p
      <3>1. Most(j - 1) = p /\ Most(j) = p
        BY <1>1, <2>1, <2>5
      <3>2. x \in ToSet(items)
        <4> DEFINE e == Excess(p, MemoryItems)
                   k == j - e
        <4>1. /\ items \in Seq(Texts) /\ Len(items) = Least(p, MemoryItems)
              /\ \A l \in 1..Len(items) : items[l] = given[l + e]
          BY <2>4, <3>1, WindowIs
        <4>2. k \in 1..Len(items) /\ k + e = j
          BY <1>1, <2>1, <2>5, <4>1, ProvidersAssumption DEF Excess, Least
        <4> HIDE DEF k, e
        <4>3. items[k] = given[j]
          BY <4>1, <4>2
        <4> QED
          BY <4>1, <4>2, <4>3 DEF ToSet, x
      <3>3. kept[i] = items
        BY <2>2, <2>3, <3>2, PlainAppended
      <3> HIDE DEF Most
      <3> QED
        BY <2>4, <3>1, <3>3
    <2>6. CASE ~(j <= p)
      <3>1. Most(j - 1) = j - 1 /\ Most(j) = j
        BY <1>1, <2>1, <2>6
      <3>2. x \notin ToSet(items)
        <4> DEFINE e == Excess(j - 1, MemoryItems)
        <4>0. j - 1 \in 0..q
          BY <1>1, <2>1
        <4>1. /\ items \in Seq(Texts)
              /\ \A l \in 1..Len(items) : l + e \in 1..(j - 1) /\ items[l] = given[l + e]
          BY <2>4, <3>1, <4>0, WindowIs DEF q
        <4> HIDE DEF e
        <4>2. ASSUME NEW l \in 1..Len(items) PROVE items[l] # x
          <5>1. l + e \in 1..q /\ l + e # j
            BY <1>1, <2>1, <4>1
          <5> QED
            BY <1>3, <2>1, <4>1, <5>1 DEF x
        <4> QED
          BY <4>1, <4>2 DEF ToSet
      <3>3. kept[i] = Newest(Append(items, x), MemoryItems)
        BY <2>2, <2>3, <3>2, PlainAppended
      <3>4. kept[i] = Window(given, j)
        BY <2>1, <2>4, <3>1, <3>3, WindowGrows DEF x, q
      <3> HIDE DEF Most
      <3> QED
        BY <3>1, <3>4
    <2> QED
      BY <2>5, <2>6
  <1>6. 0..n \subseteq S
    <2>1. \A i \in 1..n : i - 1 \in S => i \in S
      <3> HIDE DEF Good
      <3> QED
        BY <1>1, <1>5
    <2>2. 0 \in S
      <3> HIDE DEF Good
      <3> QED
        BY <1>1, <1>4
    <2> HIDE DEF S
    <2> QED
      BY <1>1, <2>1, <2>2, Climb
  <1>7. Good(n)
    <2> HIDE DEF Good
    <2> QED
      BY <1>1, <1>6
  <1>8. Most(start + n) = q
    BY <1>1
  <1> HIDE DEF Most
  <1> QED
    BY <1>7, <1>8 DEF n, q

(* The first p instructions that memory holds, and i more after "start".   *)
Joined(given, p, start, i) ==
  [t \in 1..(Least(p, MemoryItems) + i) |->
     IF t <= Least(p, MemoryItems) THEN given[p - Least(p, MemoryItems) + t]
                                   ELSE given[start + t - Least(p, MemoryItems)]]

(* The same, entry by entry.                                               *)
LEMMA JoinedIs ==
  ASSUME NEW given \in Seq(Texts), NEW p \in 0..Len(given), NEW start \in Nat, NEW i \in Nat,
         start + i <= Len(given)
  PROVE  LET z == Joined(given, p, start, i)
             w == Least(p, MemoryItems) IN
         /\ z \in Seq(Texts) /\ Len(z) = w + i
         /\ \A t \in 1..w : z[t] = given[p - w + t]
         /\ \A t \in 1..i : z[w + t] = given[start + t]
  <1> DEFINE w == Least(p, MemoryItems)
             z == Joined(given, p, start, i)
             At(t) == IF t <= w THEN given[p - w + t] ELSE given[start + t - w]
  <1>1. w \in 0..p /\ w + i \in Nat /\ Len(given) \in Nat
    BY ProvidersAssumption DEF Least
  <1>2. z = [t \in 1..(w + i) |-> At(t)]
    BY DEF Joined
  <1> HIDE DEF w, z
  <1>3. ASSUME NEW t \in 1..(w + i) PROVE At(t) \in Texts
    <2>1. CASE t <= w
      <3>1. p - w + t \in 1..Len(given)
        BY <1>1, <2>1
      <3> QED
        BY <2>1, <3>1
    <2>2. CASE ~(t <= w)
      <3>1. start + t - w \in 1..Len(given)
        BY <1>1, <2>2
      <3> QED
        BY <2>2, <3>1
    <2> QED
      BY <2>1, <2>2
  <1>4. z \in Seq(Texts) /\ Len(z) = w + i
    <2> HIDE DEF At
    <2> QED
      BY <1>1, <1>2, <1>3
  <1>5. ASSUME NEW t \in 1..w PROVE z[t] = given[p - w + t]
    <2>1. t \in 1..(w + i) /\ t <= w
      BY <1>1
    <2> QED
      BY <1>2, <2>1
  <1>6. ASSUME NEW t \in 1..i PROVE z[w + t] = given[start + t]
    <2>1. w + t \in 1..(w + i) /\ ~(w + t <= w) /\ start + (w + t) - w = start + t
      BY <1>1
    <2> QED
      BY <1>2, <2>1
  <1> QED
    BY <1>4, <1>5, <1>6 DEF z, w

(* Nothing that the rules look at is still in memory when they do: either  *)
(* all of it is new, or each instruction has been pushed out by those      *)
(* before it.                                                              *)
LEMMA GapFillsWindow ==
  ASSUME NEW given \in Seq(Texts), Plain(given), NEW p \in 0..Len(given),
         NEW start \in 0..Len(given), start < Excess(p, MemoryItems) \/ p < start,
         NEW looked, Len(looked) = Len(given) - start,
         \A i \in 1..Len(looked) : looked[i] = given[start + i],
         MemoryItems <= Len(looked),
         NEW kept \in [0..Len(looked) -> Kept], KeepsEach(kept, Window(given, p), looked)
  PROVE  kept[Len(looked)] = Window(given, Len(given))
  <1> DEFINE n == Len(looked)
             q == Len(given)
             w == Least(p, MemoryItems)
             Z(i) == Joined(given, p, start, i)
             Good(i) == kept[i] = Newest(Z(i), MemoryItems)
             S == {i \in 0..n : Good(i)}
  <1>1. /\ q \in Nat /\ n = q - start /\ n \in Nat /\ p \in 0..q /\ start \in 0..q
        /\ MemoryItems \in Nat \ {0} /\ w \in 0..p /\ w <= MemoryItems
    BY ProvidersAssumption DEF Least
  <1>2. /\ kept[0] = Window(given, p)
        /\ \A i \in 1..n : kept[i] = AppendBounded(kept[i - 1], given[start + i])
    BY DEF KeepsEach
  <1>3. /\ \A i \in 1..q : given[i] \in Texts /\ BoundedText(given[i]) = given[i]
        /\ \A i, j \in 1..q : given[i] = given[j] => i = j
    BY PlainKeeps
  <1>4. ASSUME NEW i \in 0..n
        PROVE  /\ Z(i) \in Seq(Texts) /\ Len(Z(i)) = w + i
               /\ \A t \in 1..w : Z(i)[t] = given[p - w + t]
               /\ \A t \in 1..i : Z(i)[w + t] = given[start + t]
    <2>1. i \in Nat /\ start \in Nat /\ start + i <= Len(given)
      BY <1>1
    <2> QED
      BY <2>1, JoinedIs
  <1>5. start < p - w \/ p < start
    BY <1>1 DEF Excess, Least
  <1>6. start < p - w => w = MemoryItems
    BY <1>1 DEF Least
  <1> HIDE DEF n, q, w, Z
  <1>7. Good(0)
    <2> DEFINE u == Window(given, p)
    <2>1. /\ u \in Seq(Texts) /\ Len(u) = w
          /\ \A k \in 1..w : u[k] = given[k + Excess(p, MemoryItems)]
      BY WindowIs DEF w, q
    <2>2. Excess(p, MemoryItems) = p - w
      BY <1>1 DEF Excess, Least, w
    <2>3. Z(0) \in Seq(Texts) /\ Len(Z(0)) = w /\ \A t \in 1..w : Z(0)[t] = given[p - w + t]
      BY <1>1, <1>4
    <2> HIDE DEF u
    <2>4. ASSUME NEW k \in 1..w PROVE u[k] = Z(0)[k]
      <3>1. k + (p - w) = p - w + k
        BY <1>1
      <3> QED
        BY <2>1, <2>2, <2>3, <3>1
    <2>5. u = Z(0)
      BY <2>1, <2>3, <2>4, SeqEqual
    <2>6. Newest(Z(0), MemoryItems) = Z(0)
      BY <1>1, <2>3, NewestAmong
    <2> QED
      BY <1>2, <2>5, <2>6 DEF u
  <1>8. ASSUME NEW i \in 1..n, Good(i - 1) PROVE Good(i)
    <2> DEFINE j == start + i
               items == kept[i - 1]
               x == given[j]
               z == Z(i - 1)
               e == Excess(w + (i - 1), MemoryItems)
    <2>1. j \in 1..q /\ i - 1 \in 0..n /\ i \in 0..n
      BY <1>1
    <2>2. items \in Kept /\ x \in Texts /\ BoundedText(x) = x
      BY <1>3, <2>1 DEF n
    <2>3. kept[i] = AppendBounded(items, x)
      BY <1>2
    <2>4. items = Newest(z, MemoryItems)
      BY <1>8
    <2>5. /\ z \in Seq(Texts) /\ Len(z) = w + (i - 1)
          /\ \A t \in 1..w : z[t] = given[p - w + t]
          /\ \A t \in 1..(i - 1) : z[w + t] = given[start + t]
      BY <1>4, <2>1
    <2> HIDE DEF items, z, x
    <2>6. x \notin ToSet(items)
      <3>1. /\ items \in Seq(Texts)
            /\ \A k \in 1..Len(items) : k + e \in 1..(w + (i - 1)) /\ items[k] = z[k + e]
        <4>1. MemoryItems \in Nat
          BY <1>1
        <4>2. LET r == Newest(z, MemoryItems) IN
              /\ r \in Seq(Texts)
              /\ \A k \in 1..Len(r) : k + Excess(Len(z), MemoryItems) \in 1..Len(z)
              /\ \A k \in 1..Len(r) : r[k] = z[k + Excess(Len(z), MemoryItems)]
          BY <2>5, <4>1, NewestKeeps
        <4> QED
          BY <2>4, <2>5, <4>2
      <3>2. ASSUME NEW k \in 1..Len(items) PROVE items[k] # x
        <4> DEFINE t == k + e
        <4>1. t \in 1..(w + (i - 1)) /\ items[k] = z[t]
          BY <3>1
        <4>2. CASE t <= w
          <5>1. z[t] = given[p - w + t]
            BY <2>5, <4>1, <4>2
          <5>2. p - w + t \in 1..q
            BY <1>1, <4>1, <4>2
          <5>3. p - w + t # j
            <6>1. CASE p < start
              BY <1>1, <4>1, <4>2, <6>1
            <6>2. CASE start < p - w
              <7>1. w = MemoryItems
                BY <1>6, <6>2
              <7>2. e = i - 1
                BY <1>1, <7>1 DEF Excess
              <7>3. t >= i
                BY <3>1, <7>2
              <7> HIDE DEF t, e
              <7> QED
                BY <1>1, <4>1, <6>2, <7>3
            <6> QED
              BY <1>5, <6>1, <6>2
          <5> HIDE DEF t
          <5> QED
            BY <1>3, <2>1, <4>1, <5>1, <5>2, <5>3 DEF x
        <4>3. CASE ~(t <= w)
          <5>1. t - w \in 1..(i - 1) /\ w + (t - w) = t
            BY <1>1, <4>1, <4>3
          <5>2. z[t] = given[start + (t - w)]
            BY <2>5, <5>1
          <5>3. start + (t - w) \in 1..q /\ start + (t - w) # j
            BY <1>1, <2>1, <5>1
          <5> HIDE DEF t
          <5> QED
            BY <1>3, <2>1, <4>1, <5>2, <5>3 DEF x
        <4> QED
          BY <4>2, <4>3
      <3> QED
        BY <3>1, <3>2 DEF ToSet
    <2>7. kept[i] = Newest(Append(items, x), MemoryItems)
      BY <2>2, <2>3, <2>6, PlainAppended
    <2>8. kept[i] = Newest(Append(z, x), MemoryItems)
      BY <1>1, <2>2, <2>4, <2>5, <2>7, NewestOfAppend
    <2>9. Append(z, x) = Z(i)
      <3> DEFINE a == Append(z, x)
                 y == Z(i)
      <3>1. /\ a \in Seq(Texts) /\ Len(a) = w + i /\ a[w + i] = x
            /\ \A t \in 1..(w + (i - 1)) : a[t] = z[t]
        BY <1>1, <2>2, <2>5
      <3>2. /\ y \in Seq(Texts) /\ Len(y) = w + i
            /\ \A t \in 1..w : y[t] = given[p - w + t]
            /\ \A t \in 1..i : y[w + t] = given[start + t]
        BY <1>4, <2>1
      <3> HIDE DEF a, y
      <3>3. ASSUME NEW t \in 1..(w + i) PROVE a[t] = y[t]
        <4>1. CASE t <= w
          <5>1. t \in 1..w /\ t \in 1..(w + (i - 1))
            BY <1>1, <4>1
          <5> QED
            BY <2>5, <3>1, <3>2, <5>1
        <4>2. CASE t = w + i
          <5>1. i \in 1..i
            BY <1>1
          <5> QED
            BY <3>1, <3>2, <4>2, <5>1 DEF x
        <4>3. CASE ~(t <= w) /\ t # w + i
          <5>1. t - w \in 1..(i - 1) /\ t - w \in 1..i /\ w + (t - w) = t /\ t \in 1..(w + (i - 1))
            <6>1. w \in Nat /\ i \in Nat /\ t \in Nat /\ w < t /\ t < w + i
              BY <1>1, <4>3
            <6> QED
              BY <6>1
          <5>2. y[t] = given[start + (t - w)] /\ z[t] = given[start + (t - w)]
            BY <2>5, <3>2, <5>1
          <5> QED
            BY <3>1, <5>1, <5>2
        <4> QED
          BY <4>1, <4>2, <4>3
      <3>4. a = y
        BY <3>1, <3>2, <3>3, SeqEqual
      <3> QED
        BY <3>4 DEF a, y
    <2> QED
      BY <2>8, <2>9
  <1>9. 0..n \subseteq S
    <2>1. \A i \in 1..n : i - 1 \in S => i \in S
      <3> HIDE DEF Good
      <3> QED
        BY <1>1, <1>8
    <2>2. 0 \in S
      <3> HIDE DEF Good
      <3> QED
        BY <1>1, <1>7
    <2> HIDE DEF S
    <2> QED
      BY <1>1, <2>1, <2>2, Climb
  <1>10. kept[n] = Newest(Z(n), MemoryItems)
    <2>1. Good(n)
      <3> HIDE DEF Good
      <3> QED
        BY <1>1, <1>9
    <2> QED
      BY <2>1
  <1>11. Newest(Z(n), MemoryItems) = Window(given, q)
    <2> DEFINE z == Z(n)
               M == MemoryItems
               u == Newest(z, M)
               v == Window(given, q)
    <2>1. /\ z \in Seq(Texts) /\ Len(z) = w + n /\ \A t \in 1..n : z[w + t] = given[start + t]
      <3>1. n \in 0..n
        BY <1>1
      <3> HIDE DEF n, w
      <3> QED
        BY <3>1, <1>4
    <2>2. M <= n
      BY DEF n
    <2> HIDE DEF z
    <2>3. u \in Seq(Texts) /\ Len(u) = M /\ \A k \in 1..M : u[k] = z[k + (w + n - M)]
      <3>1. /\ u \in Seq(Texts) /\ Len(u) = Least(Len(z), M)
            /\ \A k \in 1..Len(u) : u[k] = z[k + Excess(Len(z), M)]
        BY <1>1, <2>1, NewestKeeps
      <3>2. Least(w + n, M) = M /\ Excess(w + n, M) = w + n - M
        BY <1>1, <2>2 DEF Least, Excess
      <3> HIDE DEF u
      <3> QED
        BY <2>1, <3>1, <3>2
    <2>4. v \in Seq(Texts) /\ Len(v) = M /\ \A k \in 1..M : v[k] = given[k + (q - M)]
      <3>1. /\ v \in Seq(Texts) /\ Len(v) = Least(q, M)
            /\ \A k \in 1..Len(v) : v[k] = given[k + Excess(q, M)]
        <4>1. q \in 0..Len(given) /\ Len(given) \in Nat
          BY <1>1 DEF q
        <4> QED
          BY <4>1, WindowIs
      <3>2. Least(q, M) = M /\ Excess(q, M) = q - M
        BY <1>1, <2>2 DEF Least, Excess
      <3> HIDE DEF v
      <3> QED
        BY <3>1, <3>2
    <2> HIDE DEF u, v
    <2>5. ASSUME NEW k \in 1..M PROVE u[k] = v[k]
      <3>1. k + (n - M) \in 1..n /\ k + (w + n - M) = w + (k + (n - M))
            /\ start + (k + (n - M)) = k + (q - M)
        BY <1>1, <2>2
      <3>2. u[k] = z[w + (k + (n - M))]
        BY <2>3, <3>1
      <3>3. z[w + (k + (n - M))] = given[start + (k + (n - M))]
        BY <2>1, <3>1
      <3> QED
        BY <2>4, <3>1, <3>2, <3>3
    <2>6. u = v
      BY <2>3, <2>4, <2>5, SeqEqual
    <2> QED
      BY <2>6 DEF u, v, z
  <1> QED
    BY <1>10, <1>11 DEF n, q

(* The rules turn the window up to an earlier instruction into the window  *)
(* over all of them: whether what they look at overlaps what they          *)
(* remember, or leaves a gap, or goes back beyond it.                      *)
LEMMA WindowMoves ==
  ASSUME NEW given \in Seq(Texts), Plain(given), NEW p \in 0..Len(given)
  PROVE  AppendInstructions(Window(given, p), given) = Window(given, Len(given))
  <1> DEFINE q == Len(given)
             start == Excess(q, InstructionLimit)
             looked == Newest(given, InstructionLimit)
             u == Window(given, p)
             e == Excess(p, MemoryItems)
  <1>1. /\ InstructionLimit \in Nat /\ MemoryItems \in Nat \ {0}
        /\ MemoryItems <= InstructionLimit /\ q \in Nat /\ p \in 0..q
    BY ProvidersAssumption, BudgetAssumption
  <1>2. start \in 0..q /\ Least(q, InstructionLimit) = q - start
    <2> HIDE DEF q
    <2> QED
      BY <1>1 DEF Excess, Least
  <1>3. /\ looked \in Seq(Texts) /\ Len(looked) = q - start
        /\ \A i \in 1..Len(looked) : looked[i] = given[start + i]
    <2>1. /\ looked \in Seq(Texts) /\ Len(looked) = Least(q, InstructionLimit)
          /\ \A i \in 1..Len(looked) : looked[i] = given[i + start]
      BY <1>1, NewestKeeps
    <2> HIDE DEF looked, start, q
    <2>2. \A i \in 1..Len(looked) : i + start = start + i
      BY <1>2
    <2> QED
      BY <1>2, <2>1, <2>2
  <1>4. u \in Kept
    BY PlainKeeps
  <1>5. PICK kept \in [0..Len(looked) -> Kept] :
           AppendEach(u, looked) = kept[Len(looked)] /\ KeepsEach(kept, u, looked)
    <2> HIDE DEF looked, u
    <2> QED
      BY <1>3, <1>4, AppendEachLoop
  <1>6. AppendInstructions(u, given) = AppendEach(u, looked)
    BY DEF AppendInstructions
  <1>7. e \in 0..p
    <2> HIDE DEF q
    <2> QED
      BY <1>1 DEF Excess
  <1>8. CASE e <= start /\ start <= p
    <2>1. start \in 0..p
      <3> HIDE DEF start, q
      <3> QED
        BY <1>1, <1>2, <1>8
    <2> HIDE DEF start, looked
    <2> QED
      BY <1>3, <1>5, <1>6, <1>8, <2>1, OverlapKeepsWindow
  <1>9. CASE start < e \/ p < start
    <2>1. MemoryItems <= q - start
      <3> HIDE DEF q
      <3>1. CASE start = 0
        <4>1. MemoryItems <= p
          BY <1>1, <1>9, <3>1 DEF Excess
        <4> QED
          BY <1>1, <3>1, <4>1
      <3>2. CASE start # 0
        <4>1. q - start = InstructionLimit
          BY <1>1, <3>2 DEF Excess
        <4> QED
          BY <1>1, <4>1
      <3> QED
        BY <3>1, <3>2
    <2> HIDE DEF start, looked
    <2> QED
      BY <1>2, <1>3, <1>5, <1>6, <1>9, <2>1, GapFillsWindow
  <1>10. (e <= start /\ start <= p) \/ start < e \/ p < start
    <2> HIDE DEF e, start, q
    <2> QED
      BY <1>1, <1>2, <1>7
  <1> QED
    BY <1>8, <1>9, <1>10

(* Prefixes of what an operator said: of a prefix, of a list that grew,    *)
(* and of the whole.                                                       *)
LEMMA PrefixOfPrefix ==
  ASSUME NEW V, NEW s \in Seq(V), NEW q \in 0..Len(s), NEW p \in 0..q
  PROVE  /\ SubSeq(s, 1, q) \in Seq(V) /\ Len(SubSeq(s, 1, q)) = q
         /\ SubSeq(SubSeq(s, 1, q), 1, p) = SubSeq(s, 1, p)
  <1> DEFINE t == SubSeq(s, 1, q)
             a == SubSeq(t, 1, p)
             b == SubSeq(s, 1, p)
  <1>1. t \in Seq(V) /\ Len(t) = q /\ \A i \in 1..q : t[i] = s[i]
    OBVIOUS
  <1>2. b \in Seq(V) /\ Len(b) = p /\ \A i \in 1..p : b[i] = s[i]
    OBVIOUS
  <1> HIDE DEF t
  <1>3. a \in Seq(V) /\ Len(a) = p /\ \A i \in 1..p : a[i] = t[i]
    BY <1>1
  <1> HIDE DEF a, b
  <1>4. \A i \in 1..p : a[i] = b[i]
    BY <1>1, <1>2, <1>3
  <1>5. a = b
    BY <1>2, <1>3, <1>4, SeqEqual
  <1> QED
    BY <1>1, <1>5 DEF a, b, t

(* A prefix stays when something is appended.                              *)
LEMMA PrefixOfAppend ==
  ASSUME NEW V, NEW s \in Seq(V), NEW x \in V, NEW p \in 0..Len(s)
  PROVE  SubSeq(Append(s, x), 1, p) = SubSeq(s, 1, p)
  <1> DEFINE t == Append(s, x)
             a == SubSeq(t, 1, p)
             b == SubSeq(s, 1, p)
  <1>1. t \in Seq(V) /\ Len(t) = Len(s) + 1 /\ \A i \in 1..Len(s) : t[i] = s[i]
    OBVIOUS
  <1>2. b \in Seq(V) /\ Len(b) = p /\ \A i \in 1..p : b[i] = s[i]
    OBVIOUS
  <1> HIDE DEF t
  <1>3. a \in Seq(V) /\ Len(a) = p /\ \A i \in 1..p : a[i] = t[i]
    BY <1>1
  <1> HIDE DEF a, b
  <1>4. \A i \in 1..p : a[i] = b[i]
    BY <1>1, <1>2, <1>3
  <1>5. a = b
    BY <1>2, <1>3, <1>4, SeqEqual
  <1> QED
    BY <1>5 DEF a, b, t

(* A list is its own prefix.                                               *)
LEMMA WholeIsPrefix ==
  ASSUME NEW V, NEW s \in Seq(V)
  PROVE  SubSeq(s, 1, Len(s)) = s
  <1> DEFINE b == SubSeq(s, 1, Len(s))
  <1>1. b \in Seq(V) /\ Len(b) = Len(s) /\ \A i \in 1..Len(s) : b[i] = s[i]
    OBVIOUS
  <1> HIDE DEF b
  <1>2. b = s
    BY <1>1, SeqEqual
  <1> QED
    BY <1>2 DEF b

(* A prefix repeats nothing and cuts nothing when the list does not.       *)
LEMMA PlainPrefix ==
  ASSUME NEW s \in Seq(Texts), NEW p \in 0..Len(s), Plain(s)
  PROVE  Plain(SubSeq(s, 1, p))
  <1> DEFINE t == SubSeq(s, 1, p)
  <1>1. t \in Seq(Texts) /\ Len(t) = p /\ \A i \in 1..p : i \in 1..Len(s) /\ t[i] = s[i]
    OBVIOUS
  <1> HIDE DEF t
  <1>2. NoRepeats(t)
    BY <1>1 DEF Plain, NoRepeats
  <1>3. ToSet(t) \subseteq ToSet(s)
    BY <1>1 DEF ToSet
  <1>4. Plain(t)
    BY <1>2, <1>3 DEF Plain
  <1> QED
    BY <1>4 DEF t
=============================================================================
