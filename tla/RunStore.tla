------------------------------ MODULE RunStore ------------------------------
(***************************************************************************)
(* The two Activities that write to PostgreSQL for one run, and their      *)
(* execution at least once: persist_workflow_transition and                *)
(* execute_business_action, with the repositories they call.               *)
(*                                                                         *)
(* The workflow has at most one Activity in progress ("call").  The server *)
(* runs it in attempts: an attempt that it no longer waits for, after a    *)
(* timeout, may still be running in its worker, and may commit long after  *)
(* the workflow has gone on.  Every attempt is one transaction.            *)
(*                                                                         *)
(* Transitions are numbered, as their activity_key numbers them; the run   *)
(* row is abstracted to the number of the transition whose snapshot it     *)
(* shows, zero before the first.                                           *)
(***************************************************************************)
EXTENDS Naturals, FiniteSets

CONSTANTS
  Deeds,           \* the idempotency keys of the business actions proposed
  Attempts,        \* attempts that can be alive at one time (a model bound)
  MaximumAttempts, \* of the retry policy
  MaxTransitions   \* bound on the transitions the workflow records

ASSUME DeedsAssumption == Deeds \cap Nat = {}
ASSUME StoreBounds == MaximumAttempts \in Nat \ {0} /\ MaxTransitions \in Nat

NoCall == 0
Idle == [key |-> NoCall, phase |-> "idle"]
Keys == Nat \cup Deeds

VARIABLES
  acknowledged,    \* transitions the workflow has popped from its queue
  call,            \* key of the Activity in progress, or NoCall
  tries,           \* attempts made in this execution of it
  listening,       \* the attempts whose answer the server still waits for
  attempt,         \* what each attempt is doing
  transitions,     \* table activities: the transitions in it ...
  deeds,           \* ... and the business actions in it
  row,             \* table runs: the transition the row shows
  proposed, confirmed, failed  \* deeds called, reported executed, reported failed

tables == <<transitions, deeds, row>>
outcomes == <<proposed, confirmed, failed>>
storeVars == <<acknowledged, call, tries, listening, attempt, tables, outcomes>>

StoreInit ==
  /\ acknowledged = 0 /\ call = NoCall /\ tries = 0
  /\ listening = {}
  /\ attempt = [a \in Attempts |-> Idle]
  /\ transitions = {} /\ deeds = {} /\ row = 0
  /\ proposed = {} /\ confirmed = {} /\ failed = {}

InTable(key) == key \in transitions \cup deeds

(* The transactions that hold the unique key, or the lock of the run row.  *)
HoldsKey(key) == {a \in Attempts : attempt[a].key = key
                                   /\ attempt[a].phase \in {"inserted", "updated"}}
HoldsRow == {a \in Attempts : attempt[a].phase = "updated"}

Moves(a, phase) == attempt' = [attempt EXCEPT ![a].phase = phase]

-----------------------------------------------------------------------------
(* The workflow: one Activity at a time.                                   *)

(* The head of the queue, again with the same key in a recovery cycle.     *)
PersistTransition ==
  /\ call = NoCall
  /\ acknowledged < MaxTransitions
  /\ call' = acknowledged + 1
  /\ tries' = 0
  /\ UNCHANGED <<acknowledged, listening, attempt, tables, outcomes>>

ProposeDeed(deed) ==
  /\ call = NoCall
  /\ deed \notin proposed
  /\ call' = deed
  /\ tries' = 0
  /\ proposed' = proposed \cup {deed}
  /\ UNCHANGED <<acknowledged, listening, attempt, tables, confirmed, failed>>

-----------------------------------------------------------------------------
(* The Temporal server.                                                    *)

(* Fault: one attempt too many.                                            *)
DispatchOnceMore(a) ==
  /\ call # NoCall
  /\ listening = {} /\ tries <= MaximumAttempts
  /\ attempt[a] = Idle
  /\ attempt' = [attempt EXCEPT ![a] = [key |-> call, phase |-> "started"]]
  /\ listening' = {a}
  /\ tries' = tries + 1
  /\ UNCHANGED <<acknowledged, call, tables, outcomes>>

Dispatch(a) ==
  /\ call # NoCall
  /\ listening = {} /\ tries < MaximumAttempts
  /\ attempt[a] = Idle
  /\ attempt' = [attempt EXCEPT ![a] = [key |-> call, phase |-> "started"]]
  /\ listening' = {a}
  /\ tries' = tries + 1
  /\ UNCHANGED <<acknowledged, call, tables, outcomes>>

(* start_to_close passes: the attempt goes on, but nobody listens to it.   *)
TimeOut ==
  /\ listening # {}
  /\ listening' = {}
  /\ UNCHANGED <<acknowledged, call, tries, attempt, tables, outcomes>>

(* Fault: the run is not supervised on after an outage of the database.    *)
GiveUpForGood ==
  /\ call \in Deeds
  /\ listening = {} /\ tries > 0
  /\ call' = NoCall
  /\ failed' = failed \cup {call}
  /\ UNCHANGED <<acknowledged, tries, listening, attempt, tables, proposed, confirmed>>

(* No attempts are left, or schedule_to_close passed before the next one.  *)
(* The workflow keeps a transition at the head of its queue for the next   *)
(* recovery cycle, and records a business action as failed.                *)
GiveUp ==
  /\ call # NoCall
  /\ listening = {} /\ tries > 0
  /\ call' = NoCall
  /\ failed' = IF call \in Deeds THEN failed \cup {call} ELSE failed
  /\ UNCHANGED <<acknowledged, tries, listening, attempt, tables, proposed, confirmed>>

(* The answer of an attempt that committed arrives, when it is awaited.    *)
Answer(a) ==
  /\ attempt[a].phase = "committed"
  /\ attempt' = [attempt EXCEPT ![a] = Idle]
  /\ IF a \in listening
     THEN /\ listening' = {} /\ call' = NoCall
          /\ acknowledged' = IF call \in Deeds THEN acknowledged ELSE acknowledged + 1
          /\ confirmed' = IF call \in Deeds THEN confirmed \cup {call} ELSE confirmed
     ELSE UNCHANGED <<listening, call, acknowledged, confirmed>>
  /\ UNCHANGED <<tries, tables, proposed, failed>>

-----------------------------------------------------------------------------
(* An attempt, in its worker.                                              *)

(* Fault: the key is not unique.                                           *)
InsertAlways(a) ==
  /\ attempt[a].phase = "started"
  /\ Moves(a, "inserted")
  /\ UNCHANGED <<acknowledged, call, tries, listening, tables, outcomes>>

(* INSERT ... ON CONFLICT DO NOTHING: waits for a transaction that holds   *)
(* the key, then inserts, or finds the row of an earlier attempt.          *)
Insert(a) ==
  /\ attempt[a].phase = "started"
  /\ HoldsKey(attempt[a].key) = {}
  /\ Moves(a, IF InTable(attempt[a].key) THEN "found" ELSE "inserted")
  /\ UNCHANGED <<acknowledged, call, tries, listening, tables, outcomes>>

(* Fault: a row that exists is taken for a fresh one.                      *)
FoundIsFresh(a) ==
  /\ attempt[a].phase = "found"
  /\ Moves(a, "inserted")
  /\ UNCHANGED <<acknowledged, call, tries, listening, tables, outcomes>>

(* "if not created: return": the snapshot of the row is left alone.  The   *)
(* evidence of a business action is compared; a retry carries the same.    *)
ReturnExisting(a) ==
  /\ attempt[a].phase = "found"
  /\ Moves(a, "committed")
  /\ UNCHANGED <<acknowledged, call, tries, listening, tables, outcomes>>

(* Fault: the audit row is committed without the snapshot.                 *)
CommitLogOnly(a) ==
  /\ attempt[a].phase = "inserted" /\ attempt[a].key \notin Deeds
  /\ transitions' = transitions \cup {attempt[a].key}
  /\ Moves(a, "committed")
  /\ UNCHANGED <<acknowledged, call, tries, listening, deeds, row, outcomes>>

(* update_run_state, under the lock of the run row.                        *)
UpdateRun(a) ==
  /\ attempt[a].phase = "inserted" /\ attempt[a].key \notin Deeds
  /\ HoldsRow = {}
  /\ Moves(a, "updated")
  /\ UNCHANGED <<acknowledged, call, tries, listening, tables, outcomes>>

CommitTransition(a) ==
  /\ attempt[a].phase = "updated"
  /\ transitions' = transitions \cup {attempt[a].key}
  /\ row' = attempt[a].key
  /\ Moves(a, "committed")
  /\ UNCHANGED <<acknowledged, call, tries, listening, deeds, outcomes>>

CommitDeed(a) ==
  /\ attempt[a].phase = "inserted" /\ attempt[a].key \in Deeds
  /\ deeds' = deeds \cup {attempt[a].key}
  /\ Moves(a, "committed")
  /\ UNCHANGED <<acknowledged, call, tries, listening, transitions, row, outcomes>>

(* The database refuses, the connection or the worker dies: an open        *)
(* transaction is rolled back, an answer is lost.  The server notices at   *)
(* once or at the timeout.                                                 *)
Fail(a) ==
  /\ attempt[a].phase # "idle"
  /\ attempt' = [attempt EXCEPT ![a] = Idle]
  /\ listening' \in {listening, listening \ {a}}
  /\ UNCHANGED <<acknowledged, call, tries, tables, outcomes>>

Worker(a) == Insert(a) \/ ReturnExisting(a) \/ UpdateRun(a) \/ CommitTransition(a)
             \/ CommitDeed(a)

StoreNext ==
  \/ PersistTransition \/ TimeOut \/ GiveUp
  \/ \E deed \in Deeds : ProposeDeed(deed)
  \/ \E a \in Attempts : Dispatch(a) \/ Answer(a) \/ Worker(a) \/ Fail(a)

StoreSpec == StoreInit /\ [][StoreNext]_storeVars

(* Workers and server keep going, whoever listens.                         *)
StoreFairness ==
  /\ WF_storeVars(PersistTransition) /\ WF_storeVars(GiveUp) /\ WF_storeVars(TimeOut)
  /\ WF_storeVars(\E a \in Attempts : Dispatch(a))
  /\ \A a \in Attempts : WF_storeVars(Worker(a)) /\ WF_storeVars(Answer(a))

FairStoreSpec == StoreSpec /\ StoreFairness

-----------------------------------------------------------------------------
(* The type invariant.                                                     *)

Phases == {"idle", "started", "inserted", "found", "updated", "committed"}

StoreTypeOK ==
  /\ acknowledged \in Nat
  /\ call \in Keys
  /\ tries \in 0..MaximumAttempts
  /\ listening \subseteq Attempts
  /\ attempt \in [Attempts -> [key : Keys, phase : Phases]]
  /\ transitions \subseteq Nat /\ deeds \subseteq Deeds /\ row \in Nat
  /\ proposed \subseteq Deeds /\ confirmed \subseteq Deeds /\ failed \subseteq Deeds

(* The audit log has no gap and the run row shows its last transition,     *)
(* whatever attempts died, timed out, were repeated, or outlived the call  *)
(* they were made for; the workflow has seen all of it but perhaps the     *)
(* last one.                                                               *)
RowMatchesLog ==
  /\ transitions = 1..row
  /\ row \in {acknowledged, acknowledged + 1}

(* One row for a key: the transaction that enters a key is the first to.   *)
OneRowPerKey ==
  [][\A a \in Attempts :
       attempt[a].phase \in {"inserted", "updated"} /\ attempt'[a].phase = "committed"
         => ~InTable(attempt[a].key)]_storeVars

Log == INSTANCE AuditLog WITH
  log <- row, shown <- row, known <- acknowledged, done <- deeds

(* The store keeps the promise of AuditLog.                                *)
ImplementsAuditLog == Log!LogSpec

(* Whatever happened in an outage of any length, once it is over, and no   *)
(* attempt fails or is too slow any more, every transition gets stored:    *)
(* the recovery cycles never drop the head of the queue.                   *)
Trouble(a) == Fail(a) \/ (TimeOut /\ a \in listening /\ attempt[a] # Idle)

EveryTransitionStored ==
  <>[][\A a \in Attempts : ~Trouble(a)]_storeVars => <>(acknowledged = MaxTransitions)
=============================================================================
