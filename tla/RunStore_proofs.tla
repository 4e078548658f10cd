--------------------------- MODULE RunStore_proofs ---------------------------
(***************************************************************************)
(* Proofs about RunStore: the audit log and the run row agree, and the     *)
(* store implements AuditLog, for every number of transitions, deeds,      *)
(* attempts and retries.                                                   *)
(***************************************************************************)
EXTENDS RunStore, FiniteSetTheorems, TLAPS

USE DEF tables, outcomes, NoCall

(* What an attempt may be doing.  A transaction that still holds its key   *)
(* is the only one to hold it, and the key is not in the table; a          *)
(* transition is at most one ahead of what the workflow has seen.          *)
AttemptsAgree ==
  \A a \in Attempts :
    LET key == attempt[a].key  phase == attempt[a].phase IN
    /\ phase = "idle" <=> attempt[a] = Idle
    /\ phase # "idle" => key \in Deeds \cup 1..(acknowledged + 1)
    /\ phase \in {"found", "committed"} => InTable(key)
    /\ phase \in {"inserted", "updated"} =>
         /\ ~InTable(key)
         /\ \A b \in HoldsKey(key) : b = a
    /\ phase = "updated" => key \notin Deeds

(* The Activity in progress, and the attempt that works for it.            *)
CallAgrees ==
  /\ call \in Deeds \cup {NoCall, acknowledged + 1}
  /\ \A a \in listening : call # NoCall /\ (attempt[a] = Idle \/ attempt[a].key = call)
  /\ confirmed \subseteq deeds

StoreInv == StoreTypeOK /\ RowMatchesLog /\ AttemptsAgree /\ CallAgrees

LEMMA InitStoreInv == StoreInit => StoreInv
  <1> SUFFICES ASSUME StoreInit
               PROVE  StoreInv
    OBVIOUS
  <1> USE DEF StoreInit
  <1>1. StoreTypeOK
    BY StoreBounds DEF StoreTypeOK, Keys, Idle, Phases
  <1>2. RowMatchesLog
    BY DEF RowMatchesLog
  <1>3. AttemptsAgree
    BY DEF AttemptsAgree, Idle
  <1>4. CallAgrees
    BY DEF CallAgrees
  <1> QED
    BY <1>1, <1>2, <1>3, <1>4 DEF StoreInv

LEMMA NextStoreTypeOK ==
  ASSUME StoreInv, [StoreNext]_storeVars
  PROVE  StoreTypeOK'
  <1> USE DEF StoreInv, StoreTypeOK, Keys, Moves, Phases, Idle
  <1>1. CASE PersistTransition
    BY <1>1, StoreBounds DEF PersistTransition
  <1>2. CASE TimeOut
    BY <1>2 DEF TimeOut
  <1>3. CASE GiveUp
    BY <1>3 DEF GiveUp
  <1>4. CASE \E deed \in Deeds : ProposeDeed(deed)
    BY <1>4, StoreBounds DEF ProposeDeed
  <1>5. ASSUME NEW a \in Attempts, Dispatch(a) PROVE StoreTypeOK'
    BY <1>5, StoreBounds DEF Dispatch
  <1>6. ASSUME NEW a \in Attempts, Answer(a) PROVE StoreTypeOK'
    BY <1>6 DEF Answer
  <1>7. ASSUME NEW a \in Attempts, Insert(a) PROVE StoreTypeOK'
    BY <1>7 DEF Insert
  <1>8. ASSUME NEW a \in Attempts, ReturnExisting(a) PROVE StoreTypeOK'
    BY <1>8 DEF ReturnExisting
  <1>9. ASSUME NEW a \in Attempts, UpdateRun(a) PROVE StoreTypeOK'
    BY <1>9 DEF UpdateRun
  <1>10. ASSUME NEW a \in Attempts, CommitTransition(a) PROVE StoreTypeOK'
    BY <1>10 DEF CommitTransition, AttemptsAgree
  <1>11. ASSUME NEW a \in Attempts, CommitDeed(a) PROVE StoreTypeOK'
    BY <1>11 DEF CommitDeed
  <1>12. ASSUME NEW a \in Attempts, Fail(a) PROVE StoreTypeOK'
    BY <1>12 DEF Fail
  <1>13. CASE UNCHANGED storeVars
    BY <1>13 DEF storeVars
  <1> QED
    BY <1>1, <1>2, <1>3, <1>4, <1>5, <1>6, <1>7, <1>8, <1>9, <1>10, <1>11, <1>12, <1>13
    DEF StoreNext, Worker

(* The transaction that enters a transition enters the one after the last. *)
LEMMA UpdatedIsNext ==
  ASSUME StoreInv, NEW a \in Attempts, attempt[a].phase \in {"inserted", "updated"},
         attempt[a].key \notin Deeds
  PROVE  attempt[a].key = row + 1 /\ row = acknowledged
  <1>1. attempt[a].key \in 1..(acknowledged + 1) /\ attempt[a].key \notin 1..row
    BY DEF StoreInv, AttemptsAgree, InTable, RowMatchesLog
  <1> QED
    BY <1>1 DEF StoreInv, StoreTypeOK, RowMatchesLog

(* An answer that is awaited is that of a key in the tables.               *)
LEMMA AwaitedIsWritten ==
  ASSUME StoreInv, NEW a \in Attempts, a \in listening, attempt[a].phase = "committed"
  PROVE  /\ attempt[a].key = call /\ call # NoCall
         /\ call \in Deeds => call \in deeds
         /\ call \notin Deeds => call = acknowledged + 1 /\ row = acknowledged + 1
  <1>1. attempt[a].key = call /\ InTable(call) /\ call # NoCall
    BY DEF StoreInv, CallAgrees, AttemptsAgree, Idle
  <1>2. ASSUME call \in Deeds PROVE call \in deeds
    BY <1>1, <1>2, DeedsAssumption DEF StoreInv, StoreTypeOK, InTable
  <1>3. ASSUME call \notin Deeds PROVE call = acknowledged + 1 /\ row = acknowledged + 1
    BY <1>1, <1>3 DEF StoreInv, StoreTypeOK, InTable, CallAgrees, RowMatchesLog
  <1> QED
    BY <1>1, <1>2, <1>3

LEMMA NextRowMatchesLog ==
  ASSUME StoreInv, [StoreNext]_storeVars
  PROVE  RowMatchesLog'
  <1> USE DEF StoreInv, StoreTypeOK, RowMatchesLog
  <1>1. CASE PersistTransition
    BY <1>1 DEF PersistTransition
  <1>2. CASE TimeOut
    BY <1>2 DEF TimeOut
  <1>3. CASE GiveUp
    BY <1>3 DEF GiveUp
  <1>4. CASE \E deed \in Deeds : ProposeDeed(deed)
    BY <1>4 DEF ProposeDeed
  <1>5. ASSUME NEW a \in Attempts, Dispatch(a) PROVE RowMatchesLog'
    BY <1>5 DEF Dispatch
  <1>6. ASSUME NEW a \in Attempts, Answer(a) PROVE RowMatchesLog'
    <2>1. CASE a \in listening
      BY <1>6, <2>1, AwaitedIsWritten DEF Answer
    <2>2. CASE a \notin listening
      BY <1>6, <2>2 DEF Answer
    <2> QED
      BY <2>1, <2>2
  <1>7. ASSUME NEW a \in Attempts, Insert(a) PROVE RowMatchesLog'
    BY <1>7 DEF Insert
  <1>8. ASSUME NEW a \in Attempts, ReturnExisting(a) PROVE RowMatchesLog'
    BY <1>8 DEF ReturnExisting
  <1>9. ASSUME NEW a \in Attempts, UpdateRun(a) PROVE RowMatchesLog'
    BY <1>9 DEF UpdateRun
  <1>10. ASSUME NEW a \in Attempts, CommitTransition(a) PROVE RowMatchesLog'
    <2>1. attempt[a].key = row + 1 /\ row = acknowledged
      BY <1>10, UpdatedIsNext DEF CommitTransition, AttemptsAgree
    <2> QED
      BY <1>10, <2>1 DEF CommitTransition
  <1>11. ASSUME NEW a \in Attempts, CommitDeed(a) PROVE RowMatchesLog'
    BY <1>11 DEF CommitDeed
  <1>12. ASSUME NEW a \in Attempts, Fail(a) PROVE RowMatchesLog'
    BY <1>12 DEF Fail
  <1>13. CASE UNCHANGED storeVars
    BY <1>13 DEF storeVars
  <1> QED
    BY <1>1, <1>2, <1>3, <1>4, <1>5, <1>6, <1>7, <1>8, <1>9, <1>10, <1>11, <1>12, <1>13
    DEF StoreNext, Worker

LEMMA NextAttemptsAgree ==
  ASSUME StoreInv, [StoreNext]_storeVars
  PROVE  AttemptsAgree'
  <1> USE DEF StoreInv, StoreTypeOK, AttemptsAgree, InTable, HoldsKey, Idle, Moves, Phases
  <1>1. CASE PersistTransition
    BY <1>1 DEF PersistTransition
  <1>2. CASE TimeOut
    BY <1>2 DEF TimeOut
  <1>3. CASE GiveUp
    BY <1>3 DEF GiveUp
  <1>4. CASE \E deed \in Deeds : ProposeDeed(deed)
    BY <1>4 DEF ProposeDeed
  <1>5. ASSUME NEW a \in Attempts, Dispatch(a) PROVE AttemptsAgree'
    BY <1>5 DEF Dispatch, CallAgrees
  <1>6. ASSUME NEW a \in Attempts, Answer(a) PROVE AttemptsAgree'
    <2>1. CASE a \in listening
      BY <1>6, <2>1, AwaitedIsWritten DEF Answer
    <2>2. CASE a \notin listening
      BY <1>6, <2>2 DEF Answer
    <2> QED
      BY <2>1, <2>2
  <1>7. ASSUME NEW a \in Attempts, Insert(a) PROVE AttemptsAgree'
    BY <1>7 DEF Insert
  <1>8. ASSUME NEW a \in Attempts, ReturnExisting(a) PROVE AttemptsAgree'
    BY <1>8 DEF ReturnExisting
  <1>9. ASSUME NEW a \in Attempts, UpdateRun(a) PROVE AttemptsAgree'
    BY <1>9 DEF UpdateRun
  <1>10. ASSUME NEW a \in Attempts, CommitTransition(a) PROVE AttemptsAgree'
    BY <1>10 DEF CommitTransition
  <1>11. ASSUME NEW a \in Attempts, CommitDeed(a) PROVE AttemptsAgree'
    BY <1>11 DEF CommitDeed
  <1>12. ASSUME NEW a \in Attempts, Fail(a) PROVE AttemptsAgree'
    BY <1>12 DEF Fail
  <1>13. CASE UNCHANGED storeVars
    BY <1>13 DEF storeVars
  <1> QED
    BY <1>1, <1>2, <1>3, <1>4, <1>5, <1>6, <1>7, <1>8, <1>9, <1>10, <1>11, <1>12, <1>13
    DEF StoreNext, Worker

LEMMA NextCallAgrees ==
  ASSUME StoreInv, [StoreNext]_storeVars
  PROVE  CallAgrees'
  <1> USE DEF StoreInv, StoreTypeOK, CallAgrees, Idle, Moves, Phases
  <1>1. CASE PersistTransition
    BY <1>1 DEF PersistTransition
  <1>2. CASE TimeOut
    BY <1>2 DEF TimeOut
  <1>3. CASE GiveUp
    BY <1>3 DEF GiveUp
  <1>4. CASE \E deed \in Deeds : ProposeDeed(deed)
    BY <1>4 DEF ProposeDeed
  <1>5. ASSUME NEW a \in Attempts, Dispatch(a) PROVE CallAgrees'
    BY <1>5 DEF Dispatch
  <1>6. ASSUME NEW a \in Attempts, Answer(a) PROVE CallAgrees'
    <2>1. CASE a \in listening
      BY <1>6, <2>1, AwaitedIsWritten DEF Answer
    <2>2. CASE a \notin listening
      BY <1>6, <2>2 DEF Answer
    <2> QED
      BY <2>1, <2>2
  <1>7. ASSUME NEW a \in Attempts, Insert(a) PROVE CallAgrees'
    BY <1>7 DEF Insert
  <1>8. ASSUME NEW a \in Attempts, ReturnExisting(a) PROVE CallAgrees'
    BY <1>8 DEF ReturnExisting
  <1>9. ASSUME NEW a \in Attempts, UpdateRun(a) PROVE CallAgrees'
    BY <1>9 DEF UpdateRun
  <1>10. ASSUME NEW a \in Attempts, CommitTransition(a) PROVE CallAgrees'
    BY <1>10 DEF CommitTransition
  <1>11. ASSUME NEW a \in Attempts, CommitDeed(a) PROVE CallAgrees'
    BY <1>11 DEF CommitDeed
  <1>12. ASSUME NEW a \in Attempts, Fail(a) PROVE CallAgrees'
    BY <1>12 DEF Fail
  <1>13. CASE UNCHANGED storeVars
    BY <1>13 DEF storeVars
  <1> QED
    BY <1>1, <1>2, <1>3, <1>4, <1>5, <1>6, <1>7, <1>8, <1>9, <1>10, <1>11, <1>12, <1>13
    DEF StoreNext, Worker

(* The audit log has no gaps, and the run row shows its last transition.   *)
THEOREM RowAndLogAgree == StoreSpec => [](StoreTypeOK /\ RowMatchesLog)
  <1>1. ASSUME StoreInv, [StoreNext]_storeVars
        PROVE  StoreInv'
    BY <1>1, NextStoreTypeOK, NextRowMatchesLog, NextAttemptsAgree, NextCallAgrees
    DEF StoreInv
  <1>2. StoreInv => StoreTypeOK /\ RowMatchesLog
    BY DEF StoreInv
  <1> QED
    BY InitStoreInv, <1>1, <1>2, PTL DEF StoreSpec

LEMMA NextImplementsLog ==
  ASSUME StoreInv, [StoreNext]_storeVars
  PROVE  [Log!LogNext]_(Log!logVars)
  <1> USE DEF Log!LogNext, Log!logVars
  <1>1. CASE PersistTransition
    BY <1>1 DEF PersistTransition
  <1>2. CASE TimeOut
    BY <1>2 DEF TimeOut
  <1>3. CASE GiveUp
    BY <1>3 DEF GiveUp
  <1>4. CASE \E deed \in Deeds : ProposeDeed(deed)
    BY <1>4 DEF ProposeDeed
  <1>5. ASSUME NEW a \in Attempts, Dispatch(a) PROVE [Log!LogNext]_(Log!logVars)
    BY <1>5 DEF Dispatch
  <1>6. ASSUME NEW a \in Attempts, Answer(a) PROVE [Log!LogNext]_(Log!logVars)
    <2>1. CASE a \in listening /\ call \in Deeds
      <3>1. call \in deeds /\ confirmed' = confirmed \cup {call}
            /\ UNCHANGED <<row, acknowledged, deeds>>
        BY <1>6, <2>1, AwaitedIsWritten DEF Answer
      <3>2. CASE call \in confirmed
        BY <3>1, <3>2
      <3>3. CASE call \notin confirmed
        <4>1. Log!Confirm(call)
          BY <3>1, <3>3 DEF Log!Confirm
        <4> QED
          BY <2>1, <4>1
      <3> QED
        BY <3>2, <3>3
    <2>2. CASE a \in listening /\ call \notin Deeds
      <3>1. Log!Acknowledge
        BY <1>6, <2>2, AwaitedIsWritten DEF Answer, Log!Acknowledge, StoreInv, StoreTypeOK
      <3> QED
        BY <3>1
    <2>3. CASE a \notin listening
      BY <1>6, <2>3 DEF Answer
    <2> QED
      BY <2>1, <2>2, <2>3
  <1>7. ASSUME NEW a \in Attempts, Insert(a) PROVE [Log!LogNext]_(Log!logVars)
    BY <1>7 DEF Insert
  <1>8. ASSUME NEW a \in Attempts, ReturnExisting(a) PROVE [Log!LogNext]_(Log!logVars)
    BY <1>8 DEF ReturnExisting
  <1>9. ASSUME NEW a \in Attempts, UpdateRun(a) PROVE [Log!LogNext]_(Log!logVars)
    BY <1>9 DEF UpdateRun
  <1>10. ASSUME NEW a \in Attempts, CommitTransition(a) PROVE [Log!LogNext]_(Log!logVars)
    <2>1. attempt[a].key = row + 1 /\ row = acknowledged
      BY <1>10, UpdatedIsNext DEF CommitTransition, StoreInv, AttemptsAgree
    <2>2. Log!Append
      BY <1>10, <2>1 DEF CommitTransition, Log!Append
    <2> QED
      BY <2>2
  <1>11. ASSUME NEW a \in Attempts, CommitDeed(a) PROVE [Log!LogNext]_(Log!logVars)
    <2>1. attempt[a].key \in Deeds \ deeds
      BY <1>11 DEF CommitDeed, StoreInv, AttemptsAgree, InTable
    <2>2. Log!Enter(attempt[a].key)
      BY <1>11, <2>1 DEF CommitDeed, Log!Enter
    <2> QED
      BY <2>1, <2>2
  <1>12. ASSUME NEW a \in Attempts, Fail(a) PROVE [Log!LogNext]_(Log!logVars)
    BY <1>12 DEF Fail
  <1>13. CASE UNCHANGED storeVars
    BY <1>13 DEF storeVars
  <1> QED
    BY <1>1, <1>2, <1>3, <1>4, <1>5, <1>6, <1>7, <1>8, <1>9, <1>10, <1>11, <1>12, <1>13
    DEF StoreNext, Worker

(* Retried, abandoned and late attempts implement a log that grows by one  *)
(* transition at a time and a row that never goes back.                    *)
THEOREM StoreImplementsLog == StoreSpec => ImplementsAuditLog
  <1>1. StoreInit => Log!LogInit
    BY DEF StoreInit, Log!LogInit
  <1>2. ASSUME StoreInv, [StoreNext]_storeVars
        PROVE  StoreInv'
    BY <1>2, NextStoreTypeOK, NextRowMatchesLog, NextAttemptsAgree, NextCallAgrees
    DEF StoreInv
  <1> QED
    BY <1>1, <1>2, InitStoreInv, NextImplementsLog, PTL
    DEF StoreSpec, ImplementsAuditLog, Log!LogSpec

(* A key is entered by the first transaction that commits it: any other    *)
(* attempt for it, however late, finds the row and writes none.            *)
THEOREM KeysUnique == StoreSpec => OneRowPerKey
  <1> DEFINE Fresh == \A a \in Attempts :
                        attempt[a].phase \in {"inserted", "updated"}
                          /\ attempt'[a].phase = "committed" => ~InTable(attempt[a].key)
  <1>1. StoreInv => [Fresh]_storeVars
    BY DEF StoreInv, AttemptsAgree
  <1>2. ASSUME StoreInv, [StoreNext]_storeVars
        PROVE  StoreInv'
    BY <1>2, NextStoreTypeOK, NextRowMatchesLog, NextAttemptsAgree, NextCallAgrees
    DEF StoreInv
  <1> QED
    BY <1>1, <1>2, InitStoreInv, PTL DEF StoreSpec, OneRowPerKey
=============================================================================
