-------------------------- MODULE StartRun_proofs --------------------------
(***************************************************************************)
(* Proofs about StartRun, for any set of requests and any faults.          *)
(***************************************************************************)
EXTENDS StartRun, TLAPS

(* What the place of a request says of its row, its execution and its      *)
(* answer.                                                                 *)
RequestAgrees(r) ==
  /\ request[r] \in {"idle", "checked"} => row[r] = "absent"
  /\ request[r] \in {"idle", "checked", "created", "exists"} => exec[r] = "none"
  /\ At(r, "started") => exec[r] # "none"
  /\ answer[r] # "none" => request[r] \in {"done", "lost"}
  /\ answer[r] = "created" => exec[r] # "none"
  /\ answer[r] = "conflict" => exec[r] = "none"
  /\ At(r, "done") /\ row[r] \in ActiveStatus => exec[r] # "none"
  /\ exec[r] \in {"ended", "closed"} => row[r] \in {"ended", "failed"}

RequestsAgree == \A r \in Requests : RequestAgrees(r)

StartInv == StartTypeOK /\ OneActiveRow /\ RequestsAgree

USE DEF At

-----------------------------------------------------------------------------
LEMMA StartInitially == StartInit => StartInv
BY DEF StartInit, StartInv, StartTypeOK, OneActiveRow, RequestsAgree, RequestAgrees,
       Active, ActiveStatus

(* The steps change nothing but the entries of one request.                *)
LEMMA StartTypeStep ==
  ASSUME StartTypeOK, [StartNext]_startVars
  PROVE  StartTypeOK'
<1>1. CASE UNCHANGED startVars
  BY <1>1 DEF StartTypeOK, startVars
<1>2. ASSUME NEW r \in Requests, Handle(r) \/ Fault(r)
      PROVE  StartTypeOK'
  BY <1>2 DEF StartTypeOK, Handle, Fault, CheckActive, CreateRow, CreateFails,
     StartWorkflow, AlreadyStarted, StartFails, StartAnswerLost, MarkStartFailed, MarkFails,
     RecordHandle, HandleLost, ApiDies, GoTo, Reply, Failing, FailureCode
<1>3. ASSUME NEW r \in Requests,
             Persist(r) \/ PersistEnd(r) \/ FallSilent(r) \/ Signal(r) \/ Close(r)
      PROVE  StartTypeOK'
  BY <1>3 DEF StartTypeOK, Persist, PersistEnd, FallSilent, Signal, Store, Close
<1> QED BY <1>1, <1>2, <1>3 DEF StartNext

(* A row becomes active only where the index allows it.                    *)
LEMMA ActiveStep ==
  ASSUME StartTypeOK, OneActiveRow, [StartNext]_startVars
  PROVE  OneActiveRow'
<1>1. ASSUME NEW r \in Requests, IndexAllows(r), NEW status,
             row' \in {row, [row EXCEPT ![r] = status]}
      PROVE  OneActiveRow'
  BY <1>1 DEF StartTypeOK, OneActiveRow, IndexAllows, Active
<1>2. ASSUME NEW r \in Requests, NEW status, status \notin ActiveStatus,
             row' = [row EXCEPT ![r] = status]
      PROVE  OneActiveRow'
  BY <1>2 DEF StartTypeOK, OneActiveRow, Active
<1>3. CASE row' = row
  BY <1>3 DEF OneActiveRow, Active
<1>4. ASSUME NEW r \in Requests, CreateRow(r) \/ CreateFails(r) \/ Persist(r) \/ FallSilent(r)
      PROVE  OneActiveRow'
  BY <1>1, <1>3, <1>4 DEF CreateRow, CreateFails, Persist, FallSilent, Store
<1>5. ASSUME NEW r \in Requests, MarkStartFailed(r) \/ PersistEnd(r)
      PROVE  OneActiveRow'
  BY <1>2, <1>5 DEF MarkStartFailed, PersistEnd, ActiveStatus
<1>6. ASSUME NEW r \in Requests,
             CheckActive(r) \/ StartWorkflow(r) \/ AlreadyStarted(r) \/ RecordHandle(r)
             \/ StartFails(r) \/ StartAnswerLost(r) \/ MarkFails(r) \/ HandleLost(r)
             \/ ApiDies(r) \/ Signal(r) \/ Close(r)
      PROVE  row' = row
  BY <1>6 DEF CheckActive, StartWorkflow, AlreadyStarted, RecordHandle, StartFails,
     StartAnswerLost, MarkFails, HandleLost, ApiDies, Signal, Close
<1> QED BY <1>3, <1>4, <1>5, <1>6 DEF StartNext, Handle, Fault, startVars

-----------------------------------------------------------------------------
(* A step of one request leaves what is known of the others.               *)
LEMMA OthersAgree ==
  ASSUME StartTypeOK, RequestsAgree, NEW r \in Requests, NEW s \in Requests, s # r,
         Handle(r) \/ Fault(r) \/ Persist(r) \/ PersistEnd(r) \/ FallSilent(r)
         \/ Signal(r) \/ Close(r)
  PROVE  RequestAgrees(s)'
<1>1. /\ request'[s] = request[s] /\ answer'[s] = answer[s]
      /\ row'[s] = row[s] /\ exec'[s] = exec[s]
  <2>1. CASE Handle(r)
    BY <2>1 DEF StartTypeOK, Handle, CheckActive, CreateRow, StartWorkflow, AlreadyStarted,
       MarkStartFailed, RecordHandle, GoTo, Reply
  <2>2. CASE Fault(r)
    BY <2>2 DEF StartTypeOK, Fault, CreateFails, StartFails, StartAnswerLost, MarkFails,
       HandleLost, ApiDies, GoTo, Reply
  <2>3. CASE Persist(r) \/ PersistEnd(r) \/ FallSilent(r) \/ Signal(r) \/ Close(r)
    BY <2>3 DEF StartTypeOK, Persist, PersistEnd, FallSilent, Signal, Store, Close
  <2> QED BY <2>1, <2>2, <2>3
<1> QED BY <1>1 DEF RequestsAgree, RequestAgrees

(* ... and keeps its own books.                                            *)
LEMMA OwnAgrees ==
  ASSUME StartTypeOK, RequestsAgree, NEW r \in Requests,
         Handle(r) \/ Fault(r) \/ Persist(r) \/ PersistEnd(r) \/ FallSilent(r)
         \/ Signal(r) \/ Close(r)
  PROVE  RequestAgrees(r)'
<1> USE DEF StartTypeOK, RequestAgrees, ActiveStatus
<1>0. RequestAgrees(r) BY DEF RequestsAgree
<1>1. CASE CheckActive(r) BY <1>0, <1>1 DEF CheckActive, GoTo, Reply
<1>2. CASE CreateRow(r) BY <1>0, <1>2 DEF CreateRow, GoTo, Reply
<1>3. CASE StartWorkflow(r) BY <1>0, <1>3 DEF StartWorkflow, GoTo
<1>4. CASE AlreadyStarted(r) BY <1>0, <1>4 DEF AlreadyStarted, GoTo
<1>5. CASE MarkStartFailed(r)
  BY <1>0, <1>5 DEF MarkStartFailed, Failing, FailureCode, Reply
<1>6. CASE RecordHandle(r) BY <1>0, <1>6 DEF RecordHandle, Reply
<1>7. CASE Fault(r)
  BY <1>0, <1>7 DEF Fault, CreateFails, StartFails, StartAnswerLost, MarkFails, HandleLost,
     ApiDies, Failing, FailureCode, GoTo, Reply
<1>8. CASE Persist(r) \/ PersistEnd(r) \/ FallSilent(r) \/ Signal(r) \/ Close(r)
  BY <1>0, <1>8 DEF Persist, PersistEnd, FallSilent, Signal, Store, Close
<1> QED BY <1>1, <1>2, <1>3, <1>4, <1>5, <1>6, <1>7, <1>8 DEF Handle

LEMMA AgreeStep ==
  ASSUME StartTypeOK, RequestsAgree, [StartNext]_startVars
  PROVE  RequestsAgree'
<1>1. CASE UNCHANGED startVars
  BY <1>1 DEF RequestsAgree, RequestAgrees, startVars
<1>2. CASE StartNext
  BY <1>2, OthersAgree, OwnAgrees DEF StartNext, RequestsAgree
<1> QED BY <1>1, <1>2

LEMMA StartInvariant == StartSpec => []StartInv
<1>1. StartInv /\ [StartNext]_startVars => StartInv'
  BY StartTypeStep, ActiveStep, AgreeStep DEF StartInv
<1> QED BY <1>1, StartInitially, PTL DEF StartSpec

-----------------------------------------------------------------------------
(* The places of requests, the statuses of rows and the states of          *)
(* executions stay in their sets.                                          *)
THEOREM StartTypeCorrect == StartSpec => []StartTypeOK
<1>1. StartInv => StartTypeOK BY DEF StartInv
<1> QED BY <1>1, StartInvariant, PTL

(* One active row per order, for any number of concurrent start requests,  *)
(* under any faults: the check of start_run is not what this rests on, the *)
(* unique index is.                                                        *)
THEOREM OneActive == StartSpec => []OneActiveRow
<1>1. StartInv => OneActiveRow BY DEF StartInv
<1> QED BY <1>1, StartInvariant, PTL

(* The client of start_run is told the truth: "created" means that its     *)
(* workflow was started, "conflict" that it was not and never is.          *)
THEOREM ToldTheTruth == StartSpec => []AnswersTrue
<1>1. StartInv => AnswersTrue
  BY DEF StartInv, RequestsAgree, RequestAgrees, AnswersTrue
<1> QED BY <1>1, StartInvariant, PTL

(* Only a request that could not clean up leaves an active row behind      *)
(* which nothing runs.                                                     *)
THEOREM OrphansAreLost == StartSpec => []NoOrphanRow
<1>1. StartInv => NoOrphanRow
  BY DEF StartInv, StartTypeOK, RequestsAgree, RequestAgrees, NoOrphanRow, Orphans, Lost,
         Active, ActiveStatus, Running
<1> QED BY <1>1, StartInvariant, PTL
=============================================================================
