------------------------------ MODULE StartRun ------------------------------
(***************************************************************************)
(* Starting supervision of one order: concurrent start requests at the     *)
(* API (start_run of routers/runs.py), the run rows of PostgreSQL with     *)
(* their partial unique index, and the executions of the order's workflow  *)
(* at the Temporal server, which all have the same Workflow ID.            *)
(*                                                                         *)
(* Row and execution are created in two steps with no transaction around   *)
(* them.  "Faults" names what may go wrong between the steps.  A request   *)
(* creates at most one row and one execution, named by the request.        *)
(***************************************************************************)
EXTENDS Naturals, FiniteSets

CONSTANTS
  Requests,  \* the start requests for the order
  Faults     \* the kinds of failure that may happen

FaultKinds == {"commit_lost", "start_lost", "answer_lost", "handle_lost", "mark_lost",
               "api_dies"}

ASSUME FaultsAssumption == Faults \subseteq FaultKinds

VARIABLES
  request,  \* the place of the request handler; "lost" is an end at which the
            \* handler could not clean up its row
  answer,   \* what the client was told
  row,      \* status of the row: "running" stands for every status a
            \* supervising workflow gives it, "ended" for completed/terminated
  exec      \* the execution: "open" until its first transition is stored,
            \* "shown" from then on, "silent" when it is held and has nothing
            \* more to store, "ended" when its last transition is stored, then
            \* "closed"

startVars == <<request, answer, row, exec>>

StartInit ==
  /\ request = [r \in Requests |-> "idle"]
  /\ answer = [r \in Requests |-> "none"]
  /\ row = [r \in Requests |-> "absent"]
  /\ exec = [r \in Requests |-> "none"]

ActiveStatus == {"starting", "running"}
Active == {r \in Requests : row[r] \in ActiveStatus}
Running == {r \in Requests : exec[r] \in {"open", "shown", "silent", "ended"}}

At(r, place) == request[r] = place
GoTo(r, place) == request' = [request EXCEPT ![r] = place]
Reply(r, code) ==
  /\ request' = [request EXCEPT ![r] = "done"]
  /\ answer' = [answer EXCEPT ![r] = code]

(* uq_runs_active_order_id: a row may become active if no other row is.    *)
IndexAllows(r) == Active \subseteq {r}

-----------------------------------------------------------------------------
(* The request handler.                                                    *)

(* get_active_run_for_order, before the row is created.                    *)
CheckActive(r) ==
  /\ At(r, "idle")
  /\ UNCHANGED <<row, exec>>
  /\ IF Active # {} THEN Reply(r, "conflict") ELSE GoTo(r, "checked") /\ UNCHANGED answer

(* Fault: the check above is all that keeps a second row out.              *)
CreateUnchecked(r) ==
  /\ At(r, "checked")
  /\ row' = [row EXCEPT ![r] = "starting"]
  /\ GoTo(r, "created")
  /\ UNCHANGED <<exec, answer>>

(* create_run and its commit; an IntegrityError is a conflict as well.     *)
CreateRow(r) ==
  /\ At(r, "checked")
  /\ UNCHANGED exec
  /\ IF IndexAllows(r)
     THEN /\ row' = [row EXCEPT ![r] = "starting"]
          /\ GoTo(r, "created") /\ UNCHANGED answer
     ELSE Reply(r, "conflict") /\ UNCHANGED row

(* The commit fails, or succeeds and its answer is lost.                   *)
CreateFails(r) ==
  /\ "commit_lost" \in Faults
  /\ At(r, "checked") /\ IndexAllows(r)
  /\ row' \in {row, [row EXCEPT ![r] = "starting"]}
  /\ GoTo(r, "lost")
  /\ answer' = [answer EXCEPT ![r] = "unavailable"]
  /\ UNCHANGED exec

(* start_workflow                                                          *)
StartWorkflow(r) ==
  /\ At(r, "created")
  /\ Running = {}
  /\ exec' = [exec EXCEPT ![r] = "open"]
  /\ GoTo(r, "started")
  /\ UNCHANGED <<row, answer>>

(* Fault: an existing workflow is taken for the one just started.          *)
JoinExisting(r) ==
  /\ At(r, "created")
  /\ Running # {}
  /\ GoTo(r, "started")
  /\ UNCHANGED <<row, exec, answer>>

(* WorkflowAlreadyStartedError                                             *)
AlreadyStarted(r) ==
  /\ At(r, "created")
  /\ Running # {}
  /\ GoTo(r, "exists")
  /\ UNCHANGED <<row, exec, answer>>

StartFails(r) ==
  /\ "start_lost" \in Faults
  /\ At(r, "created")
  /\ GoTo(r, "failing")
  /\ UNCHANGED <<row, exec, answer>>

(* The workflow is started and the client never learns of it.              *)
StartAnswerLost(r) ==
  /\ "answer_lost" \in Faults
  /\ At(r, "created") /\ Running = {}
  /\ exec' = [exec EXCEPT ![r] = "open"]
  /\ GoTo(r, "failing")
  /\ UNCHANGED <<row, answer>>

Failing(r) == At(r, "exists") \/ At(r, "failing")

FailureCode(r) == IF At(r, "exists") THEN "conflict" ELSE "unavailable"

(* Fault: no compensation.                                                 *)
LeaveRow(r) ==
  /\ Failing(r)
  /\ Reply(r, FailureCode(r))
  /\ UNCHANGED <<row, exec>>

(* Fault: a status that the schema does not know.                          *)
MarkUnknown(r) ==
  /\ Failing(r)
  /\ row' = [row EXCEPT ![r] = "start_failed"]
  /\ Reply(r, FailureCode(r))
  /\ UNCHANGED exec

(* _mark_start_failed overwrites whatever status the row has by now.       *)
MarkStartFailed(r) ==
  /\ Failing(r)
  /\ row' = [row EXCEPT ![r] = "failed"]
  /\ Reply(r, FailureCode(r))
  /\ UNCHANGED exec

(* It is best effort: a database error is swallowed.                       *)
MarkFails(r) ==
  /\ "mark_lost" \in Faults
  /\ Failing(r)
  /\ GoTo(r, "lost")
  /\ answer' = [answer EXCEPT ![r] = FailureCode(r)]
  /\ UNCHANGED <<row, exec>>

(* temporal_run_id is stored and the row, as it is by now, returned.       *)
RecordHandle(r) ==
  /\ At(r, "started")
  /\ Reply(r, "created")
  /\ UNCHANGED <<row, exec>>

HandleLost(r) ==
  /\ "handle_lost" \in Faults
  /\ At(r, "started")
  /\ Reply(r, "unavailable")
  /\ UNCHANGED <<row, exec>>

ApiDies(r) ==
  /\ "api_dies" \in Faults
  /\ request[r] \notin {"idle", "done", "lost"}
  /\ GoTo(r, "lost")
  /\ UNCHANGED <<row, exec, answer>>

-----------------------------------------------------------------------------
(* The workflow, through its persistence Activity (see RunStore).          *)

(* Fault: a row that was marked failed is taken for a closed one.          *)
StoreUnlessFailed(r) ==
  /\ row[r] \in ActiveStatus
  /\ row' = [row EXCEPT ![r] = "running"]
  /\ UNCHANGED <<request, answer>>

(* A transition makes the row active, whatever its status was; while       *)
(* another row is active the index refuses the update and the Activity is  *)
(* retried.                                                                *)
Store(r) ==
  /\ IndexAllows(r)
  /\ row' = [row EXCEPT ![r] = "running"]
  /\ UNCHANGED <<request, answer>>

(* A transition of a workflow that has more to come: a wake-up it is going *)
(* to have, the end of a review, its hold, the authorization of its end.   *)
Persist(r) ==
  /\ exec[r] \in {"open", "shown"}
  /\ Store(r)
  /\ exec' = [exec EXCEPT ![r] = "shown"]

(* A held workflow stores its hold and the end of a review under way like  *)
(* any transition; the last that it stores is that its deadline passed, or *)
(* what it had recorded when it was held with no deadline set.  From then  *)
(* on it waits with no timeout.  The Signal of the hold needs no step: a   *)
(* row was active when the execution came to be "open" or "shown".         *)
FallSilent(r) ==
  /\ exec[r] \in {"open", "shown"}
  /\ Store(r)
  /\ exec' = [exec EXCEPT ![r] = "silent"]

(* Any Signal, be it a resume, a termination or an event, wakes the held   *)
(* workflow and gives it something to store.  The API sends one only for   *)
(* an active row, but to the Workflow ID of the order: the row may be that *)
(* of a later request that is about to learn of the workflow.              *)
Signal(r) ==
  /\ exec[r] = "silent" /\ Active # {}
  /\ exec' = [exec EXCEPT ![r] = "shown"]
  /\ UNCHANGED <<request, answer, row>>

(* The last transition, after which the execution closes.                  *)
PersistEnd(r) ==
  /\ exec[r] = "shown"
  /\ row' = [row EXCEPT ![r] = "ended"]
  /\ exec' = [exec EXCEPT ![r] = "ended"]
  /\ UNCHANGED <<request, answer>>

Close(r) ==
  /\ exec[r] = "ended"
  /\ exec' = [exec EXCEPT ![r] = "closed"]
  /\ UNCHANGED <<request, answer, row>>

Handle(r) ==
  CheckActive(r) \/ CreateRow(r) \/ StartWorkflow(r) \/ AlreadyStarted(r)
  \/ MarkStartFailed(r) \/ RecordHandle(r)

Fault(r) == CreateFails(r) \/ StartFails(r) \/ StartAnswerLost(r) \/ MarkFails(r)
            \/ HandleLost(r) \/ ApiDies(r)

StartNext ==
  \E r \in Requests : Handle(r) \/ Fault(r) \/ Persist(r) \/ PersistEnd(r)
                      \/ FallSilent(r) \/ Signal(r) \/ Close(r)

StartSpec == StartInit /\ [][StartNext]_startVars

(* A request that was begun runs on, as long as its process lives.  A      *)
(* workflow that is not silent has a deadline, in sleep and under a hold,  *)
(* and so a transition to store, which it retries; which one it is remains *)
(* open.                                                                   *)
StartFairness ==
  \A r \in Requests :
    /\ WF_startVars(request[r] # "idle" /\ Handle(r))
    /\ WF_startVars(Close(r))
    /\ WF_startVars(Persist(r) \/ FallSilent(r))

FairStartSpec == StartSpec /\ StartFairness

-----------------------------------------------------------------------------
StartTypeOK ==
  /\ request \in [Requests -> {"idle", "checked", "created", "started", "exists",
                               "failing", "done", "lost"}]
  /\ answer \in [Requests -> {"none", "created", "conflict", "unavailable"}]
  /\ row \in [Requests -> {"absent", "starting", "running", "ended", "failed"}]
  /\ exec \in [Requests -> {"none", "open", "shown", "silent", "ended", "closed"}]

(* One active workflow per order: at most one row of the order is active,  *)
(* however start requests and running workflows interleave and fail.       *)
OneActiveRow == \A r, s \in Active : r = s

(* The client is told the truth: after "created" the order is (or was)     *)
(* supervised for this request, after "conflict" it never is.              *)
AnswersTrue ==
  \A r \in Requests :
    /\ answer[r] = "created" => exec[r] # "none"
    /\ answer[r] = "conflict" => exec[r] = "none"

(* A row stays active only with a workflow that keeps it up to date, or a  *)
(* request still at work on it, unless a request ended where it could not  *)
(* clean up: its process or the database failed it.                        *)
Orphans == {r \in Active \ Running : request[r] \in {"idle", "done", "lost"}}

Lost == {r \in Requests : At(r, "lost")}

NoOrphanRow == Orphans \subseteq Lost

(* The projection is eventually consistent: a workflow that has something  *)
(* to store, held or not, gets its row shown active, even when the start   *)
(* looked failed and the row was marked so, and while other requests come  *)
(* in the way of the index.  Only an orphan row can keep it out for good.  *)
ProjectionCatchesUp ==
  \A r \in Requests :
    exec[r] \in {"open", "shown"}
      ~> (row[r] = "running" \/ exec[r] \in {"ended", "closed"}
           \/ Orphans \cap Lost # {})

(* A statement of README.md that the code does not keep: "This is eventual *)
(* consistency".  The row of a workflow that has not ended is active again *)
(* and again.  It is not when the row is marked failed after a held        *)
(* workflow has stored its last transition: the API then sends no Signal   *)
(* for it.                                                                 *)
LiveRunShown ==
  \A r \in Requests :
    r \in Running ~> (r \in Active \/ exec[r] \in {"ended", "closed"})
=============================================================================
