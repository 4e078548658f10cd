--------------------------- MODULE OperatorConsole ---------------------------
(***************************************************************************)
(* The run detail page of the operator console                             *)
(* (frontend/components/run-detail-workspace.tsx): one browser page that   *)
(* polls a run and its analytics, sends Signals, and keeps an action       *)
(* pending until a poll shows the status it leads to.                      *)
(*                                                                         *)
(* Behind the page is what the other modules say of the run, reduced to    *)
(* its statuses: the workflow records them one after the other, the row in *)
(* PostgreSQL follows, and a lost start may mark the row failed meanwhile. *)
(* "sleeping" is "running" here; a run id that does not exist is left out. *)
(***************************************************************************)
EXTENDS Naturals, Sequences, FiniteSets

CONSTANT
  Uses                 \* of the page: how the start went, and bounds of the model:
                       \* mounts of the poll loop, statuses recorded or on their
                       \* way, actions in use, whether others send Signals
                       \* too, whether the button "Refresh now" is pressed

LifecycleActions == {"pause", "resume", "interrupt", "terminate"}

ASSUME ConsoleAssumption ==
  Uses \subseteq [start : {"known", "lost"}, mounts : Nat \ {0}, records : Nat,
                 actions : SUBSET LifecycleActions, others : BOOLEAN, button : BOOLEAN]

VARIABLES
  use,                 \* how this page is used
  log,                 \* statuses the workflow has recorded; the last is its own
  mailbox,             \* Signals accepted and not yet handled
  stored, failed,      \* the row: last status stored; marked failed over it
  start,               \* its answer: "known", "lost", or lost and the row "marked"
  polls,               \* runs of refreshDetail, one for each run of the effect
  view,                \* run: the last reading shown
  pending,             \* pendingActionRef
  request,             \* the mutation in flight
  refreshDue,          \* refreshVersion was raised, the effects have not run yet
  figures,             \* the analytics effect and what it shows
  overruled            \* history: the status was changed against the page

backend == <<log, mailbox, stored, failed, start>>
page    == <<polls, view, pending, request, refreshDue, figures>>
vars    == <<use, backend, page, overruled>>

TERMINAL == {"completed", "terminated", "failed"}       \* isTerminalStatus
Blocked  == {"paused", "interrupted"}

Status == IF log = <<>> THEN "none" ELSE log[Len(log)]
Ended  == Status \in TERMINAL

-----------------------------------------------------------------------------
(* What a poll reads: the row, and the workflow's own status if the Query  *)
(* was answered (live = 0 if not).                                         *)

NoView == [at |-> 0, failed |-> FALSE, live |-> 0]
Row    == [at |-> stored, failed |-> failed, live |-> 0]

RowStatus(r) ==
  IF r.failed THEN "failed" ELSE IF r.at = 0 THEN "starting" ELSE log[r.at]

PersistedTerminal(r) == RowStatus(r) \in TERMINAL

EffectiveStatus(r) ==
  IF PersistedTerminal(r) \/ r.live = 0 THEN RowStatus(r) ELSE log[r.live]

HasLifecycleConverged(action, status) ==
  \/ status \in TERMINAL
  \/ action = "pause"     /\ status = "paused"
  \/ action = "resume"    /\ status \in {"starting", "running"}
  \/ action = "interrupt" /\ status = "interrupted"

(* getRunControlAvailability, and the same gate on the row in the API.     *)
Available(action, status) ==
  /\ status \notin TERMINAL
  /\ action = "pause"     => status \notin Blocked
  /\ action = "resume"    => status \in Blocked
  /\ action = "interrupt" => status # "interrupted"

Shown == view # <<>>

-----------------------------------------------------------------------------

Waiting == [phase |-> "waiting", reading |-> NoView]
Stopped == [phase |-> "stopped", reading |-> NoView]

(* The analytics effect, run for a row that is terminal or is not.  While  *)
(* it is not, the next answer replaces the last, and none matters here.    *)
NewFigures(final) == [final |-> final, shown |-> 0, error |-> FALSE]

Init ==
  /\ use \in Uses
  /\ log = <<>> /\ mailbox = <<>>
  /\ stored = 0 /\ failed = FALSE /\ start = use.start
  /\ polls = <<Waiting>> /\ view = <<>>
  /\ pending = "none" /\ request = [action |-> "none", phase |-> "none"]
  /\ refreshDue = FALSE
  /\ figures = NewFigures(FALSE)
  /\ overruled = FALSE

Idle == request.phase = "none" /\ pending = "none"
Room == Len(log) + Len(mailbox) < use.records
MayRefresh == ~refreshDue /\ Len(polls) < use.mounts

-----------------------------------------------------------------------------
(* The workflow, its row, and other operators.                             *)

(* The first activation: a hold delivered with it is overwritten.          *)
Begin ==
  /\ log = <<>>
  /\ \/ log' = <<"running">> /\ UNCHANGED <<use, mailbox, overruled>>
     \/ /\ mailbox # <<>> /\ Head(mailbox).action \in {"pause", "interrupt"}
        /\ log' = <<IF Head(mailbox).action = "pause" THEN "paused" ELSE "interrupted",
                    "running">>
        /\ mailbox' = Tail(mailbox) /\ overruled' = TRUE
  /\ UNCHANGED <<use, stored, failed, start, page>>

Records(action) ==
  IF Ended THEN <<>>
  ELSE CASE action = "pause"     -> <<"paused">>
         [] action = "interrupt" -> <<"interrupted">>
         [] action = "terminate" -> <<"terminated">>
         [] OTHER                -> IF Status \in Blocked THEN <<"running">> ELSE <<>>

HandleSignal ==
  /\ log # <<>> /\ mailbox # <<>>
  /\ mailbox' = Tail(mailbox)
  /\ log' = log \o Records(Head(mailbox).action)
  /\ overruled' = (overruled \/ Head(mailbox).foreign)
  /\ UNCHANGED <<use, stored, failed, start, page>>

Deliver ==
  /\ Status = "running"
  /\ log' = Append(log, "completed")
  /\ UNCHANGED <<use, mailbox, stored, failed, start, page, overruled>>

Store ==
  /\ stored < Len(log)
  /\ stored' = stored + 1 /\ failed' = FALSE
  /\ UNCHANGED <<use, log, mailbox, start, page, overruled>>

MarkStartFailed ==
  /\ start = "lost"
  /\ failed' = TRUE /\ start' = "marked"
  /\ UNCHANGED <<use, log, mailbox, stored, page, overruled>>

OtherSignal(action) ==
  /\ use.others /\ Room /\ ~Ended
  /\ Available(action, RowStatus(Row))
  /\ mailbox' = Append(mailbox, [action |-> action, foreign |-> TRUE])
  /\ UNCHANGED <<use, log, stored, failed, start, page, overruled>>

-----------------------------------------------------------------------------
(* refreshDetail.  The loop of the last mount is the only one that may     *)
(* change the page.                                                        *)

(* Fault: an answer is shown although its effect was cleaned up.           *)
NeverDisposed(i) == FALSE
Disposed(i) == i < Len(polls)

PollReadsRow(i) ==
  /\ polls[i].phase = "waiting"
  /\ polls' = [polls EXCEPT ![i] = [phase |-> "row", reading |-> Row]]
  /\ UNCHANGED <<use, backend, view, pending, request, refreshDue, figures, overruled>>

PollQueries(i) ==
  /\ polls[i].phase = "row"
  /\ \E live \in {0, Len(log)} :
       polls' = [polls EXCEPT ![i] = [phase |-> "read", reading |-> [@.reading EXCEPT !.live = live]]]
  /\ UNCHANGED <<use, backend, view, pending, request, refreshDue, figures, overruled>>

(* The pending action ends when the status shown is one it leads to.       *)
PendingAfter(reading) ==
  IF pending # "none" /\ HasLifecycleConverged(pending, EffectiveStatus(reading))
  THEN "none" ELSE pending

PollShown(i) ==
  /\ polls[i].phase = "read" /\ ~Disposed(i)
  /\ view' = <<polls[i].reading>>
  /\ pending' = PendingAfter(polls[i].reading)
  /\ polls' = [polls EXCEPT ![i] = IF PersistedTerminal(@.reading) THEN Stopped ELSE Waiting]
  /\ UNCHANGED <<use, backend, request, refreshDue, figures, overruled>>

(* Fault: only an answer sets the next timer.                              *)
PollFailsForGood(i) ==
  /\ polls[i].phase = "read"
  /\ polls' = [polls EXCEPT ![i] = Stopped]
  /\ UNCHANGED <<use, backend, view, pending, request, refreshDue, figures, overruled>>

(* A failure goes on unless the page already shows the end.                *)
PollFails(i) ==
  /\ polls[i].phase = "read"
  /\ polls' = [polls EXCEPT ![i] = IF Disposed(i) \/ (Shown /\ PersistedTerminal(view[1]))
                                   THEN Stopped ELSE Waiting]
  /\ UNCHANGED <<use, backend, view, pending, request, refreshDue, figures, overruled>>

-----------------------------------------------------------------------------
(* Rendering runs the effects whose inputs changed: both for a refresh,    *)
(* the analytics one when the row shown became terminal or ceased to be.   *)
(* Cleaning up aborts a request, but not one whose answer is there already.*)
Final == Shown /\ PersistedTerminal(view[1])

(* Fault: the old loop is not cleaned up.                                  *)
RenderWithoutCleanup ==
  /\ refreshDue \/ figures.final # Final
  /\ refreshDue' = FALSE
  /\ polls' = IF ~refreshDue THEN polls ELSE Append(polls, Waiting)
  /\ figures' = NewFigures(Final)
  /\ UNCHANGED <<use, backend, view, pending, request, overruled>>

Render ==
  /\ refreshDue \/ figures.final # Final
  /\ refreshDue' = FALSE
  /\ polls' = IF ~refreshDue THEN polls
              ELSE Append([i \in DOMAIN polls |->
                             IF polls[i].phase = "read" THEN polls[i] ELSE Stopped], Waiting)
  /\ figures' = NewFigures(Final)
  /\ UNCHANGED <<use, backend, view, pending, request, overruled>>

(* refreshAnalytics for a terminal row: it is not tried again.             *)
LastFigures ==
  /\ figures = NewFigures(TRUE)
  /\ figures' \in {[figures EXCEPT !.shown = stored], [figures EXCEPT !.error = TRUE]}
  /\ UNCHANGED <<use, backend, polls, view, pending, request, refreshDue, overruled>>

-----------------------------------------------------------------------------
(* performLifecycleSignal and performSignal, with the endpoint they call.  *)

Asks(action, awaited) ==
  /\ Shown /\ Idle /\ Room /\ MayRefresh
  /\ Available(action, EffectiveStatus(view[1]))
  /\ request' = [action |-> action, phase |-> "sent"]
  /\ pending' = awaited
  /\ UNCHANGED <<use, backend, polls, view, refreshDue, figures, overruled>>

LifecycleSignal(action) == Asks(action, action)

(* An event or an instruction: nothing is awaited.                         *)
OtherInput == Asks("input", "none")

InPhase(phase) == request.phase = phase

RequestBecomes(phase) ==
  /\ request' = [request EXCEPT !.phase = phase]
  /\ UNCHANGED <<use, log, stored, failed, start, polls, view, pending, refreshDue, figures, overruled>>

ApiChecks ==
  /\ InPhase("sent")
  /\ RequestBecomes(IF Available(request.action, RowStatus(Row)) THEN "admitted" ELSE "refused")
  /\ UNCHANGED mailbox

(* The Signal of a closed workflow fails; any other may be sent although   *)
(* its answer, or that of the endpoint, is lost.                           *)
ApiSignals ==
  /\ InPhase("admitted")
  /\ \/ /\ ~Ended
        /\ \E phase \in {"accepted", "refused"} : RequestBecomes(phase)
        /\ mailbox' = IF request.action = "input" THEN mailbox
                      ELSE Append(mailbox, [action |-> request.action, foreign |-> FALSE])
     \/ RequestBecomes("refused") /\ UNCHANGED mailbox

RequestEnds ==
  /\ request' = [action |-> "none", phase |-> "none"]
  /\ UNCHANGED <<use, backend, polls, view, figures, overruled>>

RequestSucceeds == InPhase("accepted") /\ refreshDue' = TRUE /\ RequestEnds /\ UNCHANGED pending

(* Fault: a failed request leaves its action pending.                      *)
RequestFailsPending ==
  /\ InPhase("refused")
  /\ RequestEnds /\ UNCHANGED <<pending, refreshDue>>

RequestFails ==
  /\ InPhase("refused")
  /\ pending' = "none"
  /\ RequestEnds /\ UNCHANGED refreshDue

(* The button "Refresh now".                                               *)
RequestImmediateRefresh ==
  /\ Shown /\ MayRefresh /\ use.button
  /\ refreshDue' = TRUE
  /\ UNCHANGED <<use, backend, polls, view, pending, request, figures, overruled>>

Next ==
  \/ Begin \/ HandleSignal \/ Deliver \/ Store \/ MarkStartFailed
  \/ \E action \in use.actions : OtherSignal(action) \/ LifecycleSignal(action)
  \/ \E i \in DOMAIN polls : PollReadsRow(i) \/ PollQueries(i) \/ PollShown(i) \/ PollFails(i)
  \/ Render \/ LastFigures
  \/ OtherInput \/ ApiChecks \/ ApiSignals \/ RequestSucceeds \/ RequestFails
  \/ RequestImmediateRefresh

(* The workflow and its row go on (OrderWorkflow, RunStore), the browser   *)
(* runs timers and effects, every request is answered or times out, and of *)
(* the polls of a loop that goes on, one is answered in the end.           *)
Fairness ==
  /\ WF_vars(Begin) /\ WF_vars(HandleSignal) /\ WF_vars(Store)
  /\ WF_vars(Render) /\ WF_vars(LastFigures)
  /\ WF_vars(ApiChecks) /\ WF_vars(ApiSignals) /\ WF_vars(RequestSucceeds \/ RequestFails)
  /\ WF_vars(\E i \in DOMAIN polls : PollReadsRow(i) \/ PollQueries(i))
  /\ SF_vars(\E i \in DOMAIN polls : PollShown(i))

Spec == Init /\ [][Next]_vars /\ Fairness

-----------------------------------------------------------------------------

Reading == [at : 0..Len(log), failed : BOOLEAN, live : 0..Len(log)]

(* The type invariant; and at most one loop polls: of a loop that was      *)
(* cleaned up nothing is left but an answer that is there already.         *)
ConsoleTypeOK ==
  /\ log \in Seq({"running"} \cup Blocked \cup {"completed", "terminated"})
  /\ mailbox \in Seq([action : LifecycleActions, foreign : BOOLEAN])
  /\ stored \in 0..Len(log) /\ start \in {"known", "lost", "marked"}
  /\ {failed, refreshDue, overruled} \subseteq BOOLEAN
  /\ polls \in Seq([phase : {"waiting", "row", "read", "stopped"}, reading : Reading])
  /\ view \in {<<>>} \cup Seq(Reading)
  /\ pending \in LifecycleActions \cup {"none"}
  /\ request \in [action : LifecycleActions \cup {"input", "none"},
                  phase : {"none", "sent", "admitted", "accepted", "refused"}]
  /\ figures \in [final : BOOLEAN, shown : 0..Len(log), error : BOOLEAN]
  /\ \A i \in DOMAIN polls : polls[i].phase \in {"waiting", "row"} => i = Len(polls)

(* What the page shows never goes back to an older row, nor to an older    *)
(* status of the workflow, in whatever order answers come: neither polls   *)
(* nor the refreshes between them overtake each other.                     *)
ViewNeverGoesBack ==
  [][Shown /\ view' # view =>
       /\ view'[1].at >= view[1].at
       /\ view[1].live > 0 /\ view'[1].live > 0 => view'[1].live >= view[1].live]_vars

(* An action does not stay pending: whether it was refused, lost, handled, *)
(* overtaken by the end of the run or by a row marked failed, the page     *)
(* lets go of it, unless somebody else overruled what it was to lead to.   *)
PendingResolves == (pending # "none") ~> (pending = "none" \/ overruled)

(* When a run has ended and its row shows it, the page comes to show the   *)
(* end, with nothing pending and with the complete analytics or a notice   *)
(* that they are missing.  A page that met a row marked failed may stop    *)
(* there, or keep the analytics of that time.                              *)
PageSettles ==
  (Ended /\ stored = Len(log)) ~>
     /\ Final /\ pending = "none"
     /\ \/ view[1].failed
        \/ /\ view[1].at = stored
           /\ start = "marked" \/ figures.error \/ figures.shown = stored
=============================================================================
