---------------------------- MODULE RunControls ----------------------------
(***************************************************************************)
(* The control endpoints of the run API (routers/runs.py) in front of one  *)
(* execution of the workflow.  A request loads the run row, which may be   *)
(* behind the workflow, checks it, and sends a Signal; by the time the     *)
(* Temporal server accepts the Signal the run may have moved on, and other *)
(* requests may have overtaken it.  The server hands the Signals it has    *)
(* accepted to the workflow in the order in which it accepted them.        *)
(*                                                                         *)
(* The Signal handlers, the coroutine and the row are those of             *)
(* OrderWorkflow; here a handler runs only for a Signal in the mailbox.    *)
(***************************************************************************)
EXTENDS OrderWorkflow

CONSTANTS
  Requests,  \* requests that clients may make in the life of the run
  Asks       \* what each one asks for: an operation, or the event it injects

Operations == {"pause", "resume", "interrupt", "instruct", "terminate"}

ASSUME AsksAssumption == Asks \in [Requests -> Operations \cup Events]
ASSUME OperationsAssumption == Operations \cap Events = {}

VARIABLES
  answer,  \* the place of a request, and in the end what the client was told
  mailbox  \* Signals the server has accepted and not handed over yet

requestVars == <<answer, mailbox>>
controlVars == <<vars, requestVars>>

AUTOMATED_STATUSES == {"starting", "running", "sleeping"}
BLOCKED_STATUSES == {"paused", "interrupted"}

ControlInit ==
  /\ Init
  /\ answer = [r \in Requests |-> "none"]
  /\ mailbox = <<>>

(* The statuses of the row in which an endpoint lets a request through.    *)
AllowedFor(ask) ==
  CASE ask = "pause"     -> AUTOMATED_STATUSES
    [] ask = "resume"    -> BLOCKED_STATUSES
    [] ask = "interrupt" -> AUTOMATED_STATUSES \cup {"paused"}
    [] OTHER             -> AUTOMATED_STATUSES \cup BLOCKED_STATUSES

(* _ensure_transition: completed_at is set together with the reason.       *)
EnsureTransition(ask) == row.status \in AllowedFor(ask) /\ row.reason = "none"

Answer(r, code) == answer' = [answer EXCEPT ![r] = code]

(* The row is loaded and checked.                                          *)
Admit(r) ==
  /\ answer[r] = "none"
  /\ Answer(r, IF EnsureTransition(Asks[r]) THEN "admitted" ELSE "conflict")
  /\ UNCHANGED <<vars, mailbox>>

(* _send_signal: 202, the Signal is in the history of the run.             *)
SendSignal(r) ==
  /\ answer[r] = "admitted"
  /\ pc # "done"
  /\ mailbox' = Append(mailbox, r)
  /\ Answer(r, "accepted")
  /\ UNCHANGED vars

(* Fault: an error of the call is not caught.                              *)
SendFailsUncaught(r) ==
  /\ answer[r] = "admitted"
  /\ mailbox' \in {mailbox} \cup (IF pc # "done" THEN {Append(mailbox, r)} ELSE {})
  /\ Answer(r, "internal error")
  /\ UNCHANGED vars

(* 503: the run has closed, or the call failed, perhaps on its way back.   *)
SendFails(r) ==
  /\ answer[r] = "admitted"
  /\ mailbox' \in {mailbox} \cup (IF pc # "done" THEN {Append(mailbox, r)} ELSE {})
  /\ Answer(r, "unavailable")
  /\ UNCHANGED vars

(* The handler of the Signal at the head of the mailbox.                   *)
Handler(ask) ==
  \/ ask = "pause" /\ pause
  \/ ask = "interrupt" /\ interrupt
  \/ ask = "instruct" /\ add_instruction
  \/ ask = "terminate" /\ request_termination
  \/ ask = "resume" /\ resume
  \/ ask \in Events /\ (receive_event(ask) \/ receive_duplicate(ask))

Deliver ==
  /\ mailbox # <<>>
  /\ Handler(Asks[Head(mailbox)])
  /\ mailbox' = Tail(mailbox)
  /\ UNCHANGED answer

(* Fault: a held run takes no events.                                      *)
HeldReturnsEvents ==
  /\ mailbox # <<>>
  /\ SignalsAreClosed \/ (Asks[Head(mailbox)] \in Events /\ Suspended /\ IsBlocked)
  /\ mailbox' = Tail(mailbox)
  /\ UNCHANGED <<vars, answer>>

(* Fault: a held run has to be resumed before it can be terminated.        *)
HeldReturnsTerminate ==
  /\ mailbox # <<>>
  /\ SignalsAreClosed \/ (Asks[Head(mailbox)] = "terminate" /\ Suspended /\ IsBlocked)
  /\ mailbox' = Tail(mailbox)
  /\ UNCHANGED <<vars, answer>>

(* The early returns: Signals are closed, or there is nothing to resume.   *)
HandlerReturns ==
  /\ mailbox # <<>>
  /\ SignalsAreClosed \/ (Asks[Head(mailbox)] = "resume" /\ Suspended /\ ~IsBlocked)
  /\ mailbox' = Tail(mailbox)
  /\ UNCHANGED <<vars, answer>>

ControlNext ==
  \/ (Coroutine \/ DeadlinePasses \/ Finished) /\ UNCHANGED requestVars
  \/ Deliver \/ HandlerReturns
  \/ \E r \in Requests : Admit(r) \/ SendSignal(r) \/ SendFails(r)

ControlSpec == ControlInit /\ [][ControlNext]_controlVars

(* The worker as in OrderWorkflow.  Each activation of the workflow hands  *)
(* over the Signals accepted before it, so a Signal is not passed over at  *)
(* await after await.                                                      *)
ControlFairness == Fairness /\ SF_controlVars(Deliver \/ HandlerReturns)

FairControlSpec == ControlSpec /\ ControlFairness

-----------------------------------------------------------------------------
(* Types: every request gets one of the answers the API documents.         *)
ControlTypeOK ==
  /\ answer \in [Requests -> {"none", "admitted", "conflict", "accepted", "unavailable"}]
  /\ mailbox \in Seq(Requests)

(* A terminate request that was answered 202 closes the run, in the store  *)
(* as well, whatever was sent before it and whatever overtook it.          *)
TerminateHeeded ==
  \A r \in Requests :
    (Asks[r] = "terminate" /\ answer[r] = "accepted") ~> row.status \in Terminal

(* An event that was answered 202 is never dropped while the run is held,  *)
(* reviewed or asleep: it waits in the mailbox, or the workflow knows it,  *)
(* unless the run was being closed before it got there.                    *)
AcceptedEventKept ==
  \A r \in Requests :
    Asks[r] \in Events /\ answer[r] = "accepted" =>
      \/ \E i \in 1..Len(mailbox) : mailbox[i] = r
      \/ \E i \in 1..Len(seen) : seen[i] = Asks[r]
      \/ Closing

(* A hold gets to the row, so that the API lets a resume through.  (A hold *)
(* of the first activation is excluded: see HeldRunShowsHold.)             *)
HoldReachesRow ==
  (pc # "created" /\ IsBlocked /\ HoldShown)
    ~> (row.status \in BLOCKED_STATUSES \/ ~IsBlocked \/ Closing)
=============================================================================
