------------------------ MODULE OperatorConsole_proofs ------------------------
(***************************************************************************)
(* Theorems about OperatorConsole, for every set of uses of the page: its  *)
(* types, and that the view never goes back.                               *)
(***************************************************************************)
EXTENDS OperatorConsole, SequenceTheorems, TLAPS

USE DEF backend, page

Statuses == {"running"} \cup Blocked \cup {"completed", "terminated"}
Signals  == [action : LifecycleActions, foreign : BOOLEAN]
Phases   == {"waiting", "row", "read", "stopped"}
Polls    == [phase : Phases, reading : Reading]

(* The types of the page apart from its readings, which refer to the log;  *)
(* a request in flight asks for something.                                 *)
BackendOK ==
  /\ use \in Uses
  /\ log \in Seq(Statuses) /\ mailbox \in Seq(Signals)
  /\ stored \in 0..Len(log) /\ start \in {"known", "lost", "marked"}
  /\ failed \in BOOLEAN /\ refreshDue \in BOOLEAN /\ overruled \in BOOLEAN
  /\ pending \in LifecycleActions \cup {"none"}
  /\ request \in [action : LifecycleActions \cup {"input", "none"},
                  phase : {"none", "sent", "admitted", "accepted", "refused"}]
  /\ request.phase # "none" => request.action # "none"

ReadingsOK ==
  /\ polls \in Seq(Polls) /\ polls # <<>>
  /\ view \in {<<>>} \cup Seq(Reading)
  /\ figures \in [final : BOOLEAN, shown : 0..Len(log), error : BOOLEAN]
  /\ \A i \in DOMAIN polls : polls[i].phase \in {"waiting", "row"} => i = Len(polls)

LEMMA TypesTogether == BackendOK /\ ReadingsOK => ConsoleTypeOK
  BY DEF BackendOK, ReadingsOK, ConsoleTypeOK, Statuses, Signals, Polls, Phases

-----------------------------------------------------------------------------
(* The run behind the page.                                                *)

(* What the page, the row and the endpoints do leaves the log alone; the   *)
(* workflow only appends to it.                                            *)
LEMMA LogGrows ==
  ASSUME BackendOK, [Next]_vars
  PROVE  log' \in Seq(Statuses) /\ Len(log) \in Nat /\ Len(log') \in Nat /\ Len(log) <= Len(log')
  <1>0. log \in Seq(Statuses) /\ Len(log) \in Nat
    BY LenProperties DEF BackendOK
  <1>1. ASSUME NEW more \in Seq(Statuses), log' = log \o more
        PROVE  log' \in Seq(Statuses) /\ Len(log') \in Nat /\ Len(log) <= Len(log')
    BY <1>0, <1>1, ConcatProperties, LenProperties
  <1>2. CASE Begin
    <2>1. PICK more \in Seq(Statuses) : log' = more
      <3>1. <<"running">> \in Seq(Statuses) /\ <<"paused", "running">> \in Seq(Statuses)
            /\ <<"interrupted", "running">> \in Seq(Statuses)
        BY DEF Statuses, Blocked
      <3>2. \/ log' = <<"running">> \/ log' = <<"paused", "running">>
            \/ log' = <<"interrupted", "running">>
        BY <1>2 DEF Begin
      <3> QED
        BY <3>1, <3>2
    <2>2. log = <<>> /\ log' = log \o more
      BY <1>2, <2>1, ConcatEmptySeq DEF Begin
    <2> QED
      BY <1>0, <1>1, <2>1, <2>2
  <1>3. CASE HandleSignal
    <2>1. Records(Head(mailbox).action) \in Seq(Statuses)
      <3>1. <<>> \in Seq(Statuses) /\ \A s \in Statuses : <<s>> \in Seq(Statuses)
        OBVIOUS
      <3>2. {"paused", "interrupted", "terminated", "running"} \subseteq Statuses
        BY DEF Statuses, Blocked
      <3> QED
        BY <3>1, <3>2 DEF Records
    <2> QED
      BY <1>0, <1>1, <1>3, <2>1 DEF HandleSignal
  <1>4. CASE Deliver
    <2>1. log' = Append(log, "completed") /\ "completed" \in Statuses
      BY <1>4 DEF Deliver, Statuses
    <2> QED
      BY <1>0, <2>1, AppendProperties, LenProperties
  <1>5. CASE UNCHANGED log
    BY <1>0, <1>5
  <1>6. Begin \/ HandleSignal \/ Deliver \/ UNCHANGED log
    BY DEF Next, Store, MarkStartFailed, OtherSignal, LifecycleSignal, Asks, PollReadsRow,
       PollQueries, PollShown, PollFails, Render, LastFigures, OtherInput, ApiChecks, ApiSignals,
       RequestBecomes, RequestSucceeds, RequestFails, RequestEnds, RequestImmediateRefresh, vars
  <1> QED
    BY <1>0, <1>2, <1>3, <1>4, <1>5, <1>6

LEMMA NextBackendOK ==
  ASSUME BackendOK, [Next]_vars
  PROVE  BackendOK'
  <1>0. log' \in Seq(Statuses) /\ Len(log) \in Nat /\ Len(log') \in Nat /\ Len(log) <= Len(log')
    BY LogGrows
  <1> USE DEF BackendOK
  <1>1. CASE Begin \/ HandleSignal
    <2>0. mailbox # <<>> => Head(mailbox) \in Signals /\ Tail(mailbox) \in Seq(Signals)
      BY HeadTailProperties
    <2>1. mailbox' \in Seq(Signals)
      <3>1. mailbox' = mailbox \/ (mailbox # <<>> /\ mailbox' = Tail(mailbox))
        BY <1>1 DEF Begin, HandleSignal
      <3> QED
        BY <2>0, <3>1
    <2>3. overruled' \in BOOLEAN
      <3>1. \A signal \in Signals : signal.foreign \in BOOLEAN
        BY DEF Signals
      <3>2. \/ overruled' \in BOOLEAN
            \/ mailbox # <<>> /\ overruled' = (overruled \/ Head(mailbox).foreign)
        BY <1>1, Zenon DEF Begin, HandleSignal
      <3> QED
        BY <2>0, <3>1, <3>2, Zenon
    <2>2. stored' \in 0..Len(log')
      BY <1>0, <1>1 DEF Begin, HandleSignal
    <2> QED
      BY <1>0, <1>1, <2>1, <2>2, <2>3 DEF Begin, HandleSignal
  <1>2. CASE Deliver
    BY <1>0, <1>2 DEF Deliver
  <1>3. CASE Store \/ MarkStartFailed
    <2>1. stored' \in 0..Len(log')
      BY <1>0, <1>3 DEF Store, MarkStartFailed
    <2> QED
      BY <1>3, <2>1 DEF Store, MarkStartFailed
  <1>4. ASSUME NEW action \in use.actions, OtherSignal(action)
        PROVE  BackendOK'
    <2>1. action \in LifecycleActions
      BY ConsoleAssumption
    <2>2. [action |-> action, foreign |-> TRUE] \in Signals
      BY <2>1 DEF Signals
    <2>3. mailbox' \in Seq(Signals)
      BY <1>4, <2>2, AppendProperties DEF OtherSignal
    <2> QED
      BY <1>4, <2>3 DEF OtherSignal
  <1>5. ASSUME NEW action \in use.actions, LifecycleSignal(action)
        PROVE  BackendOK'
    <2>1. action \in LifecycleActions /\ action # "none"
      BY ConsoleAssumption DEF LifecycleActions
    <2> QED
      BY <1>5, <2>1 DEF LifecycleSignal, Asks
  <1>6. CASE OtherInput
    BY <1>6 DEF OtherInput, Asks
  <1>7. ASSUME NEW i \in DOMAIN polls,
               PollReadsRow(i) \/ PollQueries(i) \/ PollShown(i) \/ PollFails(i)
        PROVE  BackendOK'
    BY <1>7 DEF PollReadsRow, PollQueries, PollShown, PollFails, PendingAfter
  <1>8. CASE Render \/ LastFigures
    BY <1>8 DEF Render, LastFigures
  <1>9. CASE ApiChecks
    BY <1>9 DEF ApiChecks, RequestBecomes, InPhase
  <1>10. CASE ApiSignals
    <2>1. /\ request' \in [action : LifecycleActions \cup {"input", "none"},
                           phase : {"none", "sent", "admitted", "accepted", "refused"}]
          /\ request'.phase # "none" => request'.action # "none"
      BY <1>10 DEF ApiSignals, RequestBecomes, InPhase
    <2>2. request.action # "input" => [action |-> request.action, foreign |-> FALSE] \in Signals
      BY <1>10 DEF ApiSignals, InPhase, Signals
    <2>3. mailbox' \in Seq(Signals)
      <3>1. request.action # "input" =>
              Append(mailbox, [action |-> request.action, foreign |-> FALSE]) \in Seq(Signals)
        BY <2>2, AppendProperties
      <3>2. \/ mailbox' = mailbox
            \/ /\ request.action # "input"
               /\ mailbox' = Append(mailbox, [action |-> request.action, foreign |-> FALSE])
        BY <1>10 DEF ApiSignals
      <3> QED
        BY <3>1, <3>2
    <2> QED
      BY <1>10, <2>1, <2>3 DEF ApiSignals, RequestBecomes
  <1>11. CASE RequestSucceeds \/ RequestFails
    <2>1. request' = [action |-> "none", phase |-> "none"]
          /\ UNCHANGED <<use, log, mailbox, stored, failed, start, overruled>>
      BY <1>11 DEF RequestSucceeds, RequestFails, RequestEnds
    <2>2. pending' \in LifecycleActions \cup {"none"} /\ refreshDue' \in BOOLEAN
      BY <1>11 DEF RequestSucceeds, RequestFails
    <2> QED
      BY <2>1, <2>2
  <1>12. CASE RequestImmediateRefresh \/ UNCHANGED vars
    BY <1>12 DEF RequestImmediateRefresh, vars
  <1> QED
    BY <1>1, <1>2, <1>3, <1>4, <1>5, <1>6, <1>7, <1>8, <1>9, <1>10, <1>11, <1>12 DEF Next

-----------------------------------------------------------------------------
(* What the page has read.                                                 *)

(* A reading stays one while the log grows.                                *)
LEMMA ReadingsStay ==
  ASSUME BackendOK, ReadingsOK, [Next]_vars
  PROVE  Reading \subseteq Reading' /\ Polls \subseteq Polls' /\ polls \in Seq(Polls')
         /\ view \in {<<>>} \cup Seq(Reading') /\ \A n \in 0..Len(log) : n \in 0..Len(log')
  <1>1. \A n \in 0..Len(log) : n \in 0..Len(log')
    BY LogGrows
  <1>2. Reading \subseteq Reading'
    BY <1>1 DEF Reading
  <1>3. Polls \subseteq Polls'
    BY <1>2 DEF Polls
  <1> QED
    BY <1>1, <1>2, <1>3, SeqMonotonic DEF ReadingsOK

(* A loop of the page moves on: it may be given any phase and any reading  *)
(* of the log, but only the last one a phase in which it polls.            *)
LEMMA LoopMoves ==
  ASSUME ReadingsOK, NEW i \in DOMAIN polls, NEW poll \in Polls,
         poll.phase \in {"waiting", "row"} => i = Len(polls),
         polls' = [polls EXCEPT ![i] = poll]
  PROVE  /\ polls' \in Seq(Polls) /\ polls' # <<>> /\ Len(polls') = Len(polls)
         /\ \A j \in DOMAIN polls' : polls'[j] = IF j = i THEN poll ELSE polls[j]
         /\ \A j \in DOMAIN polls' :
              polls'[j].phase \in {"waiting", "row"} => j = Len(polls')
  <1>1. DOMAIN polls = 1..Len(polls) /\ Len(polls) \in Nat /\ i \in 1..Len(polls)
    BY LenProperties DEF ReadingsOK
  <1>2. /\ polls' \in Seq(Polls) /\ Len(polls') = Len(polls)
        /\ \A j \in 1..Len(polls) : polls'[j] = IF j = i THEN poll ELSE polls[j]
    BY <1>1, ExceptSeq DEF ReadingsOK
  <1>3. DOMAIN polls' = 1..Len(polls) /\ polls' # <<>>
    BY <1>1, <1>2, LenProperties
  <1> QED
    BY <1>1, <1>2, <1>3 DEF ReadingsOK

(* One step of a loop: what it is given, and what the page shows after.    *)
Moved(i, poll) == polls' = [polls EXCEPT ![i] = poll]

LEMMA PollSteps ==
  ASSUME BackendOK, ReadingsOK, NEW i \in DOMAIN polls,
         PollReadsRow(i) \/ PollQueries(i) \/ PollShown(i) \/ PollFails(i)
  PROVE  \E poll \in Polls :
           /\ Moved(i, poll)
           /\ poll.phase \in {"waiting", "row"} => i = Len(polls)
           /\ \/ /\ poll = [phase |-> "row", reading |-> Row] /\ UNCHANGED view
              \/ /\ polls[i].phase = "row" /\ poll.phase = "read" /\ UNCHANGED view
                 /\ poll.reading.at = polls[i].reading.at
                 /\ poll.reading.live \in {0, Len(log)}
              \/ /\ polls[i].phase = "read" /\ poll.phase \in {"waiting", "stopped"}
                 /\ poll.reading = NoView
                 /\ UNCHANGED view \/ (i = Len(polls) /\ view' = <<polls[i].reading>>)
  <1>1. polls[i] \in Polls /\ i \in 1..Len(polls) /\ Len(polls) \in Nat /\ Len(log) \in Nat
    BY ElementOfSeq, LenProperties DEF ReadingsOK, BackendOK
  <1>2. Waiting \in Polls /\ Stopped \in Polls
    BY <1>1 DEF Waiting, Stopped, NoView, Polls, Phases, Reading
  <1>3. ~Disposed(i) => i = Len(polls)
    BY <1>1 DEF Disposed
  <1>4. CASE PollReadsRow(i)
    <2> DEFINE poll == [phase |-> "row", reading |-> Row]
    <2>1. poll \in Polls
      BY <1>1 DEF Row, Polls, Phases, Reading, BackendOK
    <2>2. Moved(i, poll) /\ i = Len(polls) /\ UNCHANGED view
      BY <1>4 DEF PollReadsRow, Moved, ReadingsOK
    <2> QED
      BY <2>1, <2>2
  <1>5. CASE PollQueries(i)
    <2>1. PICK live \in {0, Len(log)} :
            Moved(i, [phase |-> "read", reading |-> [polls[i].reading EXCEPT !.live = live]])
      BY <1>5 DEF PollQueries, Moved
    <2> DEFINE reading == [polls[i].reading EXCEPT !.live = live]
    <2>2. reading \in Reading /\ reading.at = polls[i].reading.at /\ reading.live = live
      BY <1>1 DEF Polls, Reading
    <2>3. polls[i].phase = "row" /\ UNCHANGED view
      BY <1>5 DEF PollQueries
    <2> HIDE DEF reading
    <2>4. [phase |-> "read", reading |-> reading] \in Polls
      BY <2>2 DEF Polls, Phases
    <2>5. Moved(i, [phase |-> "read", reading |-> reading])
      BY <2>1 DEF reading
    <2> QED
      BY <2>2, <2>3, <2>4, <2>5
  <1>6. CASE PollShown(i) \/ PollFails(i)
    <2>1. PICK poll \in {Waiting, Stopped} :
            Moved(i, poll) /\ (poll = Waiting => i = Len(polls))
      <3>1. CASE PollShown(i)
        <4>1. i = Len(polls) /\ (Moved(i, Waiting) \/ Moved(i, Stopped))
          BY <1>3, <3>1 DEF PollShown, Moved
        <4> QED
          BY <4>1
      <3>2. CASE PollFails(i)
        <4>1. Moved(i, Stopped) \/ (~Disposed(i) /\ Moved(i, Waiting))
          BY <3>2 DEF PollFails, Moved
        <4>2. Stopped # Waiting
          BY DEF Stopped, Waiting
        <4> QED
          BY <1>3, <4>1, <4>2
      <3> QED
        BY <1>6, <3>1, <3>2
    <2>2. poll \in Polls /\ poll.reading = NoView /\ poll.phase \in {"waiting", "stopped"}
          /\ (poll.phase \in {"waiting", "row"} => poll = Waiting)
      BY <1>2, <2>1 DEF Waiting, Stopped
    <2>3. polls[i].phase = "read"
          /\ (UNCHANGED view \/ (i = Len(polls) /\ view' = <<polls[i].reading>>))
      BY <1>3, <1>6 DEF PollShown, PollFails
    <2> QED
      BY <2>1, <2>2, <2>3
  <1> QED
    BY <1>4, <1>5, <1>6

(* A refresh stops the old loops, but for answers that are there, and      *)
(* mounts a new one.                                                       *)
Mounted(i) == IF polls[i].phase = "read" THEN polls[i] ELSE Stopped

LEMMA Refreshed ==
  ASSUME BackendOK, ReadingsOK,
         polls' = Append([i \in DOMAIN polls |-> Mounted(i)], Waiting)
  PROVE  /\ polls' \in Seq(Polls) /\ polls' # <<>>
         /\ polls'[Len(polls')] = Waiting
         /\ \A j \in DOMAIN polls' :
              /\ polls'[j].phase \in {"waiting", "row"} => j = Len(polls')
              /\ polls'[j] \in {Waiting, Stopped} \cup {polls[i] : i \in DOMAIN polls}
  <1> DEFINE old == [i \in DOMAIN polls |-> Mounted(i)]
  <1>1. DOMAIN polls = 1..Len(polls) /\ Len(polls) \in Nat /\ Len(log) \in Nat
    BY LenProperties DEF ReadingsOK, BackendOK
  <1>2. Waiting \in Polls /\ Stopped \in Polls
    BY <1>1 DEF Waiting, Stopped, NoView, Polls, Phases, Reading
  <1>3. \A i \in 1..Len(polls) : Mounted(i) \in Polls
    BY <1>1, <1>2, ElementOfSeq DEF ReadingsOK, Mounted
  <1>4. old \in Seq(Polls) /\ Len(old) = Len(polls)
    <2>1. old \in [1..Len(polls) -> Polls]
      BY <1>1, <1>3
    <2> QED
      BY <1>1, <2>1
  <1>5. \A i \in 1..Len(polls) : old[i] = Mounted(i)
    BY <1>1
  <1>6. polls' = Append(old, Waiting)
    OBVIOUS
  <1> HIDE DEF old
  <1>7. /\ polls' \in Seq(Polls) /\ polls' # <<>> /\ Len(polls') = Len(polls) + 1
        /\ \A j \in 1..Len(polls) : polls'[j] = old[j]
        /\ polls'[Len(polls) + 1] = Waiting
    BY <1>2, <1>4, <1>6, AppendProperties
  <1>8. DOMAIN polls' = 1..(Len(polls) + 1)
    BY <1>7, LenProperties
  <1>9. ASSUME NEW j \in 1..(Len(polls) + 1)
        PROVE  /\ polls'[j].phase \in {"waiting", "row"} => j = Len(polls')
               /\ polls'[j] \in {Waiting, Stopped} \cup {polls[i] : i \in DOMAIN polls}
    <2>1. CASE j = Len(polls) + 1
      BY <1>7, <2>1
    <2>2. CASE j \in 1..Len(polls)
      <3>1. polls'[j] = Mounted(j)
        BY <1>5, <1>7, <2>2
      <3> QED
        BY <1>1, <2>2, <3>1 DEF Mounted, Stopped
    <2> QED
      BY <1>1, <2>1, <2>2
  <1> QED
    BY <1>7, <1>8, <1>9

LEMMA NextReadingsOK ==
  ASSUME BackendOK, ReadingsOK, [Next]_vars
  PROVE  ReadingsOK'
  <1>0. /\ Polls \subseteq Polls' /\ \A s \in Seq(Polls) : s \in Seq(Polls')
        /\ polls \in Seq(Polls') /\ view \in {<<>>} \cup Seq(Reading')
    BY ReadingsStay, SeqMonotonic
  <1>1. figures' \in [final : BOOLEAN, shown : 0..Len(log'), error : BOOLEAN]
    <2>1. stored \in 0..Len(log') /\ 0 \in 0..Len(log')
          /\ figures \in [final : BOOLEAN, shown : 0..Len(log'), error : BOOLEAN]
      BY LogGrows, ReadingsStay DEF ReadingsOK, BackendOK
    <2>2. CASE UNCHANGED figures
      BY <2>1, <2>2
    <2>3. CASE Render
      <3>1. figures' = [final |-> Final, shown |-> 0, error |-> FALSE] /\ Final \in BOOLEAN
        BY <2>3 DEF Render, NewFigures, Final
      <3> QED
        BY <2>1, <3>1
    <2>4. CASE LastFigures
      BY <2>1, <2>4 DEF LastFigures
    <2>5. UNCHANGED figures \/ Render \/ LastFigures
      BY DEF Next, Begin, HandleSignal, Deliver, Store, MarkStartFailed, OtherSignal,
         LifecycleSignal, Asks, PollReadsRow, PollQueries, PollShown, PollFails, OtherInput,
         ApiChecks, ApiSignals, RequestBecomes, RequestSucceeds, RequestFails, RequestEnds,
         RequestImmediateRefresh, vars
    <2> QED
      BY <2>2, <2>3, <2>4, <2>5
  <1> USE DEF ReadingsOK
  <1>2. CASE UNCHANGED <<polls, view>>
    BY <1>0, <1>1, <1>2
  <1>3. CASE Render
    <2>1. CASE UNCHANGED polls
      BY <1>0, <1>1, <1>3, <2>1 DEF Render
    <2>2. CASE ~UNCHANGED polls
      <3>1. polls' = Append([i \in DOMAIN polls |-> Mounted(i)], Waiting) /\ UNCHANGED view
        BY <1>3, <2>2 DEF Render, Mounted
      <3>2. /\ polls' \in Seq(Polls) /\ polls' # <<>>
            /\ \A j \in DOMAIN polls' :
                 polls'[j].phase \in {"waiting", "row"} => j = Len(polls')
        BY <3>1, Refreshed
      <3> QED
        BY <1>0, <1>1, <3>1, <3>2
    <2> QED
      BY <2>1, <2>2
  <1>4. ASSUME NEW i \in DOMAIN polls,
               PollReadsRow(i) \/ PollQueries(i) \/ PollShown(i) \/ PollFails(i)
        PROVE  ReadingsOK'
    <2>1. PICK poll \in Polls :
            /\ Moved(i, poll)
            /\ poll.phase \in {"waiting", "row"} => i = Len(polls)
            /\ UNCHANGED view \/ view' = <<polls[i].reading>>
      BY <1>4, PollSteps
    <2>2. /\ polls' \in Seq(Polls) /\ polls' # <<>>
          /\ \A j \in DOMAIN polls' :
               polls'[j].phase \in {"waiting", "row"} => j = Len(polls')
      BY <2>1, LoopMoves DEF Moved
    <2>3. view' \in {<<>>} \cup Seq(Reading')
      <3>0. i \in 1..Len(polls)
        BY LenProperties
      <3>1. polls[i] \in Polls'
        BY <1>0, <3>0, ElementOfSeq
      <3>2. polls[i].reading \in Reading'
        BY <3>1 DEF Polls
      <3>3. <<polls[i].reading>> \in Seq(Reading')
        BY <3>2
      <3> QED
        BY <1>0, <2>1, <3>3
    <2> QED
      BY <1>0, <1>1, <2>2, <2>3
  <1>5. \/ UNCHANGED <<polls, view>> \/ Render
        \/ \E i \in DOMAIN polls :
             PollReadsRow(i) \/ PollQueries(i) \/ PollShown(i) \/ PollFails(i)
    BY DEF Next, Begin, HandleSignal, Deliver, Store, MarkStartFailed, OtherSignal,
       LifecycleSignal, Asks, OtherInput, LastFigures, ApiChecks, ApiSignals, RequestBecomes,
       RequestSucceeds, RequestFails, RequestEnds, RequestImmediateRefresh, vars
  <1> QED
    BY <1>2, <1>3, <1>4, <1>5

LEMMA InitTypes == Init => BackendOK /\ ReadingsOK
  <1> SUFFICES ASSUME Init PROVE BackendOK /\ ReadingsOK
    OBVIOUS
  <1>1. log = <<>> /\ Len(log) = 0 /\ log \in Seq(Statuses) /\ mailbox \in Seq(Signals)
    BY EmptySeq DEF Init
  <1>2. start \in {"known", "lost", "marked"}
    BY ConsoleAssumption DEF Init
  <1>3. BackendOK
    <2>1. request = [action |-> "none", phase |-> "none"] /\ pending = "none" /\ stored = 0
          /\ failed = FALSE /\ refreshDue = FALSE /\ overruled = FALSE /\ use \in Uses
      BY DEF Init
    <2>2. /\ request \in [action : LifecycleActions \cup {"input", "none"},
                          phase : {"none", "sent", "admitted", "accepted", "refused"}]
          /\ request.phase = "none"
      BY <2>1
    <2>3. failed \in BOOLEAN /\ refreshDue \in BOOLEAN /\ overruled \in BOOLEAN
      BY <2>1, Zenon
    <2>4. stored \in 0..Len(log) /\ pending \in LifecycleActions \cup {"none"}
      BY <1>1, <2>1
    <2> QED
      BY <1>1, <1>2, <2>1, <2>2, <2>3, <2>4 DEF BackendOK
  <1>4. Waiting \in Polls
    BY <1>1 DEF Waiting, NoView, Polls, Phases, Reading
  <1>5. polls = <<Waiting>> /\ polls \in Seq(Polls) /\ polls # <<>> /\ DOMAIN polls = {1}
        /\ Len(polls) = 1
    BY <1>4 DEF Init
  <1>6. figures \in [final : BOOLEAN, shown : 0..Len(log), error : BOOLEAN]
    BY <1>1 DEF Init, NewFigures
  <1> QED
    BY <1>3, <1>5, <1>6 DEF ReadingsOK, Init

LEMMA TypesHold == Spec => [](BackendOK /\ ReadingsOK)
  <1>1. BackendOK /\ ReadingsOK /\ [Next]_vars => (BackendOK /\ ReadingsOK)'
    BY NextBackendOK, NextReadingsOK
  <1> QED
    BY <1>1, InitTypes, PTL DEF Spec

(* The page is well typed, and of all its poll loops at most the last one  *)
(* polls: a loop that refreshDetail's cleanup stopped never goes on.       *)
THEOREM ConsoleTypeCorrect == Spec => []ConsoleTypeOK
  BY TypesHold, TypesTogether, PTL

-----------------------------------------------------------------------------
(* The view never goes back.                                               *)

LastPoll == polls[Len(polls)]

(* A reading that is no older than the view.                               *)
NoOlder(reading, seen) ==
  seen.at <= reading.at /\ (seen.live > 0 /\ reading.live > 0 => seen.live <= reading.live)

(* The row is never behind a reading of it; and what the loop that polls   *)
(* has in its hands is no older than what the page shows.                  *)
Ahead ==
  /\ \A i \in DOMAIN polls : polls[i].reading.at <= stored
  /\ Shown =>
       /\ view[1] \in Reading /\ view[1].at <= stored
       /\ LastPoll.phase = "row"  => view[1].at <= LastPoll.reading.at
       /\ LastPoll.phase = "read" => NoOlder(LastPoll.reading, view[1])

LEMMA StoredGrows ==
  ASSUME BackendOK, [Next]_vars
  PROVE  stored \in Nat /\ stored' \in Nat /\ stored <= stored'
  <1>1. stored \in Nat
    BY LenProperties DEF BackendOK
  <1>2. stored' = stored \/ stored' = stored + 1
    BY DEF Next, Begin, HandleSignal, Deliver, Store, MarkStartFailed, OtherSignal,
       LifecycleSignal, Asks, PollReadsRow, PollQueries, PollShown, PollFails, Render, OtherInput,
       LastFigures, ApiChecks, ApiSignals, RequestBecomes, RequestSucceeds, RequestFails,
       RequestEnds, RequestImmediateRefresh, vars
  <1> QED
    BY <1>1, <1>2

(* Only the loop that polls, with an answer, changes what is shown.        *)
LEMMA ViewSteps ==
  ASSUME BackendOK, ReadingsOK, [Next]_vars, view' # view
  PROVE  LastPoll.phase = "read" /\ view' = <<LastPoll.reading>>
  <1>1. \E i \in DOMAIN polls : PollShown(i)
    BY DEF Next, Begin, HandleSignal, Deliver, Store, MarkStartFailed, OtherSignal,
       LifecycleSignal, Asks, PollReadsRow, PollQueries, PollFails, Render, OtherInput,
       LastFigures, ApiChecks, ApiSignals, RequestBecomes, RequestSucceeds, RequestFails,
       RequestEnds, RequestImmediateRefresh, vars
  <1>2. PICK i \in DOMAIN polls : PollShown(i)
    BY <1>1
  <1>3. i = Len(polls)
    BY <1>2, LenProperties DEF PollShown, Disposed, ReadingsOK
  <1> QED
    BY <1>2, <1>3 DEF PollShown, LastPoll

LEMMA NextAhead ==
  ASSUME BackendOK, ReadingsOK, Ahead, [Next]_vars
  PROVE  Ahead'
  <1>0. /\ stored \in Nat /\ stored' \in Nat /\ stored <= stored'
        /\ Reading \subseteq Reading'
        /\ DOMAIN polls = 1..Len(polls) /\ Len(polls) \in DOMAIN polls /\ Len(log) \in Nat
    <2>1. DOMAIN polls = 1..Len(polls) /\ Len(polls) \in Nat \ {0} /\ Len(log) \in Nat
      BY LenProperties, EmptySeq DEF ReadingsOK, BackendOK
    <2> QED
      BY <2>1, StoredGrows, ReadingsStay
  <1>1. \A i \in DOMAIN polls : polls[i].reading \in Reading /\ polls[i].reading.at \in Nat
                                /\ polls[i].reading.at <= stored'
    <2> SUFFICES ASSUME NEW i \in DOMAIN polls
                 PROVE  polls[i].reading \in Reading /\ polls[i].reading.at \in Nat
                        /\ polls[i].reading.at <= stored'
      OBVIOUS
    <2>1. polls[i] \in Polls
      BY <1>0, ElementOfSeq DEF ReadingsOK
    <2>2. polls[i].reading \in Reading /\ polls[i].reading.at \in Nat
      BY <1>0, <2>1 DEF Polls, Reading
    <2>3. polls[i].reading.at <= stored
      BY DEF Ahead
    <2> QED
      BY <1>0, <2>2, <2>3
  <1>2. Shown => view[1] \in Reading' /\ view[1].at \in Nat /\ view[1].at <= stored'
    <2>1. Shown => view[1] \in Reading /\ view[1].at <= stored
      BY DEF Ahead
    <2>2. Shown => view[1].at \in Nat
      BY <1>0, <2>1 DEF Reading
    <2> QED
      BY <1>0, <2>1, <2>2
  <1>3. CASE UNCHANGED <<polls, view>>
    <2>1. UNCHANGED LastPoll /\ (Shown' <=> Shown)
      BY <1>3 DEF LastPoll, Shown
    <2> QED
      BY <1>1, <1>2, <1>3, <2>1 DEF Ahead
  <1>4. CASE Render /\ ~UNCHANGED polls
    <2>1. polls' = Append([i \in DOMAIN polls |-> Mounted(i)], Waiting) /\ UNCHANGED view
      BY <1>4 DEF Render, Mounted
    <2>2. LastPoll'.phase = "waiting"
      BY <2>1, Refreshed DEF LastPoll, Waiting
    <2>3. \A j \in DOMAIN polls' : polls'[j].reading.at <= stored'
      <3> SUFFICES ASSUME NEW j \in DOMAIN polls' PROVE polls'[j].reading.at <= stored'
        OBVIOUS
      <3>1. \/ polls'[j].reading = NoView
            \/ \E i \in DOMAIN polls : polls'[j] = polls[i]
        BY <2>1, Refreshed DEF Waiting, Stopped
      <3> QED
        BY <1>0, <1>1, <3>1 DEF NoView
    <2> QED
      BY <1>2, <2>1, <2>2, <2>3 DEF Ahead, Shown
  <1>5. ASSUME NEW i \in DOMAIN polls,
               PollReadsRow(i) \/ PollQueries(i) \/ PollShown(i) \/ PollFails(i)
        PROVE  Ahead'
    <2>1. PICK poll \in Polls :
           /\ Moved(i, poll)
           /\ poll.phase \in {"waiting", "row"} => i = Len(polls)
           /\ \/ /\ poll = [phase |-> "row", reading |-> Row] /\ UNCHANGED view
              \/ /\ polls[i].phase = "row" /\ poll.phase = "read" /\ UNCHANGED view
                 /\ poll.reading.at = polls[i].reading.at
                 /\ poll.reading.live \in {0, Len(log)}
              \/ /\ polls[i].phase = "read" /\ poll.phase \in {"waiting", "stopped"}
                 /\ poll.reading = NoView
                 /\ UNCHANGED view \/ (i = Len(polls) /\ view' = <<polls[i].reading>>)
      BY <1>5, PollSteps
    <2>2. /\ DOMAIN polls' = DOMAIN polls /\ Len(polls') = Len(polls)
          /\ \A j \in DOMAIN polls : polls'[j] = IF j = i THEN poll ELSE polls[j]
      BY <1>0, <2>1, LoopMoves, LenProperties DEF Moved
    <2>3. LastPoll' = IF i = Len(polls) THEN poll ELSE LastPoll
      BY <1>0, <2>2 DEF LastPoll
    <2>4. poll.reading.at <= stored'
      <3>1. \/ poll.reading = Row \/ poll.reading = NoView
            \/ poll.reading.at = polls[i].reading.at
        BY <2>1
      <3> QED
        BY <1>0, <1>1, <3>1 DEF Row, NoView
    <2>5. \A j \in DOMAIN polls' : polls'[j].reading.at <= stored'
      BY <1>1, <2>2, <2>4
    <2>6. CASE poll = [phase |-> "row", reading |-> Row] /\ UNCHANGED view
      <3>1. LastPoll'.phase = "row" /\ LastPoll'.reading.at = stored
        BY <2>1, <2>3, <2>6 DEF Row
      <3>2. Shown => view[1].at <= stored
        BY DEF Ahead
      <3> QED
        BY <1>2, <2>5, <2>6, <3>1, <3>2 DEF Ahead, Shown
    <2>7. CASE polls[i].phase = "row" /\ poll.phase = "read" /\ UNCHANGED view
               /\ poll.reading.at = polls[i].reading.at
               /\ poll.reading.live \in {0, Len(log)}
      <3>1. i = Len(polls) /\ LastPoll' = poll /\ LastPoll = polls[i]
        BY <2>3, <2>7 DEF ReadingsOK, LastPoll
      <3>2. Shown => view[1].at <= poll.reading.at /\ view[1].live \in 0..Len(log)
        BY <2>7, <3>1 DEF Ahead, Reading
      <3>3. Shown => NoOlder(poll.reading, view[1])
        BY <1>0, <2>7, <3>2 DEF NoOlder
      <3> QED
        BY <1>2, <2>5, <2>7, <3>1, <3>3 DEF Ahead, Shown
    <2>8. CASE polls[i].phase = "read" /\ poll.phase \in {"waiting", "stopped"}
               /\ UNCHANGED view
      <3>1. LastPoll' = LastPoll \/ LastPoll'.phase \in {"waiting", "stopped"}
        BY <2>3, <2>8
      <3> QED
        BY <1>2, <2>5, <2>8, <3>1 DEF Ahead, Shown
    <2>9. CASE poll.phase \in {"waiting", "stopped"} /\ i = Len(polls)
               /\ view' = <<polls[i].reading>>
      <3>1. LastPoll'.phase \in {"waiting", "stopped"}
        BY <2>3, <2>9
      <3>2. view'[1] = polls[i].reading
        BY <2>9
      <3>3. view'[1] \in Reading' /\ view'[1].at <= stored'
        BY <1>0, <1>1, <3>2
      <3> QED
        BY <2>5, <3>1, <3>3 DEF Ahead
    <2> QED
      BY <2>1, <2>6, <2>7, <2>8, <2>9
  <1>6. \/ UNCHANGED <<polls, view>> \/ (Render /\ ~UNCHANGED polls)
        \/ \E i \in DOMAIN polls :
             PollReadsRow(i) \/ PollQueries(i) \/ PollShown(i) \/ PollFails(i)
    BY DEF Next, Begin, HandleSignal, Deliver, Store, MarkStartFailed, OtherSignal, Render,
       LifecycleSignal, Asks, OtherInput, LastFigures, ApiChecks, ApiSignals, RequestBecomes,
       RequestSucceeds, RequestFails, RequestEnds, RequestImmediateRefresh, vars
  <1> QED
    BY <1>3, <1>4, <1>5, <1>6

(* Whatever order answers come in, and however refreshes stop and restart  *)
(* the poll loop, the page shows no older row than it did, and no older    *)
(* status of the workflow.                                                 *)
THEOREM ViewGoesForward == Spec => ViewNeverGoesBack
  <1>1. Init => Ahead
    <2> SUFFICES ASSUME Init PROVE Ahead
      OBVIOUS
    <2>1. DOMAIN polls = {1} /\ polls[1].reading.at = 0 /\ stored = 0 /\ ~Shown
      BY DEF Init, Waiting, NoView, Shown
    <2> QED
      BY <2>1 DEF Ahead
  <1> DEFINE Forward == Shown /\ view' # view =>
                /\ view'[1].at >= view[1].at
                /\ view[1].live > 0 /\ view'[1].live > 0 => view'[1].live >= view[1].live
  <1>2. BackendOK /\ ReadingsOK /\ Ahead /\ [Next]_vars => [Forward]_vars
    <2> SUFFICES ASSUME BackendOK, ReadingsOK, Ahead, [Next]_vars, Shown, view' # view
                 PROVE  /\ view'[1].at >= view[1].at
                        /\ view[1].live > 0 /\ view'[1].live > 0 =>
                             view'[1].live >= view[1].live
      OBVIOUS
    <2>1. LastPoll.phase = "read" /\ view'[1] = LastPoll.reading
      BY ViewSteps
    <2>2. NoOlder(LastPoll.reading, view[1])
      BY <2>1 DEF Ahead
    <2>3. /\ LastPoll \in Polls /\ view[1] \in Reading /\ Len(log) \in Nat
      <3>1. Len(polls) \in 1..Len(polls) /\ Len(log) \in Nat
        BY LenProperties, EmptySeq DEF ReadingsOK, BackendOK
      <3> QED
        BY <3>1, ElementOfSeq DEF LastPoll, ReadingsOK, Ahead
    <2>4. {LastPoll.reading.at, LastPoll.reading.live, view[1].at, view[1].live} \subseteq Nat
      BY <2>3 DEF Polls, Reading
    <2> QED
      BY <2>1, <2>2, <2>4 DEF NoOlder
  <1>3. BackendOK /\ ReadingsOK /\ Ahead /\ [Next]_vars => Ahead'
    BY NextAhead
  <1> QED
    BY <1>1, <1>2, <1>3, TypesHold, PTL DEF Spec, ViewNeverGoesBack
=============================================================================
