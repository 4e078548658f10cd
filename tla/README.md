# Formal models of the order supervisor

One Temporal workflow supervises one order.  Clients send events, operators
hold, resume, instruct or terminate the run, a language model proposes actions,
and PostgreSQL keeps an audit log and a projection of the run that the API and
the console show.  This directory holds TLA+ models of the parts of the program
that decide anything, the TLC runs that check them on small instances, and
proofs, checked by TLAPS, of the properties that matter most.

    tlc -workers 2 -config lifecycle.cfg MCOrderWorkflow
    tlapm OrderWorkflow_proofs.tla

## 1. The system

| Component | State | Operations | Talks to |
|---|---|---|---|
| `OrderSupervisorWorkflow` (`backend/app/temporal/workflows.py`, `models.py`) | status, hold flags, termination and finalization, inbox of events, seen ids, order state, next wake-up, semantic action guard, queue of transitions | seven Signal handlers, main loop with two waits, review, actions, flush, finalization | Temporal (timers, Signals), Activities |
| Wake policy (`wake_policy.py`) | none | `classify_event` | called by the workflow |
| Persistence Activity and repositories (`persistence_activities.py`, `repositories/`) | tables `runs` and `activities` | append one audit row and update the run row, in one transaction | PostgreSQL; run at least once by Temporal |
| Business actions (`business_actions.py`) | table `activities` | validate, insert under an idempotency key | PostgreSQL; run at least once by Temporal |
| Run API (`routers/runs.py`) | none of its own | start, list, show, six Signals behind a check of the row's status | PostgreSQL, Temporal |
| Supervisor providers (`supervisor/`, `temporal/activities.py`) | none | decide, finalize; prune the context to its budget, validate the answer | language model |
| Supervisor configurations | immutable rows | create, list, read | PostgreSQL |
| Analytics (`analytics/`) | none | counts and a pairing of events with actions | PostgreSQL |
| Operator console (`frontend/`) | the view of the last poll, the pending action, the poll loop, the analytics | poll, refresh, send Signals, start runs | Run API |
| Process set-up, migrations, scripts, tests | | | |

What is hard here, and what would make each part correct:

* **Signals get in at every await** of the workflow.  A decision is carried out
  after awaits in which the run may have been held or terminated; an event may
  come while the last one is being reviewed; a deadline may pass at any of them.
  Correct: nothing automatic starts under a hold, no event is lost, repeated or
  overtaken, a sleeping run has a deadline, the outcome is decided once.
* **The row follows the workflow** through a queue of snapshots, flushed
  through an Activity at places chosen by hand.  Correct: row plus queue is the
  state of the workflow, at every step.
* **Activities run at least once.**  Attempts time out, go on unheard, commit
  late.  Correct: one audit row per key, no gap in the log, no snapshot that
  goes back.
* **PostgreSQL may be away** for longer than an Activity's retries.  Correct:
  nothing is dropped, and the run ends once it is back.
* **Row and workflow are created in two steps** with no transaction around
  them.  Correct: at most one active row per order, truthful answers, a row for
  every live workflow again in the end.
* **The API and the console act on what the row shows**, which lags behind.
  Correct: what was answered 202 takes effect; what a page shows does not go
  back, no action stays pending on it, and it settles on the end of the run.
* **Everything a model sees or a run remembers is bounded**: the timeline, six
  items of memory, a context of 4000 characters.  Correct: what was executed and
  what the operator said last survive the bounds, whatever a model claims.
* **The analytics reconstruct** from rows of three writers which event an action
  answered.  Correct: the latency is that of the true cause.

`PROJECT.json` lists the hazards line by line, with the properties that cover
them or the reason why none does yet.

## 2. Modules

    OrderEvents ──> OrderWorkflow ──> OrderWorkflowRefinement ──> MCOrderWorkflow
         │              │                 └── INSTANCE SupervisionContract
         │              ├──> RunControls ──> MCRunControls
         │              └──> OrderWorkflow_proofs ──> OrderWorkflowSafety_proofs
         │                                       └──> RunControls_proofs
         └──> SupervisorReview ──> MCSupervisorReview, SupervisorReview_proofs
    ContextBudget ──> SupervisorProviders ──> SupervisorReview <── RunAnalytics
                              └──> SupervisorProviders_proofs ──> SupervisorReview_proofs
    RunStore (INSTANCE AuditLog) ──> RunStore_proofs
    StartRun ──> StartRun_proofs
    OperatorConsole ──> MCOperatorConsole, OperatorConsole_proofs

Operators whose comment begins with "Fault:" are not part of a specification.
Each is a definition with a plausible bug, kept beside the original, to show
that the property named for it in `PROJECT.json` notices.

### OrderEvents, OrderWorkflow

One execution of the workflow.  The Temporal event loop is cooperative, so the
code between two awaits is one action; `pc` is the await (or the point of the
loop) the coroutine is at, and `Suspended` says where handlers and timers get
in.  `then` is the return place of a flush, which has several callers.

| Place | Code |
|---|---|
| `created` | before `run()`: Signals of the first activation reach the instance already |
| `dispatch` | the main loop after its flush, lines 128 to 168 |
| `events` | top of the loop of `_process_pending_events` |
| `review`, `actions`, `action` | the supervisor Activity, the next proposal, its Activity |
| `report` | the final-output Activity |
| `sleep`, `held` | the waits of the main loop and of `_wait_while_blocked` |
| `flush`, `recovery` | the persistence Activity, the sleep between two recovery cycles |
| `close`, `done` | the end of `_finish_terminal`, and of `run()` |

The variables are the attributes of the class.  `inbox` is `_pending_events`,
`seen` is `_seen_event_ids` in order of arrival, `pending` is
`_pending_transitions` with the snapshot each one carries, `cause` and
`succeeded` are the semantic action guard, `row` is the run row.  `applied`,
`missed`, `confirmed`, `committed` are history.

Abstracted: time is the position of the next deadline (`none`, `ahead`, `due`);
sequence numbers, summaries, memory text, reasons and arguments; a decision is a
list of proposed actions out of `Decisions`; refused and failed reviews are one
action, as their control is; the bounded in-memory timeline.  `patched()` is
true, as for every new run.  A persistence error that is not retryable (an
unknown run) fails the workflow and cannot happen for a run that the API
created.  Attempts that commit after their Activity was given up are folded into
`PersistFails` and `ActionFails` here and are explicit in RunStore.

### SupervisionContract, OrderWorkflowRefinement

What supervising an order promises without coroutines, queues and timers, and
the refinement mapping that shows the workflow to implement it, with its
safety part (`ImplementsContract`) and with its liveness (`KeepsContract`).

### RunStore, AuditLog

The two Activities that write, at the grain of attempts and transactions: an
attempt inserts under the unique key (waiting for a transaction that holds it),
updates the run row, commits and answers; it may fail at each step, and it may
outlive the call it was made for.  The row is the number of the transition it
shows.  `AuditLog` is the promise: the log grows in order, the row shows its
end, a transition is acknowledged after it is logged, an action is entered once
and confirmed only after that.

### StartRun

Concurrent start requests for one order, their rows and their workflows, which
all have the same Workflow ID.  The actions are the steps of `start_run`
between its commits and calls; the faults between them are actions of their
own, switched on by `Faults`.  The workflow appears through its persistence
Activity (`Store`): it makes its row active again when the index allows it, which
is what repairs a row that was marked failed by mistake.  A hold does not end
that: a held workflow stores its hold, the end of a review under way and, when
its deadline passes, `scheduled_wake_deferred`.  Only then is it `silent`, until
a Signal comes, and so is a workflow that was held before its first review and
has no deadline.  The statuses a supervising workflow gives its row are one
value, `running`; reading and writing the row is one step there.

### RunControls

The control endpoints in front of OrderWorkflow.  A request loads the row and
checks it (`Admit`), sends its Signal (`SendSignal`, or `SendFails`, which may
have got through), and is answered 409, 202 or 503.  Between the steps the run
goes on and other requests overtake it.  The mailbox is what the Temporal server
has accepted and not handed to the workflow.  The read endpoints and the
validation of payloads are left out; the requests of a run are a set `Requests`,
each made once.

### ContextBudget, SupervisorProviders

Pure operators.  `ContextBudget` is the pruning of the two contexts a language
model is asked with, by lengths: a loop of the code that drops one entry after
the other is the least number of removals that is enough, and each stage is
taken only when the context is still too long.  `PrunedWell` is what a pruned
context promises.  Both loops pop from the old end; only the review's counts what
it pops (`OmittedInstructions`), so only a review promises to account for every
instruction (`Accounted`).  `SupervisorProviders` has the lists around it: bounded and
deduplicated memory, the rules of the deterministic provider, the validation of
what a provider wants remembered, the fallback report, and the measures of a
request from which a context is built.  Its loops are recursive functions over
the places of a sequence (`Once`, `AppendEach`), so that they can be proved about.

### RunAnalytics

The queries of `analytics/service.py` over a set of rows: the counts of a run
and the pairing of an action with the event behind it, which its row does not
name.  Durations and averages over many runs are left out.

### SupervisorReview

The data of the reviews of one run, over the operators above: what a request
copies, what a review remembers, what the report names, and which rows all of
them leave.  The control of the same steps is OrderWorkflow; here it is the
freedom to refuse a proposal, to fail, or to end the run.  A flush is one step,
because nothing is asserted about the rows before the queue is empty: an action
row is written in the middle of a review whose own rows still wait, and the
analytics may pair wrongly until they come.  `config` is the provider of the run
with the bounds of its scenario.

### OperatorConsole

The run detail page (`run-detail-workspace.tsx`) in front of a workflow that is
reduced to the statuses it records, a row that follows them, and a start that
may be marked failed.  An element of `polls` is one run of the polling effect,
with the phase of its request; the one of the last mount is the only one that
may change the page (`Disposed` is the check after each await).  A reading is
the row and the status that the Query found, or none.  The pending action is
cleared by the effective status, which is the live one when the Query was
answered: README.md:184-186 speaks of the durable row only, and the model
follows the code.  `overruled` is history: a hold of the first activation that
`RUNNING` overwrites, or the Signal of another operator, may take away the
status that a pending action waits for, and that action stays pending until the
run ends or the page is loaded again.

## 3. Runs

| Run | Question | Bounds |
|---|---|---|
| `lifecycle` | are events neither lost, repeated nor reordered; do row, deadlines, holds and outcome stay right; does the workflow refine its contract | one event of every class of the wake policy, two operator Signals or duplicates besides termination |
| `liveness` | does termination complete, do events settle, does supervision go on; do holds stop actions, are actions not repeated for their cause | a plan with a repetition; one event, two Signals |
| `direct_start` | do events settle without a `run_id`, where no transition wakes a wait, and with delivery; is the progress of the contract made | three events, two Signals |
| `store` | log, row and keys under attempts that die, repeat and outlive their call; is every transition stored after an outage | three attempts alive, three per execution, two transitions, one action |
| `controls` | does an accepted request take effect; does a hold get to the row that a resume is checked against | a pause, a resume, a terminate, an event; each Signal may be late, lost or reported lost |
| `start` | one active row, truthful answers, no orphan row, the projection catches up | three requests, every fault |
| `review` | are memory, contexts, report and analytics true to what happened | four scenarios, below |
| `console` | does the view go forward, do pending actions resolve, does the page settle | three uses of the page, below |

The bounds are small because the interesting cases are.  A hold and its end
within one review need two Signals, the termination after them is not counted; an event overtaking another
needs two; a zombie attempt needs one call given up and one made after it, that
is three attempts, and a row that goes back needs two transitions.  Two start
requests race, and a third comes while the first two are sorted out.

`review` shrinks the limits with the data (three entries, three instructions,
two items of memory, a budget of twelve characters), so that each of them is
exceeded within three or four reviews.  Its scenarios: the rules with two events
of one type and a routine one and four reviews, for the analytics; the rules
with four instructions out of four texts, one of them too long, and three
reviews, for the memory; a model with three
instructions, for what it claims and for its contexts; a model whose context
always holds so much that even the barest may be refused.

`console` has three uses: a run started with a known outcome, three mounts of
the poll loop, three statuses, `pause` and `resume`; the same with another
operator, two mounts and two statuses, `pause` and `interrupt`; a start that was
lost and marked failed, with `terminate` and the button "Refresh now".  Two
loops and a late answer are enough to overtake; the third mount comes after a
`resume` that follows a `pause`.

Every run of the workflow alone checks for deadlock: `Finished` is the only state
that may stay as it is.  RunStore, StartRun, RunControls and OperatorConsole
really come to a stop when all transitions are stored, all requests are answered
and the run is held past its deadline or closed, or the page has stopped polling; their runs say `CHECK_DEADLOCK FALSE`.

Four runs show statements of the repository's documents that the code does not
keep.  They are findings in `PROJECT.json`, with the lines quoted:

| Run | What happens |
|---|---|
| `missed_deadline` | during the flush that ends the review of an event, the run is paused, its deadline passes, it is resumed; the next queued event is processed at once and its review sets a new deadline: the catch-up review the README promises never runs |
| `early_hold` | a pause delivered with the first task is overwritten by `RUNNING`, and the held run shows `running` |
| `lost_result` | an action that was committed but reported failed fires again for the same event |
| `stuck_projection` | the answer of a start is lost, and the held workflow stores its last transition (its deadline passed, or it has none) before the request gives up and writes `failed`: nothing more comes from the workflow, and the API refuses every control of that row |

## 4. Fairness

* `OrderWorkflow`: weak fairness of the coroutine (a worker polls and every
  Activity ends, in success or not, within its timeouts), weak fairness of the
  timer, strong fairness of `PersistSucceeds`: PostgreSQL does not stay away for
  ever, and the recovery cycles keep trying.  Nothing is assumed of clients and
  operators; properties that need holds to end say so in their premise.
* `RunStore`: the steps of workflow, server and worker that nothing prevents.
  That the outage is over is the premise of `EveryTransitionStored`, not an
  assumption.
* `RunControls`: as OrderWorkflow, and strong fairness of the delivery of
  Signals: each activation of the workflow hands over what was accepted before
  it, so a Signal is not passed over at one await after the other.
* `StartRun`: a request that was begun runs on unless its process dies, and a
  workflow that is not silent stores a transition in the end: it has one queued
  or a deadline, asleep or held, and the recovery cycles go on.  Which one it is,
  a further one or the last of a hold, is left open (one fairness condition for
  `Persist` and `FallSilent`).  Faults, Signals and new requests are never
  assumed.  The compensation of a failed start
  is best effort, as its docstring says: a request that dies, or whose database
  update fails, may leave an orphan row, which blocks the order until someone
  repairs it.  `NoOrphanRow` says that nothing else leaves one, and
  `ProjectionCatchesUp` excuses only the runs that such a row blocks.
* `OperatorConsole`: workflow, row, effects and requests go on, and of the polls
  of a loop that is not stopped one is answered in the end (strong fairness of
  `PollShown`: answers may fail, but not all for ever).  Nobody has to press
  anything.
* `SupervisorReview` states no fairness: its properties are about data.

## 5. Proofs

`OrderWorkflow_proofs` (from the named assumptions on the constants, for every
set of events, types, decisions and bounds):

* `TypeCorrect`: `TypeOK` and `PlacesAgree`, which ties `pc` and `then` to the
  finalization variables.  `TypeOK` alone is not inductive: the report step
  writes `outcome` into `status`, and only the places say that it is decided.
* `HoldStops`: nothing automatic starts under a hold.  The step from one review
  to the next needs the invariant only to know which places may lead there.
* `RowFollows`: row plus queue is the state of the workflow.  The strengthening
  is that no deadline is set while a review or an action is in progress
  (`NoDeadlineInReview`), without which the records of a review would show a
  deadline that is not there.

`RunStore_proofs` (for any set of attempts, deeds, and any bounds):

* `RowAndLogAgree` from the invariant `StoreInv`: types, `RowMatchesLog`,
  `AttemptsAgree` (an attempt, however old, carries the key of a transition
  already logged or of the one in progress; only a free key is `inserted`, and
  one attempt holds it) and `CallAgrees` (the call in progress is the next
  transition, and an attempt that is listened to was made for it).
* `KeysUnique`: an attempt that has inserted holds a free key, whenever it was
  started, so the first to commit a key is the only one.
* `StoreImplementsLog`: each step maps to a step of AuditLog or leaves it alone.

`StartRun_proofs` (for any set of requests and any faults): `OneActive`,
`ToldTheTruth` and `OrphansAreLost` from the invariant `StartInv`: types,
`OneActiveRow` and `RequestsAgree`, which says for each place of a request handler
what its row, its execution and its answer may be.  `OneActiveRow` is inductive
by itself, because every write that makes a row active goes through the index;
the truth of an answer is not: that a request refused as a conflict never gets
an execution is known only from the places a request has passed.

`OrderWorkflowSafety_proofs` (on the invariant of `OrderWorkflow_proofs`):

* `EventsKept`: nothing accepted is lost, repeated or overtaken.  Inductive once
  the places are known at which the loop has taken an event out of the inbox.
* `DeadlinesSet`, `OverdueKept`: they need `OverduePlaces`, where a deadline may
  be noted as overdue at all.
* `HoldsShown`: only the first activation may overwrite a hold on display.
* `OutcomeOnce`: from `CauseOfOutcome` (what decided the outcome, and that it
  excludes the other cause) and `ShownAndStored` (what a closing run has shown
  and still owes).
* `ActionsOnce`: the semantic guard is emptied when the cause changes, so it is
  right only because a cause never comes back.  `GuardKnows` says that the guard
  holds what was confirmed for the present cause and that causes are processed
  events; it rests on `EventsKept`.
* `WorkflowImplementsContract`: one step of the contract or none for each action
  of the workflow, under types, places and the order of events.

`RunControls_proofs`: `ControlsImplementWorkflow` (the workflow behind the
endpoints is the workflow, so each theorem above holds of it), `ControlTypeCorrect`
and `AcceptedKept`, for any set of requests.

`OperatorConsole_proofs`: `ConsoleTypeCorrect`, and `ViewGoesForward` from the
invariant `Ahead`: an answer that may still be shown is not behind the view, and
the view is not ahead of the row.  It rests on at most one loop polling, which is
part of the type invariant.

`SupervisorProviders_proofs` (for every bound, every set of texts and actions):

* `ReviewContextSound` and `ReportContextSound`: the two prunings keep
  `PrunedWell`, for every budget, floor, window and all lengths, which need not
  even grow with what they measure; that of a review is also `Accounted`, which
  holds until the last resort because no stage between the loop and it drops an
  instruction.  Loop by loop and stage by stage; the least
  number of removals exists because the naturals under `<` are well founded.
* Lemmas about the lists, each a loop of the source: `OnceKeeps` (what
  deduplication keeps), `NewestKeeps` and `NewestAmong` (the slice `s[-n:]`),
  `AppendEachKeeps`, `BoundedTextListKeeps`.  A recursive function has its values
  only when it exists: `LoopRuns` shows that for any loop over `1..n`, `Climb` is
  the induction along it, from the least index at which a fact would fail.
* `WindowMoves`: the rules turn a memory that is the window up to an earlier
  instruction into the window over all of them.  What they look at again is found
  and stays (`OverlapKeepsWindow`); when they look back beyond what memory holds,
  or not as far, nothing they look at is still there when its turn comes
  (`GapFillsWindow`).  `MemoryItems <= InstructionLimit` (6 and 8) is needed.
* `LongTextTakesPlace`: a text that was cut takes a place again each time.

`SupervisorReview_proofs` (for every number of events, instructions, reviews and
attempts, any plans and memories of a model), on the types `Typed`:

* `ReviewTypes`, and `ContextsAreSound`: what a request holds has lengths
  (`AskTyped`), so the theorems about the pruning apply to every call of a run;
  the accounting is that of the reviews.
* `MemoryIsHonest` from `Honest`: memory and the actions of the review under way
  are together what was executed, and memory and the copy in the request are
  valid.  The copy is needed because the rules extend it and not the memory.
* `ReportIsHonest` from `Reported`: the timeline names an action only when it was
  executed.  With the memory, which has all of them, recent activity adds nothing
  to a report and is missed by none.
* `AnalyticsAreTrue` from `Consistent`, which has four parts: an event is
  received, taken and asked for at most once (`EventsOnce`); no two wake requests,
  and no review and the next, are of one moment, and an action is dated before the
  present (`TimesApart`); the wake request closest before an action, or before the
  review under way, is that of its cause (`CausesKnown`), also for rows that are
  committed late; the counts (`Counted`).  The query's rule, closest wake request
  and then its event, is right because of the first three.
* `InstructionsAreRemembered` from `WindowRemembered`: memory is the window of a
  prefix of the instructions, `p` long, and the request is a longer prefix.  A
  failed review leaves `p` behind by more than the rules look back; then
  `WindowMoves` has to fill the gap.

The named assumptions say no more than the code does: limits are positive, a
memory list has a place for every action, no action's name is cut, a bounded text
is not cut again, event types are not triggers of the workflow's own.

Every safety property of the runs is thus proved.  Only checked by TLC is
liveness, as fairness and `ENABLED` are outside of the prover:
`TerminationCompletes`, `EventsSettle`, `SupervisionContinues`, `KeepsContract`
beyond its safety part, `TerminateHeeded`, `HoldReachesRow`,
`EveryTransitionStored`, `ProjectionCatchesUp`, `PendingResolves` and
`PageSettles`; and the four runs that end in a violation.

## 6. What the code does and no document settles

Met while modelling; no property contradicts them, and no run is about them.

* With the Query failing, the page falls back to the row, which may lag: it may
  clear an action early or offer it again.
* Polling stops at a row marked failed.  After a refresh that finds the run ended
  later, the row is terminal before and after, the analytics effect does not run
  again and its figures stay those of the failed start.  The last fetch of the
  analytics is not retried either.  `PageSettles` excuses both.
* An instruction of more than 300 characters is looked for whole and kept cut: no
  review finds it, each appends it again (`LongTextTakesPlace`).  A text that was
  given twice, at any distance, is found at its old place, so memory may hold the
  newest instructions in another order or without one of them.  Both are excluded
  by the premise of the second half of `InstructionsRemembered`.
* In the last resort of the pruning `omitted_instruction_count` is not brought up
  to date, and the context of the final report has no such count: a model that
  writes the report is not told that instructions were left out.  The audit row of a review lists the instructions of its request,
  also those that the pruned context no longer held.

## 7. Plan and limits

Done: OrderWorkflow with its contract, RunStore with AuditLog, StartRun,
RunControls, SupervisorReview with providers, contexts and analytics, the run
page of the console, and the proofs above.  Open, in this order:

1. Two runs of one order behind the control endpoints (a Signal is addressed by
   Workflow ID), and columns of a row written one by one by two sessions.
2. The overview pages with `use-polling.ts`, whose requests overlap.

Not modelled: rendering, wording and layout, the start form and the overview
pages (they decide nothing about a run), supervisor configurations (immutable
rows, created and read), migrations apart from the indexes that RunStore and
StartRun rest on, process set-up, demonstration scripts and tests, durations and
averages of the analytics, the wording of prompts, and the language model
itself, which is nondeterminism: any plan and memory in `DecideByModel`, any
failure in `ReviewFails`.
