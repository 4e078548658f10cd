---------------------------- MODULE RunAnalytics ----------------------------
(***************************************************************************)
(* The metrics of one run, computed from its rows in the activities table  *)
(* (backend/app/analytics/service.py).                                     *)
(*                                                                         *)
(* A row has its kind, its time, the external id and the type of its       *)
(* event, and the trigger of the review it belongs to.  A row of an        *)
(* executed action has no external id: the query finds the event behind it *)
(* by type and time.  The keys that break ties are left out: an Activity   *)
(* is awaited between two wake requests, and between two actions.          *)
(***************************************************************************)
EXTENDS Naturals, FiniteSets

Received(rows)    == {r \in rows : r.kind = "order_event_received"}
Wakes(rows)       == {r \in rows : r.kind = "supervisor_wake_requested"}
Suppressed(rows)  == {r \in rows : r.kind = "supervisor_wake_suppressed"}
Invocations(rows) == {r \in rows : r.kind = "supervisor_invocation"}

(* EXECUTED_ACTION_FILTER: only the row the action Activity wrote counts.  *)
Executed(rows) == {r \in rows : r.kind = "business_action_executed"}

(* get_run_analytics, and the rate of get_global_analytics.                *)
RunCounts(rows) ==
  [received    |-> Cardinality(Received(rows)),
   invocations |-> Cardinality(Invocations(rows)),
   suppressed  |-> Cardinality(Suppressed(rows)),
   executed    |-> Cardinality(Executed(rows)),
   decisions   |-> Cardinality(Suppressed(rows) \cup Wakes(rows))]

(* analytics_event_actions *)
EventActions(rows) == {a \in Executed(rows) : a.trigger \notin {"workflow_start", "scheduled_wake"}}

(* analytics_candidate_interventions: action, wake request, accepted event *)
Candidates(rows) ==
  {p \in EventActions(rows) \X Wakes(rows) \X Received(rows) :
     LET a == p[1] w == p[2] r == p[3] IN
     w.at <= a.at /\ a.trigger = w.type /\ r.event = w.event /\ r.at <= w.at}

(* Fault: the farthest preceding wake request is taken, not the closest.   *)
MatchedToFirst(rows) ==
  LET pairs == Candidates(rows) IN
  {p \in pairs : (\A q \in pairs : q[1] = p[1] => p[2].at <= q[2].at) /\ p[1].at >= p[3].at}

(* analytics_matched_interventions: the closest preceding wake request.    *)
Matched(rows) ==
  LET pairs == Candidates(rows) IN
  {p \in pairs : (\A q \in pairs : q[1] = p[1] => q[2].at <= p[2].at) /\ p[1].at >= p[3].at}

(* intervention_rank = 1: the earliest matched action of the run.  The set *)
(* is empty or holds one latency.                                          *)
FirstLatency(rows) ==
  LET matched == Matched(rows) IN
  {p[1].at - p[3].at : p \in {q \in matched : \A m \in matched : q[1].at <= m[1].at}}
=============================================================================
