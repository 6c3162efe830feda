---------------------------- MODULE TriagePipeline ----------------------------
(***************************************************************************)
(* What happens to an alert between the deduplication transaction that     *)
(* records it and its settled assessment: the ingest handler assesses it,  *)
(* opens or joins an incident of its group; the late-enrichment sweep, a   *)
(* worker thread, re-enriches recorded alerts and assesses again those     *)
(* whose intelligence changed.  Both write through persist_assessment,     *)
(* whose reads (open_for_group, _next_id) come before its first write and  *)
(* hold no lock: a commit of the other worker can fall between any two of  *)
(* the steps below.  The process may die at any step.                      *)
(*                                                                         *)
(* A re-delivery of a recorded alert is an exact duplicate (module Dedupe) *)
(* and only reads; it is no step here.  Correlation and notification, the  *)
(* handler's last steps, write tables of their own.  Scoring and decision  *)
(* are functions of what the providers said, so the verdict stands for     *)
(* the whole assessment.                                                   *)
(***************************************************************************)
EXTENDS Integers, FiniteSets

CONSTANTS
  MaxAlerts,         \* alerts are 1..MaxAlerts in the order of received_at
  Groups,            \* dedupe group keys
  GroupOf,           \* the group of each alert
  LateSweepEnabled,  \* late_enrichment_sweep_enabled, FALSE by default
  BatchLimit,        \* _BATCH_LIMIT of the late-enrichment sweep
  MaxRestarts        \* bound of the model: how often the process dies

Alerts == 1..MaxAlerts

ASSUME AlertsAssumption == MaxAlerts \in Nat
ASSUME GroupOfAssumption == GroupOf \in [Alerts -> Groups]
ASSUME SweepAssumption == LateSweepEnabled \in BOOLEAN
ASSUME BatchAssumption == BatchLimit \in Nat \ {0}
ASSUME RestartsAssumption == MaxRestarts \in Nat

VARIABLES
  known,       \* what the intelligence providers know of each alert's indicators
  alerts,      \* the alerts table, of the alerts recorded so far
  incidents,   \* the incidents table, by number: 1, 2, ...
  scored,      \* the newest alert.scored audit row of each alert that has one
  jobs,        \* what the ingest handler and the sweep's thread are doing
  queue,       \* the candidates left in the sweep's pass
  restarts     \* restarts so far (bound only)

vars == <<known, alerts, incidents, scored, jobs, queue, restarts>>

Ingest == "ingest"
Late == "late"
Workers == IF LateSweepEnabled THEN {Ingest, Late} ELSE {Ingest}

Clean == "clean"
Malicious == "malicious"
Failed == "failed"         \* every lookup failed, timed out or was rate limited
Verdicts == {Clean, Malicious, Failed}

Unassessed == "unassessed"
None == 0

\* score and decide on an enriched alert: open_incident or not.
Escalates(verdict) == verdict = Malicious

AlertRow == [verdict : Verdicts, assessed : BOOLEAN, incident : Nat]

IncidentRow == [group : Groups, primary : Alerts, open : BOOLEAN]

ScoredRow == [before : Verdicts \cup {Unassessed}, after : Verdicts]

Job == [step : {"idle", "enrich", "lookup", "number", "commit"},
        alert : Alerts \cup {None},
        before : Verdicts \cup {Unassessed},   \* previous_risk, previous_decision
        verdict : Verdicts,                    \* read (enrich), then fetched
        incident : Nat, creates : BOOLEAN]

Idle == [step |-> "idle", alert |-> None, before |-> Unassessed, verdict |-> Clean,
         incident |-> None, creates |-> FALSE]

Recorded == DOMAIN alerts

Put(table, key, row) ==
  [k \in DOMAIN table \cup {key} |-> IF k = key THEN row ELSE table[k]]

-----------------------------------------------------------------------------
(* The providers, outside the program *)

\* An indicator turns out to be malicious after the alert arrived.
Learn(a) ==
  /\ known[a] = Clean
  /\ known' = [known EXCEPT ![a] = Malicious]
  /\ UNCHANGED <<alerts, incidents, scored, jobs, queue, restarts>>

\* What one run of the enrichment chain can attach to the alert: the provider's
\* record, or a record of the failed lookup, which replaces an earlier one.
ChainResults(a) == {known[a], Failed}

-----------------------------------------------------------------------------
(* Ingest *)

\* The chain runs, then the deduplication transaction commits the alert with
\* its indicators, not yet assessed.
Record(verdict) ==
  LET a == Cardinality(Recorded) + 1
  IN
  /\ jobs[Ingest] = Idle
  /\ a \in Alerts
  /\ verdict \in ChainResults(a)
  /\ alerts' = Put(alerts, a, [verdict |-> verdict, assessed |-> FALSE, incident |-> None])
  /\ jobs' = [jobs EXCEPT ![Ingest] = [Idle EXCEPT !.step = "lookup", !.alert = a,
                                                   !.verdict = verdict]]
  /\ UNCHANGED <<known, incidents, scored, queue, restarts>>

-----------------------------------------------------------------------------
(* persist_assessment, run by either worker *)

OpenIncidents(g) == {i \in DOMAIN incidents : incidents[i].group = g /\ incidents[i].open}

\* Mutant of Lookup: every escalation opens an incident.
Lookup_NeverJoins(w) ==
  /\ jobs[w].step = "lookup"
  /\ \/ /\ ~Escalates(jobs[w].verdict)
        /\ jobs' = [jobs EXCEPT ![w] = [@ EXCEPT !.step = "commit"]]
     \/ /\ Escalates(jobs[w].verdict)
        /\ jobs' = [jobs EXCEPT ![w] = [@ EXCEPT !.step = "number", !.creates = TRUE]]
  /\ UNCHANGED <<known, alerts, incidents, scored, queue, restarts>>

\* open_for_group: join the oldest open incident of the group, if there is one.
Lookup(w) ==
  LET job == jobs[w]
      candidates == OpenIncidents(GroupOf[job.alert])
  IN
  /\ job.step = "lookup"
  /\ \/ /\ ~Escalates(job.verdict)
        /\ jobs' = [jobs EXCEPT ![w] = [@ EXCEPT !.step = "commit"]]
     \/ /\ Escalates(job.verdict)
        /\ candidates = {}
        /\ jobs' = [jobs EXCEPT ![w] = [@ EXCEPT !.step = "number", !.creates = TRUE]]
     \/ /\ Escalates(job.verdict)
        /\ \E i \in candidates :
             /\ \A k \in candidates : i <= k
             /\ jobs' = [jobs EXCEPT ![w] = [@ EXCEPT !.step = "commit", !.incident = i]]
  /\ UNCHANGED <<known, alerts, incidents, scored, queue, restarts>>

\* _next_id: one more than the highest number in the table.
Number(w) ==
  /\ jobs[w].step = "number"
  /\ jobs' = [jobs EXCEPT ![w] = [@ EXCEPT !.step = "commit",
                                        !.incident = Cardinality(DOMAIN incidents) + 1]]
  /\ UNCHANGED <<known, alerts, incidents, scored, queue, restarts>>

\* Mutant of Conflict: primary_alert_id is not UNIQUE.
Conflict_KeyOnly(job) == job.creates /\ job.incident \in DOMAIN incidents

\* The constraints on a new incident: its key, and UNIQUE primary_alert_id.
Conflict(job) ==
  /\ job.creates
  /\ \/ job.incident \in DOMAIN incidents
     \/ \E i \in DOMAIN incidents : incidents[i].primary = job.alert

\* Mutant of Commit: the first assessment written stays on the alert.
Commit_KeepsFirst(w) ==
  LET job == jobs[w]
      a == job.alert
  IN
  /\ job.step = "commit"
  /\ ~Conflict(job)
  /\ alerts' = IF alerts[a].assessed THEN alerts
               ELSE [alerts EXCEPT ![a] = [verdict |-> job.verdict, assessed |-> TRUE,
                                           incident |-> IF Escalates(job.verdict)
                                                        THEN job.incident ELSE @.incident]]
  /\ incidents' = IF job.creates
                  THEN Put(incidents, job.incident,
                           [group |-> GroupOf[a], primary |-> a, open |-> TRUE])
                  ELSE incidents
  /\ scored' = Put(scored, a, [before |-> job.before, after |-> job.verdict])
  /\ jobs' = [jobs EXCEPT ![w] = Idle]
  /\ UNCHANGED <<known, queue, restarts>>

\* Mutant of Commit: joining an incident does not link the alert to it.
Commit_LinksCreatorOnly(w) ==
  LET job == jobs[w]
      a == job.alert
  IN
  /\ job.step = "commit"
  /\ ~Conflict(job)
  /\ alerts' = [alerts EXCEPT ![a] = [verdict |-> job.verdict, assessed |-> TRUE,
                                      incident |-> IF job.creates
                                                   THEN job.incident ELSE @.incident]]
  /\ incidents' = IF job.creates
                  THEN Put(incidents, job.incident,
                           [group |-> GroupOf[a], primary |-> a, open |-> TRUE])
                  ELSE incidents
  /\ scored' = Put(scored, a, [before |-> job.before, after |-> job.verdict])
  /\ jobs' = [jobs EXCEPT ![w] = Idle]
  /\ UNCHANGED <<known, queue, restarts>>

\* Payload, audit rows and incident in one transaction.
Commit(w) ==
  LET job == jobs[w]
      a == job.alert
  IN
  /\ job.step = "commit"
  /\ ~Conflict(job)
  /\ alerts' = [alerts EXCEPT ![a] = [verdict |-> job.verdict, assessed |-> TRUE,
                                      incident |-> IF Escalates(job.verdict)
                                                   THEN job.incident ELSE @.incident]]
  /\ incidents' = IF job.creates
                  THEN Put(incidents, job.incident,
                           [group |-> GroupOf[a], primary |-> a, open |-> TRUE])
                  ELSE incidents
  /\ scored' = Put(scored, a, [before |-> job.before, after |-> job.verdict])
  /\ jobs' = [jobs EXCEPT ![w] = Idle]
  /\ UNCHANGED <<known, queue, restarts>>

\* A constraint violated, or the database fails: rolled back and logged,
\* persisted=False, and the caller goes on as if it had not been.
Rollback(w) ==
  /\ jobs[w].step = "commit"
  /\ jobs' = [jobs EXCEPT ![w] = Idle]
  /\ UNCHANGED <<known, alerts, incidents, scored, queue, restarts>>

-----------------------------------------------------------------------------
(* The late-enrichment sweep *)

\* Mutant of Candidates: only alerts never assessed are candidates.
Candidates_Unassessed == {a \in Recorded : ~alerts[a].assessed}

\* The oldest alerts inside the lookback window, at most a batch.  The window
\* holds every alert of the model.
Candidates == {a \in Recorded : Cardinality({b \in Recorded : b < a}) < BatchLimit}

SelectBatch ==
  /\ LateSweepEnabled
  /\ queue = {} /\ jobs[Late] = Idle
  /\ Candidates # {}
  /\ queue' = Candidates
  /\ UNCHANGED <<known, alerts, incidents, scored, jobs, restarts>>

\* The next candidate is read again, in a session of its own.
ReadAlert(a) ==
  /\ LateSweepEnabled
  /\ jobs[Late] = Idle
  /\ a \in queue /\ \A b \in queue : a <= b
  /\ queue' = queue \ {a}
  /\ jobs' = [jobs EXCEPT ![Late] =
                [Idle EXCEPT !.step = "enrich", !.alert = a,
                             !.before = IF alerts[a].assessed THEN alerts[a].verdict
                                        ELSE Unassessed,
                             !.verdict = alerts[a].verdict]]
  /\ UNCHANGED <<known, alerts, incidents, scored, restarts>>

\* The chain says what the persisted payload says already, or a provider
\* raised and left the records as they were: nothing to do.
FindUnchanged ==
  /\ LateSweepEnabled
  /\ jobs[Late].step = "enrich"
  /\ jobs' = [jobs EXCEPT ![Late] = Idle]
  /\ UNCHANGED <<known, alerts, incidents, scored, queue, restarts>>

\* The enrichment fingerprint differs: score and decide again.
FindChanged(verdict) ==
  /\ LateSweepEnabled
  /\ jobs[Late].step = "enrich"
  /\ verdict \in ChainResults(jobs[Late].alert) \ {jobs[Late].verdict}
  /\ jobs' = [jobs EXCEPT ![Late] = [@ EXCEPT !.step = "lookup", !.verdict = verdict]]
  /\ UNCHANGED <<known, alerts, incidents, scored, queue, restarts>>

-----------------------------------------------------------------------------
\* An analyst or the auto-close sweeper moves an incident out of status open,
\* to which none returns (module IncidentLifecycle).
LeaveOpen(i) ==
  /\ incidents[i].open
  /\ incidents' = [incidents EXCEPT ![i].open = FALSE]
  /\ UNCHANGED <<known, alerts, scored, jobs, queue, restarts>>

\* The process dies between two steps and starts again with the tables only.
Restart ==
  /\ restarts < MaxRestarts
  /\ restarts' = restarts + 1
  /\ jobs' = [w \in {Ingest, Late} |-> Idle]
  /\ queue' = {}
  /\ UNCHANGED <<known, alerts, incidents, scored>>

Init ==
  /\ known \in [Alerts -> {Clean, Malicious}]
  /\ alerts = [a \in {} |-> 0]
  /\ incidents = [i \in {} |-> 0]
  /\ scored = [a \in {} |-> 0]
  /\ jobs = [w \in {Ingest, Late} |-> Idle]
  /\ queue = {}
  /\ restarts = 0

Persist(w) == Lookup(w) \/ Number(w) \/ Commit(w) \/ Rollback(w)

Next ==
  \/ \E a \in Alerts : Learn(a) \/ ReadAlert(a)
  \/ \E v \in Verdicts : Record(v) \/ FindChanged(v)
  \/ \E w \in Workers : Persist(w)
  \/ SelectBatch
  \/ FindUnchanged
  \/ \E i \in DOMAIN incidents : LeaveOpen(i)
  \/ Restart

\* Both workers keep running.  The providers answer, and the database commits,
\* again and again for an alert that is tried again and again.
Fairness ==
  /\ WF_vars(Persist(Ingest)) /\ WF_vars(Persist(Late))
  /\ WF_vars(SelectBatch \/ \E a \in Alerts : ReadAlert(a))
  /\ WF_vars(FindUnchanged)
  /\ \A a \in Alerts :
       /\ SF_vars(jobs[Late].alert = a /\ FindChanged(known[a]))
       /\ SF_vars(jobs[Late].alert = a /\ Commit(Late))

Spec == Init /\ [][Next]_vars /\ Fairness
-----------------------------------------------------------------------------
(* Properties *)

\* Rows of the schema, numbered without gaps; one job for each worker.
TypeOK ==
  /\ known \in [Alerts -> {Clean, Malicious}]
  /\ Recorded = 1..Cardinality(Recorded) /\ Recorded \subseteq Alerts
  /\ \A a \in Recorded : alerts[a] \in AlertRow
  /\ DOMAIN incidents = 1..Cardinality(DOMAIN incidents)
  /\ \A i \in DOMAIN incidents : incidents[i] \in IncidentRow
  /\ DOMAIN scored \subseteq Recorded
  /\ \A a \in DOMAIN scored : scored[a] \in ScoredRow
  /\ jobs \in [{Ingest, Late} -> Job]
  /\ queue \subseteq Recorded
  /\ restarts \in Nat

\* The alert of record carries the assessment of its newest audit row, whoever
\* wrote it and however stale the read behind it was: payload and audit row are
\* one transaction (persist_assessment).
RecordMatchesAudit ==
  \A a \in Recorded :
    /\ alerts[a].assessed <=> a \in DOMAIN scored
    /\ alerts[a].assessed => scored[a].after = alerts[a].verdict

\* An alert decided open_incident belongs to an incident of its own group
\* (persist_assessment, open_for_group).
EscalationHasIncident ==
  \A a \in Recorded :
    /\ alerts[a].assessed /\ Escalates(alerts[a].verdict) => alerts[a].incident # None
    /\ alerts[a].incident # None =>
         /\ alerts[a].incident \in DOMAIN incidents
         /\ incidents[alerts[a].incident].group = GroupOf[a]

\* No two incidents share a primary alert, and the primary alert of an incident
\* belongs to some incident, if no longer to that one: no retry, restart or
\* race leaves an incident behind whose transaction did not commit whole
\* (IncidentRepository.create).
IncidentsHavePrimaries ==
  \A i \in DOMAIN incidents :
    /\ \A k \in DOMAIN incidents : incidents[k].primary = incidents[i].primary => k = i
    /\ incidents[i].primary \in Recorded
    /\ alerts[incidents[i].primary].incident # None

\* A group has at most one open incident when ingest is the only writer, and
\* never more than one for each worker: of two workers that both found no open
\* incident, no third can follow (open_for_group, _next_id).
OpenIncidentsBounded ==
  \A g \in Groups : Cardinality(OpenIncidents(g)) <= Cardinality(Workers)

\* Alerts of the same group attach to the open incident instead of creating a
\* second one (docstring of open_for_group).  False when the sweep is enabled.
OneOpenIncidentPerGroup ==
  \A g \in Groups : \A i, k \in OpenIncidents(g) : i = k

\* The re-assessment that would open a new incident for an alert that already
\* is the primary alert of one that is no longer open: UNIQUE forbids it.
Blocked(a) ==
  /\ \E i \in DOMAIN incidents : incidents[i].primary = a
  /\ OpenIncidents(GroupOf[a]) = {}

\* When the providers learn something about an alert inside the lookback
\* window, the alert of record comes to say it, unless the alert is blocked
\* (list_alerts_received_since, sweep_once).
NewsReachesRecord ==
  \A a \in Alerts :
    (a \in Recorded) ~> (a \in Recorded /\ (alerts[a].verdict = known[a] \/ Blocked(a)))

\* An alert left unassessed by a restart is assessed by the sweep that runs
\* after it (docstring of run_late_enrichment_loop).
BacklogAssessed ==
  \A a \in Alerts : (a \in Recorded) ~> (a \in Recorded /\ alerts[a].assessed)
=============================================================================
