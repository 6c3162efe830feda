------------------------ MODULE TriagePipelineProofs ------------------------
(***************************************************************************)
(* Proofs about TriagePipeline, for every number of alerts and restarts,   *)
(* every assignment of alerts to groups, every batch limit, with the sweep *)
(* enabled or not: type correctness, agreement of the alert of record with *)
(* its newest audit row, the link from an escalated alert to an incident   *)
(* of its group, an incident's own primary alert, no more open incidents   *)
(* of a group than there are workers; and, without the sweep, one open     *)
(* incident for each group.                                                *)
(***************************************************************************)
EXTENDS TriagePipeline, FiniteSetTheorems, TLAPS

(* A set numbered without gaps, and its next number. *)
LEMMA NextNumber ==
  ASSUME NEW S, IsFiniteSet(S), S = 1..Cardinality(S)
  PROVE  /\ Cardinality(S) \in Nat
         /\ S \cup {Cardinality(S) + 1} = 1..(Cardinality(S) + 1)
         /\ Cardinality(S \cup {Cardinality(S) + 1}) = Cardinality(S) + 1
         /\ IsFiniteSet(S \cup {Cardinality(S) + 1})
<1>1. Cardinality(S) \in Nat
  BY FS_CardinalityType
<1> DEFINE n == Cardinality(S)
<1>2. n \in Nat /\ S = 1..n
  BY <1>1
<1> HIDE DEF n
<1>3. S \cup {n + 1} = 1..(n + 1) /\ n + 1 \notin S
  BY <1>2
<1>4. IsFiniteSet(S \cup {n + 1}) /\ Cardinality(S \cup {n + 1}) = Cardinality(S) + 1
  BY <1>3, FS_AddElement
<1> QED
  BY <1>1, <1>3, <1>4 DEF n

LEMMA RecordedFinite ==
  ASSUME TypeOK
  PROVE  IsFiniteSet(Recorded)
<1>1. IsFiniteSet(Alerts)
  BY AlertsAssumption, FS_Interval DEF Alerts
<1> QED
  BY <1>1, FS_Subset DEF TypeOK

-----------------------------------------------------------------------------
(* The inductive invariant.  A commit numbers the incident it opens with   *)
(* what _next_id read, perhaps long ago: what keeps the table without gaps *)
(* is that this number is at most one past the end, so that it still is    *)
(* the next one or its key is taken.  An incident found by open_for_group, *)
(* which may have left status open since, keeps its row and its group.     *)

JobBacked(w) ==
  LET job == jobs[w]
  IN
  /\ job.step # "idle" => job.alert \in Recorded
  /\ job.step \in {"enrich", "lookup"} => ~job.creates
  /\ job.step = "number" => job.creates
  /\ job.creates => Escalates(job.verdict)
  /\ job.step = "commit" /\ Escalates(job.verdict) =>
       IF job.creates THEN job.incident \in 1..(Cardinality(DOMAIN incidents) + 1)
       ELSE /\ job.incident \in DOMAIN incidents
            /\ incidents[job.incident].group = GroupOf[job.alert]

Inv ==
  /\ TypeOK
  /\ IsFiniteSet(DOMAIN incidents)
  /\ \A w \in {Ingest, Late} : JobBacked(w)
  /\ RecordMatchesAudit
  /\ EscalationHasIncident

LEMMA WorkersNamed == Workers \subseteq {Ingest, Late}
BY DEF Workers

(* A step that gives one worker another job. *)
LEMMA NewJob ==
  ASSUME TypeOK, NEW w \in {Ingest, Late}, NEW job \in Job,
         jobs' = [jobs EXCEPT ![w] = job]
  PROVE  /\ jobs' \in [{Ingest, Late} -> Job]
         /\ jobs'[w] = job
         /\ \A v \in {Ingest, Late} : v # w => jobs'[v] = jobs[v]
BY DEF TypeOK

LEMMA IdleType == Idle \in Job
BY DEF Idle, Job, None, Verdicts

(* A step that leaves the tables alone and hands a worker a backed job. *)
LEMMA JobStep ==
  ASSUME Inv, NEW w \in {Ingest, Late}, NEW job \in Job,
         jobs' = [jobs EXCEPT ![w] = job],
         JobBacked(w)',
         UNCHANGED <<known, alerts, incidents, scored, restarts>>,
         queue' \subseteq Recorded
  PROVE  Inv'
<1>1. /\ jobs' \in [{Ingest, Late} -> Job]
      /\ \A v \in {Ingest, Late} : v # w => jobs'[v] = jobs[v]
  BY NewJob DEF Inv
<1>2. TypeOK'
  BY <1>1 DEF Inv, TypeOK, Recorded
<1>3. ASSUME NEW v \in {Ingest, Late}
      PROVE  JobBacked(v)'
  <2>1. CASE v = w
    BY <2>1
  <2>2. CASE v # w
    BY <1>1, <2>2 DEF Inv, JobBacked, Recorded
  <2> QED BY <2>1, <2>2
<1>4. RecordMatchesAudit' /\ EscalationHasIncident'
  BY DEF Inv, RecordMatchesAudit, EscalationHasIncident, Recorded
<1> QED
  BY <1>2, <1>3, <1>4 DEF Inv

(* The jobs that the steps hand over keep their fields typed. *)
LEMMA JobFields ==
  ASSUME NEW job \in Job, NEW step \in {"idle", "enrich", "lookup", "number", "commit"}
  PROVE  /\ [job EXCEPT !.step = step] \in Job
         /\ [job EXCEPT !.step = step, !.creates = TRUE] \in Job
         /\ \A i \in Nat : [job EXCEPT !.step = step, !.incident = i] \in Job
         /\ \A v \in Verdicts : [job EXCEPT !.step = step, !.verdict = v] \in Job
<1> DEFINE stepped == [job EXCEPT !.step = step]
<1>1. stepped \in Job
  BY DEF Job
<1>2. /\ [job EXCEPT !.step = step, !.creates = TRUE] = [stepped EXCEPT !.creates = TRUE]
      /\ \A i : [job EXCEPT !.step = step, !.incident = i] = [stepped EXCEPT !.incident = i]
      /\ \A v : [job EXCEPT !.step = step, !.verdict = v] = [stepped EXCEPT !.verdict = v]
  OBVIOUS
<1> HIDE DEF stepped
<1>3. [stepped EXCEPT !.creates = TRUE] \in Job
  BY <1>1 DEF Job
<1>4. \A i \in Nat : [stepped EXCEPT !.incident = i] \in Job
  BY <1>1 DEF Job
<1>5. \A v \in Verdicts : [stepped EXCEPT !.verdict = v] \in Job
  BY <1>1 DEF Job
<1> QED
  BY <1>1, <1>2, <1>3, <1>4, <1>5 DEF stepped

LEMMA NewJobs ==
  ASSUME NEW a \in Alerts, NEW v \in Verdicts, NEW b \in Verdicts \cup {Unassessed}
  PROVE  /\ [Idle EXCEPT !.step = "lookup", !.alert = a, !.verdict = v] \in Job
         /\ [Idle EXCEPT !.step = "enrich", !.alert = a, !.before = b, !.verdict = v] \in Job
<1> DEFINE given == [Idle EXCEPT !.alert = a]
<1> DEFINE read == [given EXCEPT !.before = b]
<1>1. given \in Job
  BY IdleType DEF Job
<1>2. /\ [Idle EXCEPT !.step = "lookup", !.alert = a, !.verdict = v]
            = [given EXCEPT !.step = "lookup", !.verdict = v]
      /\ [Idle EXCEPT !.step = "enrich", !.alert = a, !.before = b, !.verdict = v]
            = [read EXCEPT !.step = "enrich", !.verdict = v]
  BY IdleType DEF Job
<1> HIDE DEF given
<1>3. read \in Job
  BY <1>1 DEF Job
<1> HIDE DEF read
<1>4. /\ [given EXCEPT !.step = "lookup", !.verdict = v] \in Job
      /\ [read EXCEPT !.step = "enrich", !.verdict = v] \in Job
  BY <1>1, <1>3, JobFields
<1> QED
  BY <1>2, <1>4

LEMMA JobOf ==
  ASSUME Inv, NEW w \in Workers
  PROVE  w \in {Ingest, Late} /\ jobs[w] \in Job /\ JobBacked(w)
BY WorkersNamed DEF Inv, TypeOK

(* A worker that gives up its job, or has none. *)
LEMMA BecomesIdle ==
  ASSUME Inv, NEW w \in {Ingest, Late}, jobs' = [jobs EXCEPT ![w] = Idle],
         UNCHANGED <<known, alerts, incidents, scored, queue, restarts>>
  PROVE  Inv'
<1>1. jobs'[w] = Idle
  BY NewJob, IdleType DEF Inv
<1>2. JobBacked(w)'
  BY <1>1 DEF JobBacked, Idle
<1> QED
  BY <1>2, IdleType, JobStep DEF Inv, TypeOK

LEMMA LookupKeeps ==
  ASSUME Inv, NEW w \in Workers, Lookup(w)
  PROVE  Inv'
<1> DEFINE job == jobs[w]
<1>1. /\ w \in {Ingest, Late} /\ job \in Job /\ JobBacked(w)
      /\ job.step = "lookup" /\ job.alert \in Recorded /\ ~job.creates
  BY JobOf DEF Lookup, JobBacked
<1>2. UNCHANGED <<known, alerts, incidents, scored, queue, restarts>> /\ queue \subseteq Recorded
  BY DEF Lookup, Inv, TypeOK
<1>3. CASE /\ ~Escalates(job.verdict)
           /\ jobs' = [jobs EXCEPT ![w] = [@ EXCEPT !.step = "commit"]]
  <2> DEFINE next == [job EXCEPT !.step = "commit"]
  <2>1. next \in Job /\ jobs' = [jobs EXCEPT ![w] = next]
    BY <1>1, <1>3, JobFields DEF Inv, TypeOK
  <2>2. jobs'[w] = next
    BY <1>1, <2>1, NewJob DEF Inv
  <2>3. /\ next.step = "commit" /\ next.alert = job.alert /\ next.verdict = job.verdict
        /\ next.creates = job.creates
    BY <1>1 DEF Job
  <2>4. JobBacked(w)'
    BY <1>1, <1>2, <1>3, <2>2, <2>3 DEF JobBacked, Recorded
  <2> HIDE DEF next
  <2> QED BY <1>1, <1>2, <2>1, <2>4, JobStep
<1>4. CASE /\ Escalates(job.verdict)
           /\ jobs' = [jobs EXCEPT ![w] = [@ EXCEPT !.step = "number", !.creates = TRUE]]
  <2> DEFINE next == [job EXCEPT !.step = "number", !.creates = TRUE]
  <2>1. next \in Job /\ jobs' = [jobs EXCEPT ![w] = next]
    BY <1>1, <1>4, JobFields DEF Inv, TypeOK
  <2>2. jobs'[w] = next
    BY <1>1, <2>1, NewJob DEF Inv
  <2>3. /\ next.step = "number" /\ next.alert = job.alert /\ next.verdict = job.verdict
        /\ next.creates = TRUE
    BY <1>1 DEF Job
  <2>4. JobBacked(w)'
    BY <1>1, <1>2, <1>4, <2>2, <2>3 DEF JobBacked, Recorded
  <2> HIDE DEF next
  <2> QED BY <1>1, <1>2, <2>1, <2>4, JobStep
<1>5. ASSUME NEW i \in OpenIncidents(GroupOf[job.alert]), Escalates(job.verdict),
             jobs' = [jobs EXCEPT ![w] = [@ EXCEPT !.step = "commit", !.incident = i]]
      PROVE  Inv'
  <2> DEFINE next == [job EXCEPT !.step = "commit", !.incident = i]
  <2>0. i \in DOMAIN incidents /\ incidents[i].group = GroupOf[job.alert] /\ i \in Nat
    BY FS_CardinalityType DEF OpenIncidents, Inv, TypeOK
  <2>1. next \in Job /\ jobs' = [jobs EXCEPT ![w] = next]
    BY <1>1, <1>5, <2>0, JobFields DEF Inv, TypeOK
  <2>2. jobs'[w] = next
    BY <1>1, <2>1, NewJob DEF Inv
  <2>3. /\ next.step = "commit" /\ next.alert = job.alert /\ next.verdict = job.verdict
        /\ next.creates = job.creates /\ next.incident = i
    BY <1>1 DEF Job
  <2>4. JobBacked(w)'
    BY <1>1, <1>2, <2>0, <2>2, <2>3 DEF JobBacked, Recorded
  <2> HIDE DEF next
  <2> QED BY <1>1, <1>2, <2>1, <2>4, JobStep
<1> QED
  BY <1>3, <1>4, <1>5 DEF Lookup

LEMMA NumberKeeps ==
  ASSUME Inv, NEW w \in Workers, Number(w)
  PROVE  Inv'
<1> DEFINE job == jobs[w]
<1> DEFINE n == Cardinality(DOMAIN incidents) + 1
<1> DEFINE next == [job EXCEPT !.step = "commit", !.incident = n]
<1>0. n \in Nat /\ n \in 1..n
  BY FS_CardinalityType DEF Inv
<1>1. /\ w \in {Ingest, Late} /\ job \in Job /\ JobBacked(w)
      /\ job.step = "number" /\ job.alert \in Recorded
  BY JobOf DEF Number, JobBacked
<1>2. /\ UNCHANGED <<known, alerts, incidents, scored, queue, restarts>>
      /\ queue \subseteq Recorded /\ DOMAIN incidents' = DOMAIN incidents
  BY DEF Number, Inv, TypeOK
<1>3. next \in Job /\ jobs' = [jobs EXCEPT ![w] = next]
  BY <1>0, <1>1, JobFields DEF Number, Inv, TypeOK
<1>4. jobs'[w] = next
  BY <1>1, <1>3, NewJob DEF Inv
<1>5. /\ next.step = "commit" /\ next.alert = job.alert /\ next.verdict = job.verdict
      /\ next.creates = job.creates /\ next.incident = n
  BY <1>1 DEF Job
<1>6. jobs'[w].incident \in 1..(Cardinality(DOMAIN incidents') + 1)
  BY <1>0, <1>2, <1>4, <1>5
<1> HIDE DEF next, n
<1>7. JobBacked(w)'
  BY <1>1, <1>2, <1>4, <1>5, <1>6 DEF JobBacked, Recorded
<1> QED
  BY <1>1, <1>2, <1>3, <1>7, JobStep

LEMMA RollbackKeeps ==
  ASSUME Inv, NEW w \in Workers, Rollback(w)
  PROVE  Inv'
BY BecomesIdle, WorkersNamed DEF Rollback

LEMMA FindUnchangedKeeps ==
  ASSUME Inv, FindUnchanged
  PROVE  Inv'
BY BecomesIdle DEF FindUnchanged

LEMMA FindChangedKeeps ==
  ASSUME Inv, NEW v \in Verdicts, FindChanged(v)
  PROVE  Inv'
<1> DEFINE job == jobs[Late]
<1> DEFINE next == [job EXCEPT !.step = "lookup", !.verdict = v]
<1>1. /\ job \in Job /\ JobBacked(Late)
      /\ job.step = "enrich" /\ job.alert \in Recorded /\ ~job.creates
  BY DEF FindChanged, JobBacked, Inv, TypeOK
<1>2. UNCHANGED <<known, alerts, incidents, scored, queue, restarts>> /\ queue \subseteq Recorded
  BY DEF FindChanged, Inv, TypeOK
<1>3. next \in Job /\ jobs' = [jobs EXCEPT ![Late] = next]
  BY <1>1, JobFields DEF FindChanged, Inv, TypeOK
<1>4. jobs'[Late] = next
  BY <1>3, NewJob DEF Inv
<1>5. next.step = "lookup" /\ next.alert = job.alert /\ next.creates = job.creates
  BY <1>1 DEF Job
<1>6. JobBacked(Late)'
  BY <1>1, <1>2, <1>4, <1>5 DEF JobBacked, Recorded
<1> HIDE DEF next
<1> QED
  BY <1>2, <1>3, <1>6, JobStep

LEMMA ReadAlertKeeps ==
  ASSUME Inv, NEW a \in Alerts, ReadAlert(a)
  PROVE  Inv'
<1> DEFINE before == IF alerts[a].assessed THEN alerts[a].verdict ELSE Unassessed
<1> DEFINE next == [Idle EXCEPT !.step = "enrich", !.alert = a, !.before = before,
                                !.verdict = alerts[a].verdict]
<1>1. a \in Recorded /\ alerts[a] \in AlertRow
  BY DEF ReadAlert, Inv, TypeOK
<1>2. before \in Verdicts \cup {Unassessed} /\ alerts[a].verdict \in Verdicts
  BY <1>1 DEF AlertRow
<1>3. /\ UNCHANGED <<known, alerts, incidents, scored, restarts>>
      /\ queue' \subseteq Recorded
      /\ jobs' = [jobs EXCEPT ![Late] = next]
  BY DEF ReadAlert, Inv, TypeOK
<1> HIDE DEF before
<1>4. next \in Job
  BY <1>2, NewJobs
<1>5. next.step = "enrich" /\ next.alert = a /\ next.creates = FALSE
  BY IdleType DEF Idle, Job
<1>6. jobs'[Late] = next
  BY <1>3, <1>4, NewJob DEF Inv
<1>7. JobBacked(Late)'
  BY <1>1, <1>3, <1>5, <1>6 DEF JobBacked, Recorded
<1> HIDE DEF next
<1> QED
  BY <1>3, <1>4, <1>7, JobStep

LEMMA RecordKeeps ==
  ASSUME Inv, NEW v \in Verdicts, Record(v)
  PROVE  Inv'
<1> DEFINE a == Cardinality(Recorded) + 1
<1> DEFINE row == [verdict |-> v, assessed |-> FALSE, incident |-> None]
<1> DEFINE next == [Idle EXCEPT !.step = "lookup", !.alert = a, !.verdict = v]
<1>1. /\ a \in Alerts
      /\ alerts' = Put(alerts, a, row)
      /\ jobs' = [jobs EXCEPT ![Ingest] = next]
      /\ UNCHANGED <<known, incidents, scored, queue, restarts>>
  BY DEF Record
<1>2. /\ Recorded' = Recorded \cup {a}
      /\ alerts'[a] = row
      /\ \A b \in Recorded : b # a => alerts'[b] = alerts[b]
  BY <1>1 DEF Put, Recorded
<1>3. row \in AlertRow /\ row.assessed = FALSE /\ row.incident = None
  BY DEF AlertRow, None
<1>4. next \in Job
  BY <1>1, NewJobs
<1>5. next.step = "lookup" /\ next.alert = a /\ next.creates = FALSE
  BY IdleType DEF Idle, Job
<1>6. /\ jobs' \in [{Ingest, Late} -> Job]
      /\ jobs'[Ingest] = next
      /\ \A w \in {Ingest, Late} : w # Ingest => jobs'[w] = jobs[w]
  BY <1>1, <1>4, NewJob DEF Inv
<1>7. /\ Cardinality(Recorded) \in Nat /\ Recorded = 1..Cardinality(Recorded)
      /\ Recorded' = 1..a /\ Cardinality(Recorded') = a
  BY <1>2, RecordedFinite, NextNumber DEF Inv, TypeOK
<1>8. a \notin Recorded
  BY <1>7
<1> HIDE DEF a, row, next
<1>9. TypeOK'
  BY <1>1, <1>2, <1>3, <1>6, <1>7 DEF Inv, TypeOK
<1>10. ASSUME NEW w \in {Ingest, Late}
       PROVE  JobBacked(w)'
  <2>1. CASE w = Ingest
    BY <1>2, <1>5, <1>6, <2>1 DEF JobBacked
  <2>2. CASE w # Ingest
    BY <1>1, <1>2, <1>6, <2>2 DEF Inv, JobBacked
  <2> QED BY <2>1, <2>2
<1>11. RecordMatchesAudit'
  BY <1>1, <1>2, <1>3, <1>8 DEF Inv, TypeOK, RecordMatchesAudit
<1>12. EscalationHasIncident'
  BY <1>1, <1>2, <1>3, <1>8 DEF Inv, EscalationHasIncident
<1> QED
  BY <1>1, <1>9, <1>10, <1>11, <1>12 DEF Inv

(* What a commit does to the incidents: none, or the next one, is added, and *)
(* the alert's incident is there in its group.                               *)
LEMMA CommitIncidents ==
  ASSUME Inv, NEW w \in Workers, Commit(w)
  PROVE  LET job == jobs[w]
         IN
         /\ IsFiniteSet(DOMAIN incidents') /\ Cardinality(DOMAIN incidents') \in Nat
         /\ Cardinality(DOMAIN incidents) \in Nat
         /\ Cardinality(DOMAIN incidents) <= Cardinality(DOMAIN incidents')
         /\ DOMAIN incidents' = 1..Cardinality(DOMAIN incidents')
         /\ DOMAIN incidents \subseteq DOMAIN incidents'
         /\ \A i \in DOMAIN incidents : incidents'[i] = incidents[i]
         /\ \A i \in DOMAIN incidents' : incidents'[i] \in IncidentRow
         /\ Escalates(job.verdict) =>
              /\ job.incident \in DOMAIN incidents'
              /\ incidents'[job.incident].group = GroupOf[job.alert]
<1> DEFINE job == jobs[w]
<1> DEFINE n == Cardinality(DOMAIN incidents)
<1> DEFINE row == [group |-> GroupOf[job.alert], primary |-> job.alert, open |-> TRUE]
<1>1. /\ w \in {Ingest, Late} /\ job \in Job /\ JobBacked(w)
      /\ job.step = "commit" /\ job.alert \in Recorded /\ job.alert \in Alerts
  BY JobOf DEF Commit, JobBacked, Inv, TypeOK
<1>2. /\ n \in Nat /\ DOMAIN incidents = 1..n /\ IsFiniteSet(DOMAIN incidents)
      /\ \A i \in DOMAIN incidents : incidents[i] \in IncidentRow
  BY FS_CardinalityType DEF Inv, TypeOK
<1>3. CASE ~job.creates
  <2>1. incidents' = incidents
    BY <1>3 DEF Commit
  <2> QED BY <1>1, <1>2, <1>3, <2>1 DEF JobBacked
<1>4. CASE job.creates
  <2>1. incidents' = Put(incidents, job.incident, row) /\ job.incident \notin DOMAIN incidents
    BY <1>4 DEF Commit, Conflict
  <2>2. job.incident = n + 1
    <3>1. job.incident \in 1..(n + 1)
      BY <1>1, <1>4 DEF JobBacked
    <3> HIDE DEF n
    <3> QED BY <1>2, <2>1, <3>1
  <2>3. /\ DOMAIN incidents' = DOMAIN incidents \cup {n + 1}
        /\ incidents'[n + 1] = row
        /\ \A i \in DOMAIN incidents : incidents'[i] = incidents[i]
    BY <2>1, <2>2 DEF Put
  <2>4. /\ DOMAIN incidents' = 1..(n + 1)
        /\ Cardinality(DOMAIN incidents') = n + 1
        /\ IsFiniteSet(DOMAIN incidents')
    BY <1>2, <2>3, NextNumber
  <2>5. row \in IncidentRow /\ row.group = GroupOf[job.alert]
    BY <1>1, GroupOfAssumption DEF IncidentRow
  <2> HIDE DEF n, row
  <2>6. n <= n + 1 /\ n + 1 \in Nat /\ n + 1 \in DOMAIN incidents'
    BY <1>2, <2>3
  <2>7. \A i \in DOMAIN incidents' : incidents'[i] \in IncidentRow
    BY <1>2, <2>3, <2>5
  <2> QED BY <1>2, <2>2, <2>3, <2>4, <2>5, <2>6, <2>7 DEF n
<1> QED
  BY <1>3, <1>4

LEMMA CommitKeeps ==
  ASSUME Inv, NEW w \in Workers, Commit(w)
  PROVE  Inv'
<1> DEFINE job == jobs[w]
<1> DEFINE a == job.alert
<1> DEFINE row == [verdict |-> job.verdict, assessed |-> TRUE,
                   incident |-> IF Escalates(job.verdict) THEN job.incident
                                ELSE alerts[a].incident]
<1> DEFINE scoredRow == [before |-> job.before, after |-> job.verdict]
<1>1. /\ w \in {Ingest, Late} /\ job \in Job /\ JobBacked(w)
      /\ job.step = "commit" /\ a \in Recorded
  BY JobOf DEF Commit, JobBacked
<1>2. alerts[a] \in AlertRow
  BY <1>1 DEF Inv, TypeOK
<1>3. /\ row \in AlertRow /\ row.assessed = TRUE /\ row.verdict = job.verdict
      /\ scoredRow \in ScoredRow /\ scoredRow.after = job.verdict
  BY <1>1, <1>2 DEF AlertRow, ScoredRow, Job
<1>4. row.incident = IF Escalates(job.verdict) THEN job.incident ELSE alerts[a].incident
  OBVIOUS
<1>5. /\ alerts' = [alerts EXCEPT ![a] = row]
      /\ scored' = Put(scored, a, scoredRow)
      /\ jobs' = [jobs EXCEPT ![w] = Idle]
      /\ UNCHANGED <<known, queue, restarts>>
  BY DEF Commit
<1>6. /\ Recorded' = Recorded /\ alerts'[a] = row
      /\ \A b \in Recorded : b # a => alerts'[b] = alerts[b]
  BY <1>1, <1>5 DEF Recorded
<1>7. /\ DOMAIN scored' = DOMAIN scored \cup {a} /\ scored'[a] = scoredRow
      /\ \A b \in DOMAIN scored : b # a => scored'[b] = scored[b]
  BY <1>5 DEF Put
<1>8. /\ jobs' \in [{Ingest, Late} -> Job]
      /\ jobs'[w] = Idle
      /\ \A v \in {Ingest, Late} : v # w => jobs'[v] = jobs[v]
  BY <1>1, <1>5, NewJob, IdleType DEF Inv
<1> HIDE DEF row, scoredRow
<1>9. TypeOK'
  BY <1>1, <1>3, <1>5, <1>6, <1>7, <1>8, CommitIncidents DEF Inv, TypeOK
<1>10. ASSUME NEW v \in {Ingest, Late}
       PROVE  JobBacked(v)'
  <2>1. CASE v = w
    BY <1>8, <2>1 DEF JobBacked, Idle
  <2>2. CASE v # w
    <3>1. JobBacked(v) /\ jobs'[v] = jobs[v]
      BY <1>8, <2>2 DEF Inv
    <3>2. jobs'[v].creates /\ jobs'[v].step = "commit" /\ Escalates(jobs'[v].verdict) =>
            jobs'[v].incident \in 1..(Cardinality(DOMAIN incidents') + 1)
      BY <3>1, CommitIncidents DEF JobBacked
    <3> QED BY <1>6, <3>1, <3>2, CommitIncidents DEF JobBacked
  <2> QED BY <2>1, <2>2
<1>11. RecordMatchesAudit'
  BY <1>1, <1>3, <1>6, <1>7 DEF Inv, RecordMatchesAudit
<1>12. EscalationHasIncident'
  <2>1. ASSUME NEW b \in Recorded
        PROVE  /\ alerts'[b].assessed /\ Escalates(alerts'[b].verdict) =>
                    alerts'[b].incident # None
               /\ alerts'[b].incident # None =>
                    /\ alerts'[b].incident \in DOMAIN incidents'
                    /\ incidents'[alerts'[b].incident].group = GroupOf[b]
    <3>1. CASE b # a
      BY <1>6, <3>1, CommitIncidents DEF Inv, EscalationHasIncident
    <3>2. CASE b = a
      <4>1. CASE Escalates(job.verdict)
        <5>1. row.incident # None
          BY <1>4, <4>1, CommitIncidents DEF None
        <5> QED BY <1>4, <1>6, <3>2, <4>1, <5>1, CommitIncidents
      <4>2. CASE ~Escalates(job.verdict)
        BY <1>1, <1>3, <1>4, <1>6, <3>2, <4>2, CommitIncidents DEF Inv, EscalationHasIncident
      <4> QED BY <4>1, <4>2
    <3> QED BY <3>1, <3>2
  <2> QED BY <1>6, <2>1 DEF EscalationHasIncident
<1> QED
  BY <1>9, <1>10, <1>11, <1>12, CommitIncidents DEF Inv

(* The steps that touch no alert and no job. *)
LEMMA LeaveOpenKeeps ==
  ASSUME Inv, NEW i \in DOMAIN incidents, LeaveOpen(i)
  PROVE  Inv'
<1>1. /\ incidents' = [incidents EXCEPT ![i].open = FALSE]
      /\ UNCHANGED <<known, alerts, scored, jobs, queue, restarts>>
      /\ \A k \in DOMAIN incidents : incidents[k] \in IncidentRow
  BY DEF LeaveOpen, Inv, TypeOK
<1>2. /\ DOMAIN incidents' = DOMAIN incidents
      /\ \A k \in DOMAIN incidents : /\ incidents'[k] \in IncidentRow
                                     /\ incidents'[k].group = incidents[k].group
  BY <1>1 DEF IncidentRow
<1>3. TypeOK'
  BY <1>1, <1>2 DEF Inv, TypeOK, Recorded
<1>4. ASSUME NEW w \in {Ingest, Late}
      PROVE  JobBacked(w)'
  BY <1>1, <1>2 DEF Inv, JobBacked, Recorded
<1>5. RecordMatchesAudit' /\ EscalationHasIncident'
  BY <1>1, <1>2 DEF Inv, RecordMatchesAudit, EscalationHasIncident, Recorded
<1> QED
  BY <1>2, <1>3, <1>4, <1>5 DEF Inv

LEMMA OthersKeep ==
  ASSUME Inv,
         SelectBatch \/ Restart \/ (\E a \in Alerts : Learn(a)) \/ UNCHANGED vars
  PROVE  Inv'
<1>1. /\ UNCHANGED <<alerts, incidents, scored>>
      /\ \A w \in {Ingest, Late} : jobs'[w] = jobs[w] \/ jobs'[w] = Idle
  BY DEF SelectBatch, Restart, Learn, vars
<1>2. TypeOK'
  <2>1. CASE SelectBatch
    BY <2>1 DEF SelectBatch, Candidates, Inv, TypeOK, Recorded
  <2>2. CASE Restart
    BY <2>2, IdleType DEF Restart, Inv, TypeOK, Recorded
  <2>3. ASSUME NEW a \in Alerts, Learn(a)
        PROVE  TypeOK'
    BY <2>3 DEF Learn, Inv, TypeOK, Recorded
  <2>4. CASE UNCHANGED vars
    BY <2>4 DEF vars, Inv, TypeOK, Recorded
  <2> QED BY <2>1, <2>2, <2>3, <2>4
<1>3. ASSUME NEW w \in {Ingest, Late}
      PROVE  JobBacked(w)'
  BY <1>1 DEF Inv, JobBacked, Recorded, Idle
<1>4. RecordMatchesAudit' /\ EscalationHasIncident'
  BY <1>1 DEF Inv, RecordMatchesAudit, EscalationHasIncident, Recorded
<1> QED
  BY <1>1, <1>2, <1>3, <1>4 DEF Inv

LEMMA InitInv == Init => Inv
<1> SUFFICES ASSUME Init
             PROVE  Inv
  OBVIOUS
<1>1. /\ Recorded = {} /\ DOMAIN incidents = {} /\ DOMAIN scored = {}
      /\ \A w \in {Ingest, Late} : jobs[w] = Idle
  BY DEF Init, Recorded
<1>2. IsFiniteSet({}) /\ Cardinality({}) = 0 /\ {} = 1..0
  BY FS_EmptySet
<1>3. TypeOK
  BY <1>1, <1>2, IdleType DEF Init, TypeOK
<1>4. \A w \in {Ingest, Late} : JobBacked(w)
  BY <1>1 DEF JobBacked, Idle
<1> QED
  BY <1>1, <1>2, <1>3, <1>4 DEF Inv, RecordMatchesAudit, EscalationHasIncident

LEMMA InvInductive == Inv /\ [Next]_vars => Inv'
<1> SUFFICES ASSUME Inv, [Next]_vars
             PROVE  Inv'
  OBVIOUS
<1>1. ASSUME NEW w \in Workers, Persist(w)
      PROVE  Inv'
  BY <1>1, LookupKeeps, NumberKeeps, CommitKeeps, RollbackKeeps DEF Persist
<1>2. ASSUME NEW v \in Verdicts, Record(v) \/ FindChanged(v)
      PROVE  Inv'
  BY <1>2, RecordKeeps, FindChangedKeeps
<1>3. ASSUME NEW a \in Alerts, ReadAlert(a)
      PROVE  Inv'
  BY <1>3, ReadAlertKeeps
<1>4. ASSUME NEW i \in DOMAIN incidents, LeaveOpen(i)
      PROVE  Inv'
  BY <1>4, LeaveOpenKeeps
<1> QED
  BY <1>1, <1>2, <1>3, <1>4, FindUnchangedKeeps, OthersKeep DEF Next

LEMMA SpecInv == Spec => []Inv
BY InitInv, InvInductive, PTL DEF Spec

(* Every table keeps to its schema, and the incidents are numbered without *)
(* gaps although two workers number them from reads that hold no lock.     *)
THEOREM TypeCorrect == Spec => []TypeOK
<1>1. Inv => TypeOK
  BY DEF Inv
<1> QED
  BY <1>1, SpecInv, PTL

(* The alert of record always carries the assessment of its newest audit   *)
(* row, whichever worker wrote it and wherever the process died.           *)
THEOREM RecordAgreesWithAudit == Spec => []RecordMatchesAudit
<1>1. Inv => RecordMatchesAudit
  BY DEF Inv
<1> QED
  BY <1>1, SpecInv, PTL

(* An alert decided open_incident belongs to an incident of its group.     *)
THEOREM EscalatedBelongs == Spec => []EscalationHasIncident
<1>1. Inv => EscalationHasIncident
  BY DEF Inv
<1> QED
  BY <1>1, SpecInv, PTL

-----------------------------------------------------------------------------
(* Every incident has its primary alert: the commit that opens it links the *)
(* alert in the same transaction, the UNIQUE primary_alert_id keeps it from *)
(* being primary twice, and no later assessment takes its incident away.    *)

LEMMA CommitPrimaries ==
  ASSUME Inv, IncidentsHavePrimaries, NEW w \in Workers, Commit(w)
  PROVE  IncidentsHavePrimaries'
<1> DEFINE job == jobs[w]
<1> DEFINE a == job.alert
<1>1. /\ w \in {Ingest, Late} /\ job \in Job /\ JobBacked(w)
      /\ job.step = "commit" /\ a \in Recorded
  BY JobOf DEF Commit, JobBacked
<1>2. /\ alerts[a] \in AlertRow
      /\ Recorded' = Recorded
      /\ \A b \in Recorded : b # a => alerts'[b] = alerts[b]
      /\ alerts'[a].incident = IF Escalates(job.verdict) THEN job.incident
                               ELSE alerts[a].incident
  BY <1>1 DEF Commit, Recorded, Inv, TypeOK
<1>3. Escalates(job.verdict) => job.incident # None
  BY CommitIncidents DEF None
<1>4. \A b \in Recorded : alerts[b].incident # None => alerts'[b].incident # None
  BY <1>2, <1>3
<1>5. CASE ~job.creates
  <2>1. incidents' = incidents
    BY <1>5 DEF Commit
  <2> QED BY <1>2, <1>4, <2>1 DEF IncidentsHavePrimaries
<1>6. CASE job.creates
  <2>1. /\ DOMAIN incidents' = DOMAIN incidents \cup {job.incident}
        /\ incidents'[job.incident].primary = a
        /\ job.incident \notin DOMAIN incidents
        /\ \A i \in DOMAIN incidents : incidents'[i] = incidents[i]
        /\ \A i \in DOMAIN incidents : incidents[i].primary # a
    BY <1>6 DEF Commit, Conflict, Put
  <2>2. alerts'[a].incident # None
    BY <1>1, <1>2, <1>3, <1>6 DEF JobBacked
  <2> QED BY <1>1, <1>2, <1>4, <2>1, <2>2 DEF IncidentsHavePrimaries
<1> QED
  BY <1>5, <1>6

(* No two incidents share a primary alert, and the primary alert of an     *)
(* incident belongs to some incident, whatever races, fails or restarts.   *)
THEOREM PrimariesBelong == Spec => []IncidentsHavePrimaries
<1>1. Init => IncidentsHavePrimaries
  BY DEF Init, IncidentsHavePrimaries
<1>2. Inv /\ IncidentsHavePrimaries /\ [Next]_vars => IncidentsHavePrimaries'
  <2> SUFFICES ASSUME Inv, IncidentsHavePrimaries, [Next]_vars
               PROVE  IncidentsHavePrimaries'
    OBVIOUS
  <2>1. ASSUME UNCHANGED <<alerts, incidents>>
        PROVE  IncidentsHavePrimaries'
    BY <2>1 DEF IncidentsHavePrimaries, Recorded
  <2>2. ASSUME NEW w \in Workers, Persist(w)
        PROVE  IncidentsHavePrimaries'
    BY <2>1, <2>2, CommitPrimaries DEF Persist, Lookup, Number, Rollback
  <2>3. ASSUME NEW v \in Verdicts, Record(v)
        PROVE  IncidentsHavePrimaries'
    <3>1. Cardinality(Recorded) + 1 \notin Recorded
      BY FS_CardinalityType, RecordedFinite DEF Inv, TypeOK
    <3>2. /\ incidents' = incidents
          /\ Recorded \subseteq Recorded'
          /\ \A b \in Recorded : alerts'[b] = alerts[b]
      BY <2>3, <3>1 DEF Record, Put, Recorded
    <3> QED BY <3>2 DEF IncidentsHavePrimaries
  <2>4. ASSUME NEW i \in DOMAIN incidents, LeaveOpen(i)
        PROVE  IncidentsHavePrimaries'
    <3>1. /\ alerts' = alerts
          /\ DOMAIN incidents' = DOMAIN incidents
          /\ \A k \in DOMAIN incidents : incidents'[k].primary = incidents[k].primary
      BY <2>4 DEF LeaveOpen, Inv, TypeOK, IncidentRow
    <3> QED BY <3>1 DEF IncidentsHavePrimaries, Recorded
  <2> QED
    BY <2>1, <2>2, <2>3, <2>4
    DEF Next, vars, Learn, ReadAlert, FindChanged, SelectBatch, FindUnchanged, Restart
<1> QED
  BY <1>1, <1>2, SpecInv, PTL DEF Spec

-----------------------------------------------------------------------------
(* A worker that is to open an incident of g found none open.  Between its  *)
(* lookup and its commit incidents of g may come and go, but each of them   *)
(* was opened by another worker: open incidents and workers that are about  *)
(* to open one are never more than the workers together.                    *)

Openers(g) == {w \in Workers : jobs[w].creates /\ GroupOf[jobs[w].alert] = g}

RoomToOpen ==
  \A g \in Groups :
    Cardinality(OpenIncidents(g)) + Cardinality(Openers(g)) <= Cardinality(Workers)

LEMMA WorkersFinite == IsFiniteSet(Workers) /\ Cardinality(Workers) \in Nat
<1>1. IsFiniteSet({Ingest, Late})
  <2>1. IsFiniteSet({Ingest})
    BY FS_Singleton
  <2>2. IsFiniteSet({Ingest} \cup {Late})
    BY <2>1, FS_AddElement
  <2>3. {Ingest, Late} = {Ingest} \cup {Late}
    OBVIOUS
  <2> QED BY <2>2, <2>3
<1> QED
  BY <1>1, WorkersNamed, FS_Subset, FS_CardinalityType

LEMMA OpeningsFinite ==
  ASSUME Inv, NEW g
  PROVE  /\ IsFiniteSet(OpenIncidents(g)) /\ Cardinality(OpenIncidents(g)) \in Nat
         /\ IsFiniteSet(Openers(g)) /\ Cardinality(Openers(g)) \in Nat
         /\ Cardinality(Openers(g)) <= Cardinality(Workers)
<1>1. OpenIncidents(g) \in SUBSET DOMAIN incidents /\ Openers(g) \in SUBSET Workers
  BY DEF OpenIncidents, Openers
<1>2. IsFiniteSet(OpenIncidents(g)) /\ IsFiniteSet(Openers(g))
  BY <1>1, WorkersFinite, FS_Subset DEF Inv
<1>3. Cardinality(Openers(g)) <= Cardinality(Workers)
  BY <1>1, WorkersFinite, FS_Subset
<1> QED
  BY <1>2, <1>3, FS_CardinalityType

(* A step that opens no incident of g and sends no worker to open one.     *)
LEMMA RoomStays ==
  ASSUME Inv, RoomToOpen, NEW g \in Groups,
         OpenIncidents(g)' \subseteq OpenIncidents(g), Openers(g)' \subseteq Openers(g)
  PROVE  Cardinality(OpenIncidents(g)') + Cardinality(Openers(g)') <= Cardinality(Workers)
<1>1. /\ Cardinality(OpenIncidents(g)') <= Cardinality(OpenIncidents(g))
      /\ IsFiniteSet(OpenIncidents(g)')
  BY OpeningsFinite, FS_Subset
<1>2. /\ Cardinality(Openers(g)') <= Cardinality(Openers(g))
      /\ IsFiniteSet(Openers(g)')
  BY OpeningsFinite, FS_Subset
<1>3. Cardinality(OpenIncidents(g)') \in Nat /\ Cardinality(Openers(g)') \in Nat
  BY <1>1, <1>2, FS_CardinalityType
<1>4. Cardinality(OpenIncidents(g)) + Cardinality(Openers(g)) <= Cardinality(Workers)
  BY DEF RoomToOpen
<1> QED
  BY <1>1, <1>2, <1>3, <1>4, OpeningsFinite, WorkersFinite

(* The same for all groups: incidents only close, workers keep their jobs  *)
(* or take one that opens nothing.                                         *)
LEMMA RoomKept ==
  ASSUME Inv, RoomToOpen,
         DOMAIN incidents' = DOMAIN incidents,
         \A i \in DOMAIN incidents : /\ incidents'[i].group = incidents[i].group
                                     /\ incidents'[i].open => incidents[i].open,
         \A w \in Workers : jobs'[w].creates => /\ jobs[w].creates
                                                /\ jobs'[w].alert = jobs[w].alert
  PROVE  RoomToOpen'
<1>1. ASSUME NEW g \in Groups
      PROVE  Cardinality(OpenIncidents(g)') + Cardinality(Openers(g)') <= Cardinality(Workers)
  <2>1. OpenIncidents(g)' \subseteq OpenIncidents(g)
    BY DEF OpenIncidents
  <2>2. Openers(g)' \subseteq Openers(g)
    BY DEF Openers
  <2> QED BY <2>1, <2>2, RoomStays
<1> QED
  BY <1>1 DEF RoomToOpen

(* A worker that moves on with its job, or takes one that opens nothing.   *)
LEMMA RoomOnTheWay ==
  ASSUME Inv, RoomToOpen, NEW w \in {Ingest, Late}, NEW job,
         jobs' = [jobs EXCEPT ![w] = job],
         job.creates => jobs[w].creates /\ job.alert = jobs[w].alert,
         UNCHANGED incidents
  PROVE  RoomToOpen'
<1>1. jobs'[w] = job /\ \A v \in Workers : v # w => jobs'[v] = jobs[v]
  BY WorkersNamed DEF Inv, TypeOK
<1> QED
  BY <1>1, RoomKept

LEMMA LookupRoom ==
  ASSUME Inv, RoomToOpen, NEW w \in Workers, Lookup(w)
  PROVE  RoomToOpen'
<1> DEFINE job == jobs[w]
<1>1. w \in {Ingest, Late} /\ job \in Job /\ jobs \in [{Ingest, Late} -> Job]
  BY WorkersNamed DEF Inv, TypeOK
<1>2. /\ incidents' = incidents
      /\ \A g : OpenIncidents(g)' = OpenIncidents(g)
  BY DEF Lookup, OpenIncidents
<1>3. CASE jobs' = [jobs EXCEPT ![w] = [@ EXCEPT !.step = "commit"]]
  <2> DEFINE next == [job EXCEPT !.step = "commit"]
  <2>1. next.creates = job.creates /\ next.alert = job.alert
    BY <1>1 DEF Job
  <2>2. jobs' = [jobs EXCEPT ![w] = next]
    BY <1>3
  <2> HIDE DEF next
  <2> QED BY <1>1, <1>2, <2>1, <2>2, RoomOnTheWay
<1>5. ASSUME NEW i, jobs' = [jobs EXCEPT ![w] = [@ EXCEPT !.step = "commit", !.incident = i]]
      PROVE  RoomToOpen'
  <2> DEFINE next == [job EXCEPT !.step = "commit", !.incident = i]
  <2>1. next.creates = job.creates /\ next.alert = job.alert
    BY <1>1 DEF Job
  <2>2. jobs' = [jobs EXCEPT ![w] = next]
    BY <1>5
  <2> HIDE DEF next
  <2> QED BY <1>1, <1>2, <2>1, <2>2, RoomOnTheWay
<1>4. CASE /\ OpenIncidents(GroupOf[job.alert]) = {}
           /\ jobs' = [jobs EXCEPT ![w] = [@ EXCEPT !.step = "number", !.creates = TRUE]]
  <2>1. /\ jobs'[w].alert = job.alert
        /\ \A v \in Workers : v # w => jobs'[v] = jobs[v]
    BY <1>1, <1>4, WorkersNamed DEF Job
  <2>2. ASSUME NEW g \in Groups
        PROVE  Cardinality(OpenIncidents(g)') + Cardinality(Openers(g)') <= Cardinality(Workers)
    <3>1. CASE g = GroupOf[job.alert]
      <4>1. OpenIncidents(g)' = {} /\ Cardinality({}) = 0
        BY <1>2, <1>4, <3>1, FS_EmptySet
      <4>2. Openers(g)' \in SUBSET Workers
        BY DEF Openers, Workers
      <4>3. Cardinality(Openers(g)') <= Cardinality(Workers) /\ Cardinality(Openers(g)') \in Nat
        BY <4>2, WorkersFinite, FS_Subset, FS_CardinalityType
      <4> QED BY <4>1, <4>3, WorkersFinite
    <3>2. CASE g # GroupOf[job.alert]
      <4>1. Openers(g)' \subseteq Openers(g)
        BY <2>1, <3>2 DEF Openers, Workers
      <4> QED BY <1>2, <4>1, RoomStays
    <3> QED BY <3>1, <3>2
  <2> QED BY <2>2 DEF RoomToOpen
<1> QED
  BY <1>3, <1>4, <1>5 DEF Lookup

LEMMA CommitRoom ==
  ASSUME Inv, RoomToOpen, NEW w \in Workers, Commit(w)
  PROVE  RoomToOpen'
<1> DEFINE job == jobs[w]
<1>1. w \in {Ingest, Late} /\ job \in Job /\ jobs \in [{Ingest, Late} -> Job]
  BY WorkersNamed DEF Inv, TypeOK
<1>2. /\ jobs'[w].creates = FALSE
      /\ \A v \in Workers : v # w => jobs'[v] = jobs[v]
  BY <1>1, WorkersNamed DEF Commit, Idle
<1>3. CASE ~job.creates
  <2>1. incidents' = incidents
    BY <1>3 DEF Commit
  <2> QED BY <1>2, <2>1, RoomKept
<1>4. CASE job.creates
  <2>0. PICK own : own = GroupOf[job.alert]
    OBVIOUS
  <2>1. /\ DOMAIN incidents' = DOMAIN incidents \cup {job.incident}
        /\ incidents'[job.incident].group = own
        /\ job.incident \notin DOMAIN incidents
        /\ \A i \in DOMAIN incidents : incidents'[i] = incidents[i]
    BY <1>4, <2>0 DEF Commit, Conflict, Put
  <2>2. ASSUME NEW g \in Groups
        PROVE  Cardinality(OpenIncidents(g)') + Cardinality(Openers(g)') <= Cardinality(Workers)
    <3>1. CASE g = own
      <4>1. /\ OpenIncidents(g)' \subseteq OpenIncidents(g) \cup {job.incident}
            /\ IsFiniteSet(OpenIncidents(g) \cup {job.incident})
            /\ Cardinality(OpenIncidents(g) \cup {job.incident})
                 <= Cardinality(OpenIncidents(g)) + 1
        <5>1. OpenIncidents(g)' \subseteq OpenIncidents(g) \cup {job.incident}
          BY <2>1, <3>1 DEF OpenIncidents
        <5>2. PICK open : open = OpenIncidents(g)
          OBVIOUS
        <5>3. IsFiniteSet(open) /\ Cardinality(open) \in Nat
          BY <5>2, OpeningsFinite
        <5>4. /\ IsFiniteSet(open \cup {job.incident})
              /\ Cardinality(open \cup {job.incident}) <= Cardinality(open) + 1
          BY <5>3, FS_AddElement
        <5> QED BY <5>1, <5>2, <5>4
      <4>2. /\ Cardinality(OpenIncidents(g)') <= Cardinality(OpenIncidents(g)) + 1
            /\ Cardinality(OpenIncidents(g)') \in Nat
        <5>1. /\ IsFiniteSet(OpenIncidents(g)')
              /\ Cardinality(OpenIncidents(g)')
                   <= Cardinality(OpenIncidents(g) \cup {job.incident})
          BY <4>1, FS_Subset
        <5> QED BY <4>1, <5>1, OpeningsFinite, FS_CardinalityType
      <4>3. w \in Openers(g) /\ Openers(g)' = Openers(g) \ {w}
        BY <1>2, <1>4, <2>0, <3>1 DEF Openers, Workers
      <4>4. Cardinality(Openers(g)') = Cardinality(Openers(g)) - 1
        BY <4>3, OpeningsFinite, FS_RemoveElement
      <4>5. Cardinality(OpenIncidents(g)) + Cardinality(Openers(g)) <= Cardinality(Workers)
        BY DEF RoomToOpen
      <4> QED BY <4>2, <4>4, <4>5, OpeningsFinite, WorkersFinite
    <3>2. CASE g # own
      <4>1. OpenIncidents(g)' \subseteq OpenIncidents(g)
        BY <2>1, <3>2 DEF OpenIncidents
      <4>2. Openers(g)' \subseteq Openers(g)
        BY <1>2 DEF Openers, Workers
      <4> QED BY <4>1, <4>2, RoomStays
    <3> QED BY <3>1, <3>2
  <2> QED BY <2>2 DEF RoomToOpen
<1> QED
  BY <1>3, <1>4

(* A group never has more open incidents than there are workers: one with  *)
(* ingest alone, two with the late-enrichment sweep beside it.             *)
THEOREM OpenIncidentsAreBounded == Spec => []OpenIncidentsBounded
<1>1. Init => RoomToOpen
  <2> SUFFICES ASSUME Init, NEW g \in Groups
               PROVE  Cardinality(OpenIncidents(g)) + Cardinality(Openers(g))
                        <= Cardinality(Workers)
    BY DEF RoomToOpen
  <2>1. OpenIncidents(g) = {} /\ Openers(g) = {}
    BY WorkersNamed DEF Init, OpenIncidents, Openers, Idle
  <2> QED BY <2>1, FS_EmptySet, WorkersFinite
<1>2. Inv /\ RoomToOpen /\ [Next]_vars => RoomToOpen'
  <2> SUFFICES ASSUME Inv, RoomToOpen, [Next]_vars
               PROVE  RoomToOpen'
    OBVIOUS
  <2>0. /\ jobs \in [{Ingest, Late} -> Job]
        /\ \A i \in DOMAIN incidents : incidents[i] \in IncidentRow
    BY DEF Inv, TypeOK
  <2>1. ASSUME UNCHANGED incidents,
               \A w \in Workers : jobs'[w].creates => jobs'[w] = jobs[w]
        PROVE  RoomToOpen'
    BY <2>1, RoomKept
  <2>2. ASSUME NEW w \in Workers, Number(w)
        PROVE  RoomToOpen'
    <3>1. jobs[w] \in Job /\ w \in {Ingest, Late}
      BY <2>0, WorkersNamed
    <3> DEFINE next == [jobs[w] EXCEPT !.step = "commit",
                                       !.incident = Cardinality(DOMAIN incidents) + 1]
    <3>2. next.creates = jobs[w].creates /\ next.alert = jobs[w].alert
      BY <3>1 DEF Job
    <3>3. jobs' = [jobs EXCEPT ![w] = next] /\ UNCHANGED incidents
      BY <2>2 DEF Number
    <3> HIDE DEF next
    <3> QED BY <3>1, <3>2, <3>3, RoomOnTheWay
  <2>3. ASSUME NEW v \in Verdicts, FindChanged(v)
        PROVE  RoomToOpen'
    <3>1. jobs[Late] \in Job
      BY <2>0
    <3> DEFINE next == [jobs[Late] EXCEPT !.step = "lookup", !.verdict = v]
    <3>2. next.creates = jobs[Late].creates /\ next.alert = jobs[Late].alert
      BY <3>1 DEF Job
    <3>3. jobs' = [jobs EXCEPT ![Late] = next] /\ UNCHANGED incidents
      BY <2>3 DEF FindChanged
    <3> HIDE DEF next
    <3> QED BY <3>1, <3>2, <3>3, RoomOnTheWay
  <2>4. ASSUME NEW i \in DOMAIN incidents, LeaveOpen(i)
        PROVE  RoomToOpen'
    <3>1. /\ jobs' = jobs
          /\ DOMAIN incidents' = DOMAIN incidents
          /\ \A k \in DOMAIN incidents : /\ incidents'[k].group = incidents[k].group
                                         /\ incidents'[k].open => incidents[k].open
      BY <2>0, <2>4 DEF LeaveOpen, IncidentRow
    <3> QED BY <3>1, RoomKept
  <2>5. ASSUME NEW w \in {Ingest, Late}, NEW job, jobs' = [jobs EXCEPT ![w] = job],
               ~job.creates, UNCHANGED incidents
        PROVE  RoomToOpen'
    BY <2>5, RoomOnTheWay
  <2>11. ASSUME NEW w \in Workers, Rollback(w)
         PROVE  RoomToOpen'
    <3>1. ~Idle.creates
      BY DEF Idle
    <3> QED BY <2>5, <2>11, <3>1, WorkersNamed DEF Rollback
  <2>6. ASSUME NEW v \in Verdicts, Record(v)
        PROVE  RoomToOpen'
    <3> DEFINE job == [Idle EXCEPT !.step = "lookup", !.alert = Cardinality(Recorded) + 1,
                                   !.verdict = v]
    <3>1. ~job.creates
      BY DEF Idle
    <3> QED BY <2>5, <2>6, <3>1 DEF Record
  <2>7. ASSUME NEW a \in Alerts, ReadAlert(a)
        PROVE  RoomToOpen'
    <3> DEFINE job == [Idle EXCEPT !.step = "enrich", !.alert = a,
                             !.before = IF alerts[a].assessed THEN alerts[a].verdict
                                        ELSE Unassessed,
                             !.verdict = alerts[a].verdict]
    <3>1. ~job.creates
      BY DEF Idle
    <3>2. jobs' = [jobs EXCEPT ![Late] = job] /\ UNCHANGED incidents
      BY <2>7 DEF ReadAlert
    <3> HIDE DEF job
    <3> QED BY <2>5, <3>1, <3>2
  <2>8. CASE FindUnchanged
    <3>1. ~Idle.creates
      BY DEF Idle
    <3> QED BY <2>5, <2>8, <3>1 DEF FindUnchanged
  <2>9. CASE Restart
    BY <2>1, <2>9, WorkersNamed DEF Restart, Idle
  <2>10. CASE SelectBatch \/ (\E a \in Alerts : Learn(a)) \/ UNCHANGED vars
    BY <2>1, <2>10 DEF SelectBatch, Learn, vars
  <2> QED
    BY <2>2, <2>3, <2>4, <2>6, <2>7, <2>8, <2>9, <2>10, <2>11, LookupRoom, CommitRoom
    DEF Next, Persist
<1>3. Inv /\ RoomToOpen => OpenIncidentsBounded
  BY OpeningsFinite, WorkersFinite DEF RoomToOpen, OpenIncidentsBounded
<1> QED
  BY <1>1, <1>2, <1>3, SpecInv, PTL DEF Spec

-----------------------------------------------------------------------------
(* Without the sweep, nothing opens an incident of the group between the   *)
(* reads of a persist_assessment and its commit.                           *)

StillNone ==
  jobs[Ingest].creates => OpenIncidents(GroupOf[jobs[Ingest].alert]) = {}

SoleInv == OneOpenIncidentPerGroup /\ StillNone

(* A step that opens no incident and does not begin to.                    *)
LEMMA OpensNone ==
  ASSUME SoleInv,
         DOMAIN incidents' = DOMAIN incidents,
         \A i \in DOMAIN incidents : /\ incidents'[i].group = incidents[i].group
                                     /\ incidents'[i].open => incidents[i].open,
         jobs'[Ingest].creates => /\ jobs[Ingest].creates
                                  /\ jobs'[Ingest].alert = jobs[Ingest].alert
  PROVE  SoleInv'
<1>1. \A g : OpenIncidents(g)' \subseteq OpenIncidents(g)
  BY DEF OpenIncidents
<1> QED
  BY <1>1 DEF SoleInv, StillNone, OneOpenIncidentPerGroup

LEMMA IngestStepSole ==
  ASSUME Inv, SoleInv, Persist(Ingest)
  PROVE  SoleInv'
<1> DEFINE job == jobs[Ingest]
<1>0. Ingest \in Workers /\ Ingest \in {Ingest, Late} /\ job \in Job
  BY DEF Workers, Inv, TypeOK
<1>1. CASE Lookup(Ingest)
  <2>1. incidents' = incidents
    BY <1>1 DEF Lookup
  <2>2. \A g : OpenIncidents(g)' = OpenIncidents(g)
    BY <2>1 DEF OpenIncidents
  <2>3. /\ jobs'[Ingest].alert = job.alert
        /\ jobs'[Ingest].creates => job.creates \/ OpenIncidents(GroupOf[job.alert]) = {}
    <3>0. jobs \in [{Ingest, Late} -> Job]
      BY DEF Inv, TypeOK
    <3>1. CASE \/ jobs' = [jobs EXCEPT ![Ingest] = [@ EXCEPT !.step = "commit"]]
               \/ \E i : jobs' = [jobs EXCEPT ![Ingest] = [@ EXCEPT !.step = "commit",
                                                                  !.incident = i]]
      <4>1. PICK new : /\ new.alert = job.alert /\ new.creates = job.creates
                       /\ jobs' = [jobs EXCEPT ![Ingest] = new]
        BY <1>0, <3>1 DEF Job
      <4>2. jobs'[Ingest] = new
        BY <1>0, <3>0, <4>1
      <4> QED BY <4>1, <4>2
    <3>2. CASE /\ OpenIncidents(GroupOf[job.alert]) = {}
               /\ jobs' = [jobs EXCEPT ![Ingest] = [@ EXCEPT !.step = "number",
                                                             !.creates = TRUE]]
      BY <1>0, <3>2 DEF Job, Inv, TypeOK
    <3> QED BY <1>1, <3>1, <3>2 DEF Lookup
  <2> QED BY <2>2, <2>3 DEF SoleInv, StillNone, OneOpenIncidentPerGroup
<1>2. CASE Number(Ingest)
  <2>1. /\ incidents' = incidents
        /\ jobs'[Ingest].alert = job.alert
        /\ jobs'[Ingest].creates => job.creates
    BY <1>0, <1>2 DEF Number, Job, Inv, TypeOK
  <2> QED BY <2>1, OpensNone
<1>3. CASE Commit(Ingest)
  <2>1. jobs'[Ingest].creates = FALSE
    BY <1>0, <1>3 DEF Commit, Inv, TypeOK, Idle
  <2>2. CASE ~job.creates
    <3>1. incidents' = incidents
      BY <1>3, <2>2 DEF Commit
    <3> QED BY <2>1, <3>1, OpensNone
  <2>3. CASE job.creates
    <3>0. PICK own : own = GroupOf[job.alert]
      OBVIOUS
    <3>1. OpenIncidents(own) = {}
      BY <2>3, <3>0 DEF SoleInv, StillNone
    <3>2. /\ DOMAIN incidents' = DOMAIN incidents \cup {job.incident}
          /\ incidents'[job.incident].group = own
          /\ \A i \in DOMAIN incidents : i # job.incident => incidents'[i] = incidents[i]
      BY <1>3, <2>3, <3>0 DEF Commit, Put
    <3>3. \A g : g # own => OpenIncidents(g)' \subseteq OpenIncidents(g)
      BY <3>2 DEF OpenIncidents
    <3>4. OpenIncidents(own)' \subseteq {job.incident}
      BY <3>1, <3>2 DEF OpenIncidents
    <3>5. OneOpenIncidentPerGroup'
      <4>1. ASSUME NEW g \in Groups
            PROVE  \A i, k \in OpenIncidents(g)' : i = k
        <5>1. CASE g = own
          BY <3>4, <5>1
        <5>2. CASE g # own
          BY <3>3, <5>2 DEF SoleInv, OneOpenIncidentPerGroup
        <5> QED BY <5>1, <5>2
      <4> QED BY <4>1 DEF OneOpenIncidentPerGroup
    <3> QED BY <2>1, <3>5 DEF SoleInv, StillNone
  <2> QED BY <2>2, <2>3
<1>4. CASE Rollback(Ingest)
  <2>1. incidents' = incidents /\ jobs'[Ingest].creates = FALSE
    BY <1>0, <1>4 DEF Rollback, Inv, TypeOK, Idle
  <2> QED BY <2>1, OpensNone
<1> QED
  BY <1>1, <1>2, <1>3, <1>4 DEF Persist

(* With the sweep disabled, which is the default, alerts of a group attach *)
(* to its open incident and never open a second one.                       *)
THEOREM IngestAloneOpensOne ==
  ASSUME ~LateSweepEnabled
  PROVE  Spec => []OneOpenIncidentPerGroup
<1>1. Init => SoleInv
  BY DEF Init, SoleInv, StillNone, OneOpenIncidentPerGroup, OpenIncidents, Idle
<1>2. Inv /\ SoleInv /\ [Next]_vars => SoleInv'
  <2> SUFFICES ASSUME Inv, SoleInv, [Next]_vars
               PROVE  SoleInv'
    OBVIOUS
  <2>1. ASSUME NEW w \in Workers, Persist(w)
        PROVE  SoleInv'
    BY <2>1, IngestStepSole DEF Workers
  <2>2. ASSUME NEW v \in Verdicts, Record(v)
        PROVE  SoleInv'
    <3>1. incidents' = incidents
      BY <2>2 DEF Record
    <3>2. jobs'[Ingest].creates = FALSE
      BY <2>2, IdleType DEF Record, Inv, TypeOK, Idle, Job
    <3> QED BY <3>1, <3>2, OpensNone
  <2>3. ASSUME NEW i \in DOMAIN incidents, LeaveOpen(i)
        PROVE  SoleInv'
    <3>1. /\ jobs' = jobs
          /\ DOMAIN incidents' = DOMAIN incidents
          /\ \A k \in DOMAIN incidents : /\ incidents'[k].group = incidents[k].group
                                         /\ incidents'[k].open => incidents[k].open
      BY <2>3 DEF LeaveOpen, Inv, TypeOK, IncidentRow
    <3> QED BY <3>1, OpensNone
  <2>4. CASE Restart \/ (\E a \in Alerts : Learn(a)) \/ UNCHANGED vars
    <3>1. incidents' = incidents /\ (jobs'[Ingest] = jobs[Ingest] \/ jobs'[Ingest] = Idle)
      BY <2>4 DEF Restart, Learn, vars
    <3>2. jobs'[Ingest].creates => jobs'[Ingest] = jobs[Ingest]
      BY <3>1 DEF Idle
    <3> QED BY <3>1, <3>2, OpensNone
  <2> QED
    BY <2>1, <2>2, <2>3, <2>4 DEF Next, ReadAlert, FindChanged, FindUnchanged, SelectBatch
<1>3. SoleInv => OneOpenIncidentPerGroup
  BY DEF SoleInv
<1> QED
  BY <1>1, <1>2, <1>3, SpecInv, PTL DEF Spec
=============================================================================
