-------------------------- MODULE IncidentLifecycle --------------------------
(***************************************************************************)
(* The lifecycle of incidents under the two parties that move it: request  *)
(* handlers (PATCH /incidents/{id}/status and POST /alerts/{id}/feedback)  *)
(* on the event loop, and the auto-close sweeper in a worker thread.       *)
(*                                                                         *)
(* Handlers never await between their first statement and their commit, so *)
(* at most one is in flight.  A handler reads the incident row before its  *)
(* transaction has written anything: the session has autoflush off and     *)
(* SQLite takes its write lock at the first write, so a statement of the   *)
(* sweeper's thread can commit between that read (BeginPatch, Begin-       *)
(* Feedback) and the flush and commit (CommitUpdate).  The sweeper selects *)
(* its candidates in one transaction and closes each in one of its own.    *)
(***************************************************************************)
EXTENDS Integers, Sequences, FiniteSets

CONSTANTS
  TTL,            \* incident_auto_close_ttl_seconds, in ticks
  BatchLimit,     \* _BATCH_LIMIT: candidates of one sweeper pass
  MaxIncidents,   \* bound of the model: incidents ever opened
  MaxUpdates,     \* bound of the model: requests that reach their write
  MaxTime         \* bound of the model: the clock stops at MaxTime

ASSUME TTLAssumption == TTL \in Nat \ {0}
ASSUME BatchAssumption == BatchLimit \in Nat \ {0}
ASSUME BoundsAssumption == /\ MaxIncidents \in Nat
                           /\ MaxUpdates \in Nat
                           /\ MaxTime \in Nat

VARIABLES
  now,         \* the wall clock; starts at 1
  incidents,   \* the incidents table: status, updatedAt, acknowledgedAt and
               \* resolvedAt of each row, keyed by id, 1, 2, ...
  audit,       \* audit_log rows of incidents, oldest first: incident, actor,
               \* action, the status before and after, and when
  requests,    \* requests between their read and their commit, at most one:
               \* incident, the status read, the target, received_at or occurred_at
  sweep,       \* the sweeper's pass: its as_of and the candidates still to do,
               \* each an incident with the status and updated_at selected
  updates      \* requests committed so far (bound only)

vars == <<now, incidents, audit, requests, sweep, updates>>

Open == "open"
Investigating == "investigating"
Acknowledged == "acknowledged"
Resolved == "resolved"
FalsePositive == "false_positive"
Escalated == "escalated"

Terminal == {Resolved, FalsePositive}
Statuses == {Open, Investigating, Acknowledged, Escalated} \cup Terminal

ValidTransitions ==
  [s \in Statuses |->
     CASE s = Open          -> {Investigating, Acknowledged, FalsePositive, Escalated}
       [] s = Investigating -> {Acknowledged, Resolved, Escalated, FalsePositive}
       [] s = Acknowledged  -> {Investigating, Resolved, Escalated}
       [] s = Escalated     -> {Investigating, Acknowledged, Resolved, FalsePositive}
       [] OTHER             -> {}]

CanTransition(current, target) == target \in ValidTransitions[current]

\* The status each analyst verdict moves the linked incident to;
\* contain_requested moves it nowhere.
FeedbackTarget ==
  [true_positive |-> Acknowledged, acknowledged |-> Acknowledged,
   resolved |-> Resolved, false_positive |-> FalsePositive,
   escalate |-> Escalated, benign |-> FalsePositive]

None == 0   \* a NULL timestamp

IdleSweep == [asOf |-> 0, pending |-> {}]

-----------------------------------------------------------------------------
(* Incidents are opened by ingest and by late enrichment (see module       *)
(* TriagePipeline); a new row is open and touched at its creation.         *)
CreatedRow(i) == [incident |-> i, actor |-> "decisions", action |-> "created",
                  before |-> Open, after |-> Open, at |-> now]

Create ==
  LET i == Cardinality(DOMAIN incidents) + 1
  IN
  /\ i <= MaxIncidents
  /\ incidents' = [j \in DOMAIN incidents \cup {i} |->
                     IF j = i THEN [status |-> Open, updatedAt |-> now,
                                    acknowledgedAt |-> None, resolvedAt |-> None]
                     ELSE incidents[j]]
  /\ audit' = Append(audit, CreatedRow(i))
  /\ UNCHANGED <<now, requests, sweep, updates>>

-----------------------------------------------------------------------------
(* Request handlers *)

\* Reading the row of an incident that may take the transition.  An unknown
\* incident (404) or an illegal transition (409, or feedback recorded without
\* effect on the incident) ends the request here, the incident untouched.  The
\* handlers read the row again before their flush; what the last of these reads
\* saw decides, and is what `from` holds.
Read(i, target) ==
  /\ requests = {}
  /\ updates < MaxUpdates
  /\ CanTransition(incidents[i].status, target)
  /\ requests' = {[incident |-> i, from |-> incidents[i].status,
                   target |-> target, at |-> now]}
  /\ UNCHANGED <<now, incidents, audit, sweep, updates>>

BeginPatch(i, target) == Read(i, target)

\* Mutant of BeginFeedback: the verdict is applied without can_transition.
BeginFeedback_Forced(i, verdict) ==
  /\ requests = {}
  /\ updates < MaxUpdates
  /\ requests' = {[incident |-> i, from |-> incidents[i].status,
                   target |-> FeedbackTarget[verdict], at |-> now]}
  /\ UNCHANGED <<now, incidents, audit, sweep, updates>>

\* plan_incident_sync: the transition a verdict asks for, if it is legal.
PlannedSync(i, verdict) ==
  {target \in {FeedbackTarget[verdict]} : CanTransition(incidents[i].status, target)}

BeginFeedback(i, verdict) == \E target \in PlannedSync(i, verdict) : Read(i, target)

ContainmentRow(i) == [incident |-> i, actor |-> "analyst", action |-> "containment_requested",
                      before |-> incidents[i].status, after |-> incidents[i].status,
                      at |-> now]

\* contain_requested: an audit row that asks for approval, no transition.
RequestContainment(i) ==
  /\ requests = {}
  /\ updates < MaxUpdates
  /\ audit' = Append(audit, ContainmentRow(i))
  /\ updates' = updates + 1
  /\ UNCHANGED <<now, incidents, requests, sweep>>

\* Mutant of Updated: resolved_at only for `resolved`.
Updated_ResolvedOnly(row, target, at) ==
  [row EXCEPT !.status = target,
              !.updatedAt = at,
              !.acknowledgedAt = IF target = Acknowledged THEN at ELSE @,
              !.resolvedAt = IF target = Resolved THEN at ELSE @]

\* The flush of update_status: UPDATE ... WHERE incident_id = :id setting the
\* columns it assigned.  The other columns, and whether the row still is what
\* was read, do not appear in the statement.
Updated(row, target, at) ==
  [row EXCEPT !.status = target,
              !.updatedAt = at,
              !.acknowledgedAt = IF target = Acknowledged THEN at ELSE @,
              !.resolvedAt = IF target \in Terminal THEN at ELSE @]

\* Mutant of StatusRows: `before` taken from the row after its update.
StatusRows_BeforeIsAfter(i, from, to, at) ==
  <<[incident |-> i, actor |-> "analyst", action |-> "status_updated",
     before |-> to, after |-> to, at |-> at]>>

\* audit_entries_for_incident_status: `before` is the status that was read.
StatusRows(i, from, to, at) ==
  LET row == [incident |-> i, actor |-> "analyst", action |-> "status_updated",
              before |-> from, after |-> to, at |-> at]
  IN  IF to = Escalated THEN <<row, [row EXCEPT !.action = "escalated"]>> ELSE <<row>>

CommitUpdate(r) ==
  /\ incidents' = [incidents EXCEPT ![r.incident] = Updated(@, r.target, r.at)]
  /\ audit' = audit \o StatusRows(r.incident, r.from, r.target, r.at)
  /\ requests' = requests \ {r}
  /\ updates' = updates + 1
  /\ UNCHANGED <<now, sweep>>

\* The database refuses the write: rolled back, 500.
AbortUpdate(r) ==
  /\ requests' = requests \ {r}
  /\ UNCHANGED <<now, incidents, audit, sweep, updates>>

-----------------------------------------------------------------------------
(* The sweeper *)

Stale(i, asOf) ==
  /\ incidents[i].status \notin Terminal
  /\ incidents[i].updatedAt <= asOf - TTL

StaleIncidents(asOf) == {i \in DOMAIN incidents : Stale(i, asOf)}

\* The order of a pass: ORDER BY updated_at, incident_id.
Before(c, d) ==
  \/ c.updatedAt < d.updatedAt
  \/ c.updatedAt = d.updatedAt /\ c.incident < d.incident

AsCandidate(i) ==
  [incident |-> i, status |-> incidents[i].status, updatedAt |-> incidents[i].updatedAt]

\* LIMIT: all of `eligible` if they are few, else the first of a full batch.
IsBatch(batch, eligible) ==
  /\ batch \subseteq eligible
  /\ Cardinality(batch) <= BatchLimit
  /\ batch = eligible \/ Cardinality(batch) = BatchLimit
  /\ \A c \in batch, d \in eligible \ batch : Before(c, d)

\* Mutant of SweepSelect: only incidents nobody has picked up are eligible.
SweepSelect_OpenOnly ==
  /\ sweep.pending = {}
  /\ LET eligible == {AsCandidate(i) : i \in {j \in StaleIncidents(now) :
                                               incidents[j].status = Open}}
     IN /\ eligible # {}
        /\ \E batch \in SUBSET eligible :
             /\ IsBatch(batch, eligible)
             /\ sweep' = [asOf |-> now, pending |-> batch]
  /\ UNCHANGED <<now, incidents, audit, requests, updates>>

\* A pass begins: as_of is read once and stamps every close of the pass.
SweepSelect ==
  /\ sweep.pending = {}
  /\ StaleIncidents(now) # {}
  /\ LET eligible == {AsCandidate(i) : i \in StaleIncidents(now)}
     IN \E batch \in SUBSET eligible :
          /\ IsBatch(batch, eligible)
          /\ sweep' = [asOf |-> now, pending |-> batch]
  /\ UNCHANGED <<now, incidents, audit, requests, updates>>

Turn(c) ==
  /\ c \in sweep.pending
  /\ \A d \in sweep.pending \ {c} : Before(c, d)

\* Mutant of StillStale: the UPDATE re-checks only that nobody closed the row.
StillStale_NotClosed(c) == incidents[c.incident].status \notin Terminal

\* The WHERE clause of the conditional UPDATE.
StillStale(c) ==
  /\ incidents[c.incident].status = c.status
  /\ incidents[c.incident].updatedAt = c.updatedAt
  /\ incidents[c.incident].updatedAt <= sweep.asOf - TTL

ClosedRow(c) == [incident |-> c.incident, actor |-> "sweeper", action |-> "auto_closed",
                 before |-> c.status, after |-> Resolved, at |-> sweep.asOf]

\* Mutant of SweepClose: updated_at from a clock of its own, not from as_of.
SweepClose_OwnClock(c) ==
  /\ Turn(c)
  /\ StillStale(c)
  /\ incidents' = [incidents EXCEPT ![c.incident].status = Resolved,
                                    ![c.incident].updatedAt = now,
                                    ![c.incident].resolvedAt = now]
  /\ audit' = Append(audit, ClosedRow(c))
  /\ sweep' = [sweep EXCEPT !.pending = @ \ {c}]
  /\ UNCHANGED <<now, requests, updates>>

\* The next candidate is closed: one conditional UPDATE and its audit row.
SweepClose(c) ==
  /\ Turn(c)
  /\ StillStale(c)
  /\ incidents' = [incidents EXCEPT ![c.incident].status = Resolved,
                                    ![c.incident].updatedAt = sweep.asOf,
                                    ![c.incident].resolvedAt = sweep.asOf]
  /\ audit' = Append(audit, ClosedRow(c))
  /\ sweep' = [sweep EXCEPT !.pending = @ \ {c}]
  /\ UNCHANGED <<now, requests, updates>>

\* The UPDATE matched no row: somebody moved the incident since the select.
SweepSkip(c) ==
  /\ Turn(c)
  /\ ~StillStale(c)
  /\ sweep' = [sweep EXCEPT !.pending = @ \ {c}]
  /\ UNCHANGED <<now, incidents, audit, requests, updates>>

\* The transaction of one candidate failed and was rolled back; the pass goes on.
SweepError(c) ==
  /\ Turn(c)
  /\ sweep' = [sweep EXCEPT !.pending = @ \ {c}]
  /\ UNCHANGED <<now, incidents, audit, requests, updates>>

-----------------------------------------------------------------------------

\* The process dies: uncommitted work is gone, the tables stay.
Restart ==
  /\ requests' = {}
  /\ sweep' = IdleSweep
  /\ UNCHANGED <<now, incidents, audit, updates>>

Tick ==
  /\ now < MaxTime
  /\ now' = now + 1
  /\ UNCHANGED <<incidents, audit, requests, sweep, updates>>

Init ==
  /\ now = 1
  /\ incidents = [i \in {} |-> 0]
  /\ audit = <<>>
  /\ requests = {}
  /\ sweep = IdleSweep
  /\ updates = 0

Sweep(c) == SweepClose(c) \/ SweepSkip(c) \/ SweepError(c)

Next ==
  \/ Create
  \/ \E i \in DOMAIN incidents : \/ \E s \in Statuses : BeginPatch(i, s)
                                 \/ \E v \in DOMAIN FeedbackTarget : BeginFeedback(i, v)
                                 \/ RequestContainment(i)
  \/ \E r \in requests : CommitUpdate(r) \/ AbortUpdate(r)
  \/ SweepSelect
  \/ \E c \in sweep.pending : Sweep(c)
  \/ Restart
  \/ Tick

\* The loop begins a pass again and again, and a pass works through its
\* candidates; a database fault or a crash does not befall an incident's close
\* for ever.
Fairness ==
  /\ WF_vars(SweepSelect)
  /\ WF_vars(\E c \in sweep.pending : Sweep(c))
  /\ \A i \in 1..MaxIncidents :
       SF_vars(\E c \in sweep.pending : c.incident = i /\ SweepClose(c))

Spec == Init /\ [][Next]_vars /\ Fairness

-----------------------------------------------------------------------------
(* Properties *)

StatusRowsOf(i) ==
  {k \in DOMAIN audit : /\ audit[k].incident = i
                        /\ audit[k].action \in {"created", "status_updated", "auto_closed"}}

Newest(rows, k) == \A m \in rows : m <= k

\* A closed incident never changes state again, says the comment of
\* VALID_TRANSITIONS.  Of the code's threads this much is true: a close by an
\* analyst is final, and an automatic close gives way only to a request that was
\* in flight when it happened, with the closed status as the one that request
\* had read (update_status, can_transition).
OnlyAutoCloseIsOverwritten ==
  [][\A i \in DOMAIN incidents :
       incidents[i].status \in Terminal /\ incidents'[i].status # incidents[i].status
         => \E r \in requests, k \in StatusRowsOf(i) :
              /\ r.incident = i
              /\ Newest(StatusRowsOf(i), k)
              /\ audit[k].actor = "sweeper"
              /\ audit[k].before = r.from]_vars

\* The newest audit row of an incident states its status and its updated_at:
\* audit and table are committed together and in the same order by both
\* threads, even when one writes over the other's status.
AuditTellsStatus ==
  \A i \in DOMAIN incidents :
    LET rows == StatusRowsOf(i)
    IN  \E k \in rows : /\ Newest(rows, k)
                        /\ audit[k].after = incidents[i].status
                        /\ audit[k].at = incidents[i].updatedAt

\* Positions j and k of the set `rows` with no other between them.
Consecutive(rows, j, k) == j < k /\ \A m \in rows : ~(j < m /\ m < k)

\* The audit rows of an incident form a chain of transitions, each beginning
\* where the one before ended, that breaks in one way only: an analyst's row
\* follows an automatic close of the very status the analyst's request had
\* read.  No row is ever overtaken by an analyst's or by the sweeper's
\* (audit_entries_for_incident_status, audit_entries_for_incident_auto_closed).
AuditChain ==
  \A i \in DOMAIN incidents :
    LET rows == StatusRowsOf(i)
    IN  \A j, k \in rows :
          Consecutive(rows, j, k) =>
            \/ audit[k].before = audit[j].after
            \/ /\ audit[j].actor = "sweeper"
               /\ audit[k].actor = "analyst"
               /\ audit[k].before = audit[j].before

\* Whatever the threads do, a closed incident shows when it was resolved and
\* an acknowledged one when it was acknowledged; and resolved_at stays behind on
\* an incident that is not closed only if its automatic close was overwritten
\* (update_status, auto_close_if_stale).
TimestampsWitnessStatus ==
  \A i \in DOMAIN incidents :
    /\ incidents[i].status \in Terminal => incidents[i].resolvedAt # None
    /\ incidents[i].status = Acknowledged => incidents[i].acknowledgedAt # None
    /\ incidents[i].resolvedAt # None /\ incidents[i].status \notin Terminal
         => \E j, k \in StatusRowsOf(i) : /\ Consecutive(StatusRowsOf(i), j, k)
                                          /\ audit[j].actor = "sweeper"

\* The sweeper closes an incident only if at that moment it is not closed and
\* its audit log shows no analyst's activity for the whole TTL, however long ago
\* the pass selected it: the manual action wins (auto_close_if_stale).
ClosesOnlyStale ==
  [][\A c \in sweep.pending :
       SweepClose(c) => /\ incidents[c.incident].status \notin Terminal
                        /\ \A k \in StatusRowsOf(c.incident) :
                             audit[k].actor # "sweeper" => audit[k].at <= now - TTL]_vars

\* An incident left alone past its TTL is eventually closed, or touched again
\* first: no batch limit, lost race, failed transaction or restart makes the
\* sweeper forget it (sweep_once, run_sweeper_loop).
StaleEventuallyClosed ==
  \A i \in 1..MaxIncidents :
    (i \in StaleIncidents(now)) ~> (i \notin StaleIncidents(now))
=============================================================================
