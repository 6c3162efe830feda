-------------------------------- MODULE Desk --------------------------------
(***************************************************************************)
(* What analysts do with an incident: its number of the day, assignment,   *)
(* notes, and the export to TheHive.  All of it is kept in the audit log,  *)
(* which is read back in the order (occurred_at, id).                      *)
(*                                                                         *)
(* A request handler has no await between its reads and its commit, so     *)
(* requests are served one at a time; an export keeps the event loop while *)
(* it talks to TheHive.  Alerts are linked by the sweep's thread meanwhile.*)
(* Every call to TheHive may fail before or after it took effect there,    *)
(* and the service may be killed between any two calls.                    *)
(***************************************************************************)
EXTENDS DayNumbers, Sequences

CONSTANTS
  Indicators,   \* of the types TheHive knows
  Analysts,     \* assignees; Nobody is the absence of one
  PageSize,     \* cases one lookup lists: 201
  ClockSteps,   \* by how much the wall clock may move at once
  MaxCases,     \* bound of the model: cases in TheHive
  MaxRows,      \* bound of the model: rows of the audit log
  MaxTime       \* bound of the model: readings of the clock are below MaxTime

ASSUME PageAssumption == PageSize \in Nat \ {0}
ASSUME BoundsAssumption == MaxCases \in Nat /\ MaxRows \in Nat /\ MaxTime \in Nat

VARIABLES
  now,
  incidents,    \* numbers of the incidents of the day
  evidence,     \* incident -> indicators of its linked alerts
  audit,        \* rows of the audit log, in the order of their ids
  cases,        \* cases in TheHive, oldest first
  export,       \* the export in progress
  blind,        \* incident -> cases made after a lookup missed its cases (history)
  answers,      \* <<incident, case>> of every export answered with a case (history)
  wanted        \* incident -> assignee of the last assignment answered (history)

vars == <<now, incidents, evidence, audit, cases, export, blind, answers, wanted>>

Nobody == "nobody"
NoExport == [stage |-> "none", incident |-> 0, todo |-> {}, sent |-> {}, case |-> 0,
             missed |-> FALSE]

Row(i, action, value, at) == [incident |-> i, action |-> action, value |-> value, at |-> at]

-----------------------------------------------------------------------------
(* Incident numbers, compared as strings *)

\* Mutant of NextNumber: the oldest id of the day instead of the newest.
NextNumber_Oldest ==
  IF incidents = {} THEN 1
  ELSE 1 + CHOOSE n \in incidents : \A m \in incidents : ~Below(m, n)

\* One more than the maximum of the day's ids, 1 on a day without any.
NextNumber ==
  IF incidents = {} THEN 1
  ELSE 1 + CHOOSE n \in incidents : IsLast(n, incidents)

\* A number that is taken fails the insert, and with it the assessment.
OpenIncident ==
  /\ NextNumber \notin incidents
  /\ incidents' = incidents \cup {NextNumber}
  /\ evidence' = [i \in incidents' |-> IF i \in incidents THEN evidence[i] ELSE {}]
  /\ blind' = [i \in incidents' |-> IF i \in incidents THEN blind[i] ELSE 0]
  /\ wanted' = [i \in incidents' |-> IF i \in incidents THEN wanted[i] ELSE Nobody]
  /\ UNCHANGED <<now, audit, cases, export, answers>>

\* An alert with this indicator is linked to the incident.
Link(i, ioc) ==
  /\ ioc \notin evidence[i]
  /\ evidence' = [evidence EXCEPT ![i] = @ \cup {ioc}]
  /\ UNCHANGED <<now, incidents, audit, cases, export, blind, answers, wanted>>

-----------------------------------------------------------------------------
(* The audit log, assignment and notes *)

\* Mutant of UpTo: rows of one instant in any order.
UpTo_Unstable(k, l) ==
  audit[k].at < audit[l].at \/ (audit[k].at = audit[l].at /\ k >= l)

\* for_entity_ids: rows are read by (occurred_at, id).
UpTo(k, l) ==
  audit[k].at < audit[l].at \/ (audit[k].at = audit[l].at /\ k <= l)

RowsOf(i, action) ==
  {k \in DOMAIN audit : audit[k].incident = i /\ audit[k].action = action}

\* The value of the last row of this action, or default.
LastValue(i, action, default) ==
  LET rows == RowsOf(i, action)
  IN IF rows = {} THEN default
     ELSE audit[CHOOSE l \in rows : \A k \in rows : UpTo(k, l)].value

CurrentAssignment(i) == LastValue(i, "assigned", Nobody)

Serving == export = NoExport /\ Len(audit) < MaxRows

\* PATCH assignment: a row only when it changes something.
Assign(i, assignee) ==
  /\ Serving
  /\ audit' = IF CurrentAssignment(i) /= assignee
                THEN Append(audit, Row(i, "assigned", assignee, now)) ELSE audit
  /\ wanted' = [wanted EXCEPT ![i] = assignee]
  /\ UNCHANGED <<now, incidents, evidence, cases, export, blind, answers>>

\* POST notes: a row.
AddNote(i) ==
  /\ Serving
  /\ audit' = Append(audit, Row(i, "note", 0, now))
  /\ UNCHANGED <<now, incidents, evidence, cases, export, blind, answers, wanted>>

-----------------------------------------------------------------------------
(* Export to TheHive *)

NoCase == [case |-> 0, count |-> 0, recovered |-> FALSE]

\* The case the audit log has for the incident.
Mapping(i) == LastValue(i, "exported", NoCase).case

\* A repeated export answers with the case on record.
ExportAgain(i) ==
  /\ Serving
  /\ Mapping(i) /= 0
  /\ answers' = answers \cup {<<i, Mapping(i)>>}
  /\ UNCHANGED <<now, incidents, evidence, audit, cases, export, blind, wanted>>

\* One observable per distinct indicator of the linked alerts.
Observables(i) == evidence[i]

\* The incident, its alerts and its rows are read and the export is built.
BeginExport(i) ==
  /\ Serving
  /\ Mapping(i) = 0
  /\ export' = [NoExport EXCEPT !.stage = "lookup", !.incident = i, !.todo = Observables(i)]
  /\ UNCHANGED <<now, incidents, evidence, audit, cases, blind, answers, wanted>>

\* Cases of a page that carry the incident's tag or its id in their title.
Matches(page, i) ==
  {c \in page : Begins(i, cases[c].incident)}

\* What a lookup may list: the first PageSize cases of TheHive's order.
Pages == {page \in SUBSET DOMAIN cases :
            Cardinality(page) = Min({PageSize, Len(cases)})}

AtStage(stage) == export.stage = stage

\* The lookup finds the incident's case: the earliest is put on record, without
\* observables, and answered; or the record fails and the request with it.
Recover ==
  /\ AtStage("lookup")
  /\ \E page \in Pages :
       LET found == Matches(page, export.incident)
           case == Min(found)
           row == Row(export.incident, "exported",
                      [case |-> case, count |-> 0, recovered |-> TRUE], now)
       IN /\ found /= {}
          /\ \/ /\ audit' = Append(audit, row)
                /\ answers' = answers \cup {<<export.incident, case>>}
             \/ UNCHANGED <<audit, answers>>
  /\ export' = NoExport
  /\ UNCHANGED <<now, incidents, evidence, cases, blind, wanted>>

CasesOf(i) == {c \in DOMAIN cases : cases[c].incident = i}

\* Mutant of FindNothing: TheHive is not asked.
FindNothing_NotAsked ==
  /\ AtStage("lookup")
  /\ export' = [export EXCEPT !.stage = "create"]
  /\ UNCHANGED <<now, incidents, evidence, audit, cases, blind, answers, wanted>>

\* No listed case matches, or the lookup fails, which may happen whatever TheHive
\* holds and is not told apart: on to a new case.
FindNothing ==
  /\ AtStage("lookup")
  /\ export' = [export EXCEPT !.stage = "create", !.missed = CasesOf(export.incident) /= {}]
  /\ UNCHANGED <<now, incidents, evidence, audit, cases, blind, answers, wanted>>

\* TheHive creates the case; its answer arrives, or the export fails with the
\* case in place.
CreateCase ==
  /\ AtStage("create")
  /\ Len(cases) < MaxCases
  /\ cases' = Append(cases, [incident |-> export.incident, observables |-> {}])
  /\ export' \in {[export EXCEPT !.stage = "observables", !.case = Len(cases) + 1], NoExport}
  /\ blind' = [blind EXCEPT ![export.incident] = @ + (IF export.missed THEN 1 ELSE 0)]
  /\ UNCHANGED <<now, incidents, evidence, audit, answers, wanted>>

\* Mutant of AddObservable: a failed observable is skipped and counted.
AddObservable_Skips ==
  /\ AtStage("observables")
  /\ \E ioc \in export.todo :
       /\ cases' \in {cases, [cases EXCEPT ![export.case].observables = @ \cup {ioc}]}
       /\ export' = [export EXCEPT !.todo = @ \ {ioc}, !.sent = @ \cup {ioc}]
  /\ UNCHANGED <<now, incidents, evidence, audit, blind, answers, wanted>>

\* The next observable is added; its answer arrives, or the export fails.
AddObservable ==
  /\ AtStage("observables")
  /\ \E ioc \in export.todo :
       /\ cases' = [cases EXCEPT ![export.case].observables = @ \cup {ioc}]
       /\ export' \in {[export EXCEPT !.todo = @ \ {ioc}, !.sent = @ \cup {ioc}], NoExport}
  /\ UNCHANGED <<now, incidents, evidence, audit, blind, answers, wanted>>

\* Mutant of CommitExport: answered although the row was not written.
CommitExport_BestEffort ==
  /\ AtStage("observables") /\ export.todo = {}
  /\ audit' \in {audit, Append(audit, Row(export.incident, "exported",
                     [case |-> export.case, count |-> Cardinality(export.sent),
                      recovered |-> FALSE], now))}
  /\ answers' = answers \cup {<<export.incident, export.case>>}
  /\ export' = NoExport
  /\ UNCHANGED <<now, incidents, evidence, cases, blind, wanted>>

\* Every observable is in place: the case goes on record and is answered.
CommitExport ==
  /\ AtStage("observables") /\ export.todo = {}
  /\ audit' = Append(audit, Row(export.incident, "exported",
                     [case |-> export.case, count |-> Cardinality(export.sent),
                      recovered |-> FALSE], now))
  /\ answers' = answers \cup {<<export.incident, export.case>>}
  /\ export' = NoExport
  /\ UNCHANGED <<now, incidents, evidence, cases, blind, wanted>>

\* A call that never reached TheHive, a commit that failed, or the process
\* killed: the transaction is rolled back, what TheHive has stays.
AbandonExport ==
  /\ export /= NoExport
  /\ export' = NoExport
  /\ UNCHANGED <<now, incidents, evidence, audit, cases, blind, answers, wanted>>

Tick == /\ \E d \in ClockSteps : now + d \in 0..(MaxTime - 1) /\ now' = now + d
        /\ UNCHANGED <<incidents, evidence, audit, cases, export, blind, answers, wanted>>

-----------------------------------------------------------------------------
Init == /\ now = 1
        /\ incidents = {}
        /\ evidence = <<>>
        /\ audit = <<>>
        /\ cases = <<>>
        /\ export = NoExport
        /\ blind = <<>>
        /\ answers = {}
        /\ wanted = <<>>

Exporting == \/ Recover
             \/ FindNothing
             \/ CreateCase
             \/ AddObservable
             \/ CommitExport
             \/ AbandonExport

Next == \/ OpenIncident
        \/ \E i \in incidents : \/ \E ioc \in Indicators : Link(i, ioc)
                                \/ \E a \in Analysts \cup {Nobody} : Assign(i, a)
                                \/ AddNote(i)
                                \/ ExportAgain(i)
                                \/ BeginExport(i)
        \/ Exporting
        \/ Tick

Spec == Init /\ [][Next]_vars

-----------------------------------------------------------------------------
(* Properties *)

\* Until the numbers outgrow their padding, opening an incident never meets a
\* number that is taken (IncidentRepository._next_id).
NumbersStayFresh == (\A n \in incidents : Fits(n)) => NextNumber \notin incidents

\* However often an export fails and is repeated, an incident has one case in
\* TheHive, and one more for each lookup that did not see the cases it had
\* (export_incident_to_thehive, _find_existing_case).
CasesAccountedFor == \A i \in incidents : Cardinality(CasesOf(i)) <= 1 + blind[i]

\* Every export of an incident that answers with a case answers with the same
\* one, although lookups see different pages and exports fail half way; the
\* case is the incident's own while the numbers fit their padding
\* (_existing_case_mapping, find_case_by_incident).
ExportsAgree ==
  /\ \A x, y \in answers : x[1] = y[1] => x = y
  /\ (\A n \in incidents : Fits(n)) => \A x \in answers : cases[x[2]].incident = x[1]

\* A case on record as created, not recovered, holds as many observables as
\* its row says: no export that lost one of them is reported as a success
\* (export_incident_to_thehive).
CountsAreTrue ==
  \A k \in DOMAIN audit :
    audit[k].action = "exported" /\ ~audit[k].value.recovered =>
      Cardinality(cases[audit[k].value.case].observables) = audit[k].value.count

\* As long as the clock does not step back between two writes, the assignee
\* shown is the one last asked for, rows of one instant included
\* (_current_assignment over AuditRepository.for_entity_ids).
AssignmentsTakeEffect ==
  (\A k, l \in DOMAIN audit : k < l => audit[k].at <= audit[l].at)
    => \A i \in incidents : CurrentAssignment(i) = wanted[i]
=============================================================================
