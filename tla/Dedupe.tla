------------------------------- MODULE Dedupe -------------------------------
(***************************************************************************)
(* Persistent alert deduplication: PersistentDeduplicator.process running  *)
(* decide_delivery over the tables alert_dedupe_groups, alert_events,      *)
(* alerts and audit_log.                                                   *)
(*                                                                         *)
(* One delivery is one step.  The transaction starts with the DELETE that  *)
(* prunes expired event records, which takes SQLite's write lock, and the  *)
(* process holds an RLock around it, so no other writer comes between its  *)
(* read and its commit.  A transaction that fails is rolled back whole and *)
(* answered 503: the tables keep their rows, a stuttering step.  Nothing   *)
(* is kept outside the tables, so a restart is a stuttering step too; a    *)
(* sender that got no answer delivers again, which any Deliver step is.    *)
(***************************************************************************)
EXTENDS Integers, Sequences, FiniteSets, Functions

CONSTANTS
  Groups,         \* rule+agent group keys (compute_group_key)
  Events,         \* source event identities (compute_event_identity)
  GroupOf,        \* the group of each event: the identity embeds rule and agent
  Fingerprints,   \* payload digests (compute_payload_fingerprint)
  Window,         \* window_seconds, in ticks
  ClockSteps,     \* moves of the wall clock that stamps received_at
  MaxTime,        \* bound of the model: the clock stays within 0..MaxTime
  MaxDeliveries   \* bound of the model: deliveries committed

ASSUME GroupOfAssumption == GroupOf \in [Events -> Groups]
ASSUME WindowAssumption == Window \in Nat \ {0}
ASSUME ClockAssumption == ClockSteps \subseteq Int
ASSUME BoundsAssumption == MaxTime \in Nat /\ MaxDeliveries \in Nat

VARIABLES
  now,      \* the wall clock read as received_at
  groups,   \* alert_dedupe_groups: a row for each group seen
  events,   \* alert_events: a row for each event still inside the window
  alerts,   \* alerts: rows keyed by alert id, never deleted
  audit     \* audit_log: the rows of the deliveries, oldest first

vars == <<now, groups, events, alerts, audit>>

GroupRow == [occurrences : Nat, generation : Nat, firstSeen : Int,
             lastSeen : Int, duplicates : Nat]

EventRow == [alert : Nat, fingerprint : Fingerprints, deliveries : Nat,
             variants : Nat, firstDelivered : Int, lastDelivered : Int]

AlertRow == [event : Events, receivedAt : Int, generation : Nat, occurrences : Nat]

Statuses == {"new_generation", "repeated", "exact_duplicate"}

AuditRow == [event : Events, alert : Nat, at : Int, status : Statuses,
             diverged : BOOLEAN]

-----------------------------------------------------------------------------
(* The tables as functions whose domain is the set of keys with a row.     *)

Put(table, key, row) ==
  [k \in DOMAIN table \cup {key} |-> IF k = key THEN row ELSE table[k]]

\* Mutants of Retained: an off-by-one at the window's edge, and a horizon that
\* does not move with re-deliveries.
Retained_OpenBoundary(g) ==
  {e \in DOMAIN events :
     GroupOf[e] = g => now - events[e].lastDelivered < Window}

Retained_FixedHorizon(g) ==
  {e \in DOMAIN events :
     GroupOf[e] = g => now - events[e].firstDelivered <= Window}

\* The event rows a delivery to group g finds after pruning: rows of other
\* groups, and rows whose last delivery is at most a window old.
Retained(g) ==
  {e \in DOMAIN events :
     GroupOf[e] = g => now - events[e].lastDelivered <= Window}

Pruned(g) == Restrict(events, Retained(g))

\* normalize_wazuh_alert draws a fresh alert id for every delivery, which an
\* exact duplicate then discards: the ordinal of the delivery stands for it.
FreshAlert == Len(audit) + 1

Logged(e, alert, status, diverged) ==
  Append(audit, [event |-> e, alert |-> alert, at |-> now, status |-> status,
                 diverged |-> diverged])

CanDeliver == Len(audit) < MaxDeliveries

-----------------------------------------------------------------------------
\* Mutants of AbsorbDuplicate: a duplicate that counts as activity of its
\* group, and one whose write path forgets the prune.
AbsorbDuplicate_ExtendsGroup(e, fingerprint) ==
  /\ CanDeliver
  /\ e \in Retained(GroupOf[e])
  /\ events' = [Pruned(GroupOf[e]) EXCEPT ![e].deliveries = @ + 1,
                                          ![e].lastDelivered = now]
  /\ groups' = [groups EXCEPT ![GroupOf[e]].duplicates = @ + 1,
                              ![GroupOf[e]].lastSeen = now]
  /\ audit' = Logged(e, events[e].alert, "exact_duplicate", FALSE)
  /\ UNCHANGED <<now, alerts>>

AbsorbDuplicate_NoPrune(e, fingerprint) ==
  /\ CanDeliver
  /\ e \in Retained(GroupOf[e])
  /\ events' = [events EXCEPT ![e].deliveries = @ + 1, ![e].lastDelivered = now]
  /\ groups' = [groups EXCEPT ![GroupOf[e]].duplicates = @ + 1]
  /\ audit' = Logged(e, events[e].alert, "exact_duplicate", FALSE)
  /\ UNCHANGED <<now, alerts>>

(* A re-delivery of an event whose record survived pruning: counted on the *)
(* record and on the group, and nothing else.  The record's horizon moves  *)
(* to this delivery, and its fingerprint becomes that of this payload.     *)
AbsorbDuplicate(e, fingerprint) ==
  LET g == GroupOf[e]
      diverged == events[e].fingerprint # fingerprint
  IN
  /\ CanDeliver
  /\ e \in Retained(g)
  /\ events' = [Pruned(g) EXCEPT ![e].deliveries = @ + 1,
                                 ![e].variants = IF diverged THEN @ + 1 ELSE @,
                                 ![e].fingerprint = fingerprint,
                                 ![e].lastDelivered = now]
  /\ groups' = [groups EXCEPT ![g].duplicates = @ + 1]
  /\ audit' = Logged(e, events[e].alert, "exact_duplicate", diverged)
  /\ UNCHANGED <<now, alerts>>

\* Mutants of RecordEvent: the alert row is not written, and an expired record
\* of the event is left in place of the new one.
RecordEvent_NoAlertRow(e, fingerprint, row, status) ==
  /\ events' = Put(Pruned(GroupOf[e]), e,
                   [alert |-> FreshAlert, fingerprint |-> fingerprint,
                    deliveries |-> 1, variants |-> 1,
                    firstDelivered |-> now, lastDelivered |-> now])
  /\ groups' = Put(groups, GroupOf[e], row)
  /\ audit' = Logged(e, FreshAlert, status, FALSE)
  /\ UNCHANGED <<now, alerts>>

(* The rows of a delivery of a distinct event: its alert, its event record *)
(* and the new recurrence state `row` of its group.                        *)
RecordEvent(e, fingerprint, row, status) ==
  /\ events' = Put(Pruned(GroupOf[e]), e,
                   [alert |-> FreshAlert, fingerprint |-> fingerprint,
                    deliveries |-> 1, variants |-> 1,
                    firstDelivered |-> now, lastDelivered |-> now])
  /\ groups' = Put(groups, GroupOf[e], row)
  /\ alerts' = Put(alerts, FreshAlert,
                   [event |-> e, receivedAt |-> now,
                    generation |-> row.generation, occurrences |-> row.occurrences])
  /\ audit' = Logged(e, FreshAlert, status, FALSE)
  /\ UNCHANGED now

\* Mutant of StartGeneration: the duplicate counter survives the reset.
StartGeneration_KeepsDuplicates(e, fingerprint) ==
  LET g == GroupOf[e]
  IN
  /\ CanDeliver
  /\ e \notin Retained(g)
  /\ g \in DOMAIN groups => now - groups[g].lastSeen > Window
  /\ RecordEvent(e, fingerprint,
                 IF g \in DOMAIN groups
                 THEN [groups[g] EXCEPT !.generation = @ + 1, !.occurrences = 1,
                                        !.firstSeen = now, !.lastSeen = now]
                 ELSE [occurrences |-> 1, generation |-> 1, firstSeen |-> now,
                       lastSeen |-> now, duplicates |-> 0],
                 "new_generation")

\* The group's first event, or a distinct event more than a window after the
\* group's last distinct one: recurrence starts over.
StartGeneration(e, fingerprint) ==
  LET g == GroupOf[e]
      previous == IF g \in DOMAIN groups THEN groups[g].generation ELSE 0
  IN
  /\ CanDeliver
  /\ e \notin Retained(g)
  /\ g \in DOMAIN groups => now - groups[g].lastSeen > Window
  /\ RecordEvent(e, fingerprint,
                 [occurrences |-> 1, generation |-> previous + 1, firstSeen |-> now,
                  lastSeen |-> now, duplicates |-> 0],
                 "new_generation")

\* A distinct event within the window of the group's last distinct one.
RecordRecurrence(e, fingerprint) ==
  LET g == GroupOf[e]
  IN
  /\ CanDeliver
  /\ e \notin Retained(g)
  /\ g \in DOMAIN groups
  /\ now - groups[g].lastSeen <= Window
  /\ RecordEvent(e, fingerprint,
                 [groups[g] EXCEPT !.occurrences = @ + 1, !.lastSeen = now],
                 "repeated")

Tick ==
  /\ \E d \in ClockSteps : now + d \in 0..MaxTime /\ now' = now + d
  /\ UNCHANGED <<groups, events, alerts, audit>>

Init ==
  /\ now = 0
  /\ groups = [g \in {} |-> 0]
  /\ events = [e \in {} |-> 0]
  /\ alerts = [a \in {} |-> 0]
  /\ audit = <<>>

Deliver(e, fingerprint) ==
  \/ AbsorbDuplicate(e, fingerprint)
  \/ StartGeneration(e, fingerprint)
  \/ RecordRecurrence(e, fingerprint)

Next ==
  \/ \E e \in Events, fingerprint \in Fingerprints : Deliver(e, fingerprint)
  \/ Tick

Spec == Init /\ [][Next]_vars

-----------------------------------------------------------------------------
(* Properties *)

\* received_at never steps back: what the window arithmetic relies on.
MonotoneClock == ClockSteps \subseteq Nat

\* Every table holds rows of its schema, and foreign keys point at rows.
TypeOK ==
  /\ now \in Int
  /\ DOMAIN groups \subseteq Groups
  /\ \A g \in DOMAIN groups : groups[g] \in GroupRow
  /\ DOMAIN events \subseteq Events
  /\ \A e \in DOMAIN events : /\ events[e] \in EventRow
                              /\ GroupOf[e] \in DOMAIN groups
                              /\ events[e].alert \in DOMAIN alerts
  /\ DOMAIN alerts \subseteq 1..Len(audit)
  /\ \A a \in DOMAIN alerts : alerts[a] \in AlertRow
  /\ audit \in Seq(AuditRow)

\* Exactly once per event and window: two alerts of one event were received
\* more than a window apart, whatever re-deliveries came in between, although
\* the record that recognises a duplicate is deleted when it expires
\* (decide_delivery, DedupeStateRepository.load_state).
SecondAlertOnlyAfterWindow ==
  \A a, b \in DOMAIN alerts :
    a < b /\ alerts[a].event = alerts[b].event
      => alerts[b].receivedAt - alerts[a].receivedAt > Window

GroupOfAlert(a) == GroupOf[alerts[a].event]

NextInGroup(a, b) ==
  /\ a < b
  /\ GroupOfAlert(a) = GroupOfAlert(b)
  /\ \A c \in DOMAIN alerts :
       ~(a < c /\ c < b /\ GroupOfAlert(c) = GroupOfAlert(a))

\* The generation and the recurrence count stamped on an alert are what its
\* predecessor in the group implies: the same run while alerts follow each
\* other within the window, a new one after a longer gap, and re-deliveries
\* in between neither extend a run nor inflate its count (decide_delivery).
GenerationsAreWindowRuns ==
  \A a, b \in DOMAIN alerts :
    NextInGroup(a, b) =>
      IF alerts[b].receivedAt - alerts[a].receivedAt > Window
      THEN /\ alerts[b].generation = alerts[a].generation + 1
           /\ alerts[b].occurrences = 1
      ELSE /\ alerts[b].generation = alerts[a].generation
           /\ alerts[b].occurrences = alerts[a].occurrences + 1

CurrentAlerts(g) ==
  {a \in DOMAIN alerts : GroupOfAlert(a) = g /\ alerts[a].generation = groups[g].generation}

DuplicatesSince(g, a) ==
  {i \in DOMAIN audit : /\ i > a
                        /\ audit[i].status = "exact_duplicate"
                        /\ GroupOf[audit[i].event] = g}

AuditedDeliveries(a) == {i \in DOMAIN audit : audit[i].alert = a}

\* The counters kept in place (occurrences, duplicate_deliveries,
\* delivery_count, content_variants) can all be recounted from the append-only
\* audit log and the alert rows: no delivery is lost or counted twice by a
\* generation reset, a prune or a re-created record.  And a record stands for
\* the newest alert of its event, so that a duplicate is never answered with an
\* older one.
CountersMatchAudit ==
  /\ \A g \in DOMAIN groups :
       \E first, last \in CurrentAlerts(g) :
         /\ \A a \in CurrentAlerts(g) : first <= a /\ a <= last
         /\ groups[g].occurrences = Cardinality(CurrentAlerts(g))
         /\ groups[g].firstSeen = alerts[first].receivedAt
         /\ groups[g].lastSeen = alerts[last].receivedAt
         /\ groups[g].duplicates = Cardinality(DuplicatesSince(g, first))
  /\ \A e \in DOMAIN events :
       LET mine == AuditedDeliveries(events[e].alert)
       IN /\ alerts[events[e].alert].event = e
          /\ \A a \in DOMAIN alerts : alerts[a].event = e => a <= events[e].alert
          /\ events[e].deliveries = Cardinality(mine)
          /\ events[e].variants = 1 + Cardinality({i \in mine : audit[i].diverged})

\* Idempotency records are bounded by the window: after a delivery to a group
\* no record of the group is older than a window at that delivery.
RetentionBounded ==
  \A e \in DOMAIN events : \A i \in DOMAIN audit :
    GroupOf[audit[i].event] = GroupOf[e]
      => audit[i].at - events[e].lastDelivered <= Window

\* The deduplicator answers every delivery as DedupeContract demands; the
\* audit log is the contract's log.
Contract == INSTANCE DedupeContract WITH log <- audit

ImplementsContract == Contract!Spec
=============================================================================
