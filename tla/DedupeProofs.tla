---------------------------- MODULE DedupeProofs ----------------------------
(***************************************************************************)
(* Proofs about Dedupe, for every set of events and groups, every window   *)
(* and every bound.  Under any clock: type correctness, referential        *)
(* integrity, generations that follow the gaps between alerts, counters    *)
(* that a recount of the log gives.  When the clock never steps back: one  *)
(* alert per event and window, records no older than a window, and the     *)
(* implementation of DedupeContract.                                       *)
(***************************************************************************)
EXTENDS Dedupe, FiniteSetTheorems, TLAPS

(* The event rows that a prune keeps, unchanged. *)
LEMMA PrunedRows ==
  ASSUME NEW g
  PROVE  /\ DOMAIN Pruned(g) = Retained(g)
         /\ Retained(g) \subseteq DOMAIN events
         /\ \A e \in Retained(g) : Pruned(g)[e] = events[e]
BY DEF Pruned, Retained, Restrict

-----------------------------------------------------------------------------
(* Rows updated in place stay rows of their table.  SMT takes one EXCEPT   *)
(* at a time.                                                              *)

LEMMA RecurredRow ==
  ASSUME NEW row \in GroupRow, NEW t \in Int
  PROVE  [row EXCEPT !.occurrences = @ + 1, !.lastSeen = t] \in GroupRow
<1> DEFINE counted == [row EXCEPT !.occurrences = @ + 1]
<1>1. counted \in GroupRow
  BY DEF GroupRow
<1>2. [counted EXCEPT !.lastSeen = t] \in GroupRow
  <2> HIDE DEF counted
  <2> QED BY <1>1 DEF GroupRow
<1>3. [row EXCEPT !.occurrences = @ + 1, !.lastSeen = t] = [counted EXCEPT !.lastSeen = t]
  OBVIOUS
<1> QED
  BY <1>2, <1>3, Zenon

AbsorbedRow(row, f, t) ==
  [row EXCEPT !.deliveries = @ + 1,
              !.variants = IF row.fingerprint # f THEN @ + 1 ELSE @,
              !.fingerprint = f,
              !.lastDelivered = t]

LEMMA AbsorbedRowType ==
  ASSUME NEW row \in EventRow, NEW f \in Fingerprints, NEW t \in Int
  PROVE  /\ AbsorbedRow(row, f, t) \in EventRow
         /\ AbsorbedRow(row, f, t).alert = row.alert
         /\ AbsorbedRow(row, f, t).firstDelivered = row.firstDelivered
         /\ AbsorbedRow(row, f, t).lastDelivered = t
<1> DEFINE v == IF row.fingerprint # f THEN row.variants + 1 ELSE row.variants
<1> DEFINE r1 == [row EXCEPT !.deliveries = @ + 1]
<1> DEFINE r2 == [r1 EXCEPT !.variants = v]
<1> DEFINE r3 == [r2 EXCEPT !.fingerprint = f]
<1> DEFINE r4 == [r3 EXCEPT !.lastDelivered = t]
<1>0. v \in Nat
  BY DEF EventRow
<1>1. AbsorbedRow(row, f, t) = r4
  BY DEF AbsorbedRow
<1> HIDE DEF v
<1>2. r1 \in EventRow /\ r1.alert = row.alert /\ r1.firstDelivered = row.firstDelivered
  BY DEF EventRow
<1> HIDE DEF r1
<1>3. r2 \in EventRow /\ r2.alert = row.alert /\ r2.firstDelivered = row.firstDelivered
  BY <1>0, <1>2 DEF EventRow
<1> HIDE DEF r2
<1>4. r3 \in EventRow /\ r3.alert = row.alert /\ r3.firstDelivered = row.firstDelivered
  BY <1>3 DEF EventRow
<1> HIDE DEF r3
<1>5. /\ r4 \in EventRow /\ r4.alert = row.alert /\ r4.firstDelivered = row.firstDelivered
      /\ r4.lastDelivered = t
  BY <1>4 DEF EventRow
<1> HIDE DEF r4
<1> QED
  BY <1>1, <1>5

-----------------------------------------------------------------------------
(* Type correctness. *)

LEMMA AuditRows ==
  ASSUME TypeOK, NEW i \in DOMAIN audit
  PROVE  audit[i].event \in Events /\ audit[i].at \in Int /\ audit[i].alert \in Nat
<1>1. audit[i] \in AuditRow
  BY DEF TypeOK
<1> QED
  BY <1>1 DEF AuditRow

LEMMA LoggedType ==
  ASSUME TypeOK, NEW e \in Events, NEW a \in Nat, NEW status \in Statuses,
         NEW diverged \in BOOLEAN
  PROVE  /\ Logged(e, a, status, diverged) \in Seq(AuditRow)
         /\ Len(Logged(e, a, status, diverged)) = Len(audit) + 1
BY DEF TypeOK, Logged, AuditRow

(* The rows that a delivery of a distinct event writes are well typed. *)
LEMMA RecordEventType ==
  ASSUME TypeOK, NEW e \in Events, NEW f \in Fingerprints,
         NEW row \in GroupRow, NEW status \in Statuses,
         RecordEvent(e, f, row, status)
  PROVE  TypeOK'
<1> DEFINE a == FreshAlert
<1> DEFINE eventRow == [alert |-> a, fingerprint |-> f, deliveries |-> 1,
                        variants |-> 1, firstDelivered |-> now, lastDelivered |-> now]
<1> DEFINE alertRow == [event |-> e, receivedAt |-> now, generation |-> row.generation,
                        occurrences |-> row.occurrences]
<1>1. a \in Nat /\ a = Len(audit) + 1 /\ Len(audit) \in Nat
  BY DEF TypeOK, FreshAlert
<1>2. eventRow \in EventRow /\ alertRow \in AlertRow
  BY <1>1 DEF TypeOK, EventRow, AlertRow, GroupRow
<1>3. audit' \in Seq(AuditRow) /\ Len(audit') = Len(audit) + 1
  BY <1>1, LoggedType DEF RecordEvent
<1>4. GroupOf[e] \in Groups
  BY GroupOfAssumption
<1>5. /\ DOMAIN groups' = DOMAIN groups \cup {GroupOf[e]}
      /\ groups'[GroupOf[e]] = row
      /\ \A g \in DOMAIN groups : g # GroupOf[e] => groups'[g] = groups[g]
  BY DEF RecordEvent, Put
<1>6. /\ DOMAIN events' = Retained(GroupOf[e]) \cup {e}
      /\ events'[e] = eventRow
      /\ \A x \in Retained(GroupOf[e]) : x # e => events'[x] = events[x]
  BY PrunedRows DEF RecordEvent, Put
<1>7. /\ DOMAIN alerts' = DOMAIN alerts \cup {a}
      /\ alerts'[a] = alertRow
      /\ \A b \in DOMAIN alerts : b # a => alerts'[b] = alerts[b]
  BY DEF RecordEvent, Put
<1> HIDE DEF a, eventRow, alertRow
<1>8. DOMAIN groups' \subseteq Groups /\ \A g \in DOMAIN groups' : groups'[g] \in GroupRow
  BY <1>4, <1>5 DEF TypeOK
<1>9. /\ DOMAIN events' \subseteq Events
      /\ \A x \in DOMAIN events' : /\ events'[x] \in EventRow
                                   /\ GroupOf[x] \in DOMAIN groups'
                                   /\ events'[x].alert \in DOMAIN alerts'
  <2>1. eventRow.alert = a
    BY DEF eventRow
  <2> QED BY <1>2, <1>5, <1>6, <1>7, <2>1, PrunedRows DEF TypeOK
<1>10. /\ DOMAIN alerts' \subseteq 1..Len(audit')
       /\ \A b \in DOMAIN alerts' : alerts'[b] \in AlertRow
  BY <1>1, <1>2, <1>3, <1>7 DEF TypeOK
<1>11. now' \in Int
  BY DEF TypeOK, RecordEvent
<1> QED
  BY <1>3, <1>8, <1>9, <1>10, <1>11 DEF TypeOK

(* A duplicate rewrites one event row and one counter, in place. *)
LEMMA AbsorbDuplicateRows ==
  ASSUME TypeOK, NEW e \in Events, NEW f \in Fingerprints, AbsorbDuplicate(e, f)
  PROVE  /\ e \in DOMAIN events /\ e \in Retained(GroupOf[e])
         /\ DOMAIN events' = Retained(GroupOf[e])
         /\ \A x \in DOMAIN events' : x # e => events'[x] = events[x]
         /\ events'[e] \in EventRow
         /\ events'[e].alert = events[e].alert
         /\ events'[e].lastDelivered = now
         /\ DOMAIN groups' = DOMAIN groups
         /\ \A g \in DOMAIN groups : /\ groups'[g] \in GroupRow
                                     /\ groups'[g].lastSeen = groups[g].lastSeen
<1> DEFINE row == AbsorbedRow(events[e], f, now)
<1>1. e \in Retained(GroupOf[e]) /\ e \in DOMAIN events
  BY PrunedRows DEF AbsorbDuplicate
<1>2. events' = [Pruned(GroupOf[e]) EXCEPT ![e] = row]
  BY <1>1, PrunedRows DEF AbsorbDuplicate, AbsorbedRow
<1>3. /\ events[e] \in EventRow /\ now \in Int
  BY <1>1 DEF TypeOK
<1>4. /\ row \in EventRow
      /\ row.alert = events[e].alert
      /\ row.lastDelivered = now
  BY <1>3, AbsorbedRowType
<1>5. /\ DOMAIN groups' = DOMAIN groups
      /\ \A g \in DOMAIN groups : /\ groups'[g] \in GroupRow
                                  /\ groups'[g].lastSeen = groups[g].lastSeen
  <2>1. groups' = [groups EXCEPT ![GroupOf[e]].duplicates = @ + 1]
    BY DEF AbsorbDuplicate
  <2>2. \A g \in DOMAIN groups : groups[g] \in GroupRow
    BY DEF TypeOK
  <2> QED BY <2>1, <2>2 DEF GroupRow
<1> HIDE DEF row
<1>6. /\ DOMAIN events' = Retained(GroupOf[e])
      /\ events'[e] = row
      /\ \A x \in DOMAIN events' : x # e => events'[x] = events[x]
  BY <1>1, <1>2, PrunedRows
<1> QED
  BY <1>1, <1>4, <1>5, <1>6

LEMMA AbsorbDuplicateType ==
  ASSUME TypeOK, NEW e \in Events, NEW f \in Fingerprints, AbsorbDuplicate(e, f)
  PROVE  TypeOK'
<1>1. audit' \in Seq(AuditRow) /\ Len(audit') = Len(audit) + 1
  <2>1. events[e].alert \in Nat
    BY AbsorbDuplicateRows DEF TypeOK, EventRow
  <2>2. (events[e].fingerprint # f) \in BOOLEAN /\ "exact_duplicate" \in Statuses
    BY DEF Statuses
  <2>3. audit' = Logged(e, events[e].alert, "exact_duplicate", events[e].fingerprint # f)
    BY DEF AbsorbDuplicate
  <2> QED BY <2>1, <2>2, <2>3, LoggedType
<1>2. alerts' = alerts /\ now' = now
  BY DEF AbsorbDuplicate
<1>3. DOMAIN groups' \subseteq Groups /\ \A g \in DOMAIN groups' : groups'[g] \in GroupRow
  BY AbsorbDuplicateRows DEF TypeOK
<1>4. /\ DOMAIN events' \subseteq Events
      /\ \A x \in DOMAIN events' : /\ events'[x] \in EventRow
                                   /\ GroupOf[x] \in DOMAIN groups'
                                   /\ events'[x].alert \in DOMAIN alerts'
  BY <1>2, AbsorbDuplicateRows, PrunedRows DEF TypeOK
<1>5. DOMAIN alerts' \subseteq 1..Len(audit')
  BY <1>1, <1>2 DEF TypeOK
<1> QED
  BY <1>1, <1>2, <1>3, <1>4, <1>5 DEF TypeOK

LEMMA DeliverType ==
  ASSUME TypeOK, NEW e \in Events, NEW f \in Fingerprints, Deliver(e, f)
  PROVE  TypeOK'
<1>1. CASE AbsorbDuplicate(e, f)
  BY <1>1, AbsorbDuplicateType
<1>2. CASE StartGeneration(e, f)
  <2> DEFINE g == GroupOf[e]
  <2> DEFINE previous == IF g \in DOMAIN groups THEN groups[g].generation ELSE 0
  <2> DEFINE row == [occurrences |-> 1, generation |-> previous + 1, firstSeen |-> now,
                     lastSeen |-> now, duplicates |-> 0]
  <2>1. previous \in Nat
    BY DEF TypeOK, GroupRow
  <2>2. row \in GroupRow
    BY <2>1 DEF TypeOK, GroupRow
  <2>3. "new_generation" \in Statuses
    BY DEF Statuses
  <2>4. RecordEvent(e, f, row, "new_generation")
    BY <1>2 DEF StartGeneration
  <2> QED BY <2>2, <2>3, <2>4, RecordEventType
<1>3. CASE RecordRecurrence(e, f)
  <2> DEFINE row == [groups[GroupOf[e]] EXCEPT !.occurrences = @ + 1, !.lastSeen = now]
  <2>1. GroupOf[e] \in DOMAIN groups
    BY <1>3 DEF RecordRecurrence
  <2>2. row \in GroupRow
    <3>1. groups[GroupOf[e]] \in GroupRow /\ now \in Int
      BY <2>1 DEF TypeOK
    <3> QED BY <3>1, RecurredRow
  <2>3. "repeated" \in Statuses
    BY DEF Statuses
  <2>4. RecordEvent(e, f, row, "repeated")
    BY <1>3 DEF RecordRecurrence
  <2> QED BY <2>2, <2>3, <2>4, RecordEventType
<1> QED
  BY <1>1, <1>2, <1>3 DEF Deliver

(* Every table keeps to its schema and every foreign key points at a row,  *)
(* whatever is delivered and however the clock moves.                      *)
THEOREM TypeCorrect == Spec => []TypeOK
<1>1. Init => TypeOK
  BY DEF Init, TypeOK
<1>2. TypeOK /\ [Next]_vars => TypeOK'
  <2> SUFFICES ASSUME TypeOK, [Next]_vars
               PROVE  TypeOK'
    OBVIOUS
  <2>1. ASSUME NEW e \in Events, NEW f \in Fingerprints, Deliver(e, f)
        PROVE  TypeOK'
    BY <2>1, DeliverType
  <2>2. CASE Tick
    BY <2>2, ClockAssumption DEF TypeOK, Tick
  <2>3. CASE UNCHANGED vars
    BY <2>3 DEF TypeOK, vars
  <2> QED BY <2>1, <2>2, <2>3 DEF Next
<1> QED
  BY <1>1, <1>2, PTL DEF Spec

-----------------------------------------------------------------------------
(* Under a monotone clock the tables remember enough of the past: what the *)
(* prune deletes can no longer matter.                                     *)

\* A delivery of event e at time t is still visible in its record, or is
\* already out of every later window.
Covered(e, t) ==
  IF e \in DOMAIN events THEN t <= events[e].lastDelivered ELSE now - t > Window

RecordsNotInFuture == \A e \in DOMAIN events : events[e].lastDelivered <= now

AlertsCovered == \A a \in DOMAIN alerts : Covered(alerts[a].event, alerts[a].receivedAt)

AuditCovered == \A i \in DOMAIN audit : Covered(audit[i].event, audit[i].at)

\* Each record repeats the last delivery of its event.
RecordsBacked ==
  \A e \in DOMAIN events : \E i \in DOMAIN audit :
    /\ audit[i].event = e
    /\ audit[i].at = events[e].lastDelivered
    /\ audit[i].alert = events[e].alert

\* Each group row repeats the time of its last distinct event.
GroupsBacked ==
  /\ \A i \in DOMAIN audit :
       audit[i].status # "exact_duplicate" =>
         /\ GroupOf[audit[i].event] \in DOMAIN groups
         /\ audit[i].at <= groups[GroupOf[audit[i].event]].lastSeen
  /\ \A g \in DOMAIN groups : \E i \in DOMAIN audit :
       /\ GroupOf[audit[i].event] = g
       /\ audit[i].status # "exact_duplicate"
       /\ audit[i].at = groups[g].lastSeen

Remembered ==
  /\ TypeOK
  /\ RecordsNotInFuture
  /\ AlertsCovered
  /\ AuditCovered
  /\ RecordsBacked
  /\ GroupsBacked

(* What every delivery does, whatever its outcome. *)
LEMMA DeliverEffect ==
  ASSUME TypeOK, NEW e \in Events, NEW f \in Fingerprints, Deliver(e, f)
  PROVE  /\ now' = now
         /\ DOMAIN events' = Retained(GroupOf[e]) \cup {e}
         /\ events'[e].lastDelivered = now
         /\ \A x \in Retained(GroupOf[e]) : x # e => events'[x] = events[x]
         /\ DOMAIN audit' = DOMAIN audit \cup {Len(audit) + 1}
         /\ \A i \in DOMAIN audit : audit'[i] = audit[i]
         /\ Len(audit) + 1 \notin DOMAIN audit
         /\ audit'[Len(audit) + 1].event = e
         /\ audit'[Len(audit) + 1].at = now
         /\ audit'[Len(audit) + 1].alert = events'[e].alert
<1>1. ASSUME NEW a, NEW status, NEW diverged,
             audit' = Logged(e, a, status, diverged)
      PROVE  /\ DOMAIN audit' = DOMAIN audit \cup {Len(audit) + 1}
             /\ \A i \in DOMAIN audit : audit'[i] = audit[i]
             /\ Len(audit) + 1 \notin DOMAIN audit
             /\ audit'[Len(audit) + 1].event = e
             /\ audit'[Len(audit) + 1].at = now
             /\ audit'[Len(audit) + 1].alert = a
  BY <1>1 DEF Logged, TypeOK
<1>2. CASE AbsorbDuplicate(e, f)
  <2>1. audit' = Logged(e, events[e].alert, "exact_duplicate", events[e].fingerprint # f)
    BY <1>2 DEF AbsorbDuplicate
  <2>2. now' = now
    BY <1>2 DEF AbsorbDuplicate
  <2>3. /\ DOMAIN audit' = DOMAIN audit \cup {Len(audit) + 1}
        /\ \A i \in DOMAIN audit : audit'[i] = audit[i]
        /\ Len(audit) + 1 \notin DOMAIN audit
        /\ audit'[Len(audit) + 1].event = e
        /\ audit'[Len(audit) + 1].at = now
        /\ audit'[Len(audit) + 1].alert = events[e].alert
    BY <1>1, <2>1
  <2> QED BY <1>2, <2>2, <2>3, AbsorbDuplicateRows
<1>3. ASSUME NEW row, NEW status, RecordEvent(e, f, row, status)
      PROVE  /\ now' = now
             /\ DOMAIN events' = Retained(GroupOf[e]) \cup {e}
             /\ events'[e].lastDelivered = now
             /\ events'[e].alert = FreshAlert
             /\ \A x \in Retained(GroupOf[e]) : x # e => events'[x] = events[x]
             /\ audit' = Logged(e, FreshAlert, status, FALSE)
  BY <1>3, PrunedRows DEF RecordEvent, Put
<1>4. ASSUME NEW row, NEW status, RecordEvent(e, f, row, status)
      PROVE  /\ DOMAIN audit' = DOMAIN audit \cup {Len(audit) + 1}
             /\ \A i \in DOMAIN audit : audit'[i] = audit[i]
             /\ Len(audit) + 1 \notin DOMAIN audit
             /\ audit'[Len(audit) + 1].event = e
             /\ audit'[Len(audit) + 1].at = now
             /\ audit'[Len(audit) + 1].alert = events'[e].alert
  <2>1. audit' = Logged(e, FreshAlert, status, FALSE) /\ events'[e].alert = FreshAlert
    BY <1>3, <1>4
  <2> QED BY <1>1, <2>1
<1>5. CASE StartGeneration(e, f)
  <2>1. PICK row, status : RecordEvent(e, f, row, status)
    BY <1>5 DEF StartGeneration
  <2> QED BY <1>3, <1>4, <2>1
<1>6. CASE RecordRecurrence(e, f)
  <2>1. PICK row, status : RecordEvent(e, f, row, status)
    BY <1>6 DEF RecordRecurrence
  <2> QED BY <1>3, <1>4, <2>1
<1> QED
  BY <1>2, <1>5, <1>6 DEF Deliver

LEMMA DeliverAlerts ==
  ASSUME NEW e \in Events, NEW f \in Fingerprints, Deliver(e, f),
         NEW a \in DOMAIN alerts'
  PROVE  \/ a \in DOMAIN alerts /\ alerts'[a] = alerts[a]
         \/ /\ a = FreshAlert
            /\ alerts'[a].event = e
            /\ alerts'[a].receivedAt = now
            /\ e \notin Retained(GroupOf[e])
<1>1. CASE AbsorbDuplicate(e, f)
  BY <1>1 DEF AbsorbDuplicate
<1>2. ASSUME NEW row, NEW status, RecordEvent(e, f, row, status)
      PROVE  \/ a \in DOMAIN alerts /\ alerts'[a] = alerts[a]
             \/ /\ a = FreshAlert
                /\ alerts'[a].event = e
                /\ alerts'[a].receivedAt = now
  BY <1>2 DEF RecordEvent, Put
<1>3. CASE StartGeneration(e, f)
  <2>1. PICK row, status : RecordEvent(e, f, row, status)
    BY <1>3 DEF StartGeneration
  <2> QED BY <1>2, <1>3, <2>1 DEF StartGeneration
<1>4. CASE RecordRecurrence(e, f)
  <2>1. PICK row, status : RecordEvent(e, f, row, status)
    BY <1>4 DEF RecordRecurrence
  <2> QED BY <1>2, <1>4, <2>1 DEF RecordRecurrence
<1> QED
  BY <1>1, <1>3, <1>4 DEF Deliver

(* The prune of a delivery, and the record it writes, keep every past      *)
(* delivery covered.                                                       *)
LEMMA DeliverCovers ==
  ASSUME TypeOK, RecordsNotInFuture, NEW e \in Events, NEW f \in Fingerprints,
         Deliver(e, f), NEW x \in Events, NEW t \in Int, Covered(x, t)
  PROVE  Covered(x, t)'
<1>1. /\ now \in Int /\ Window \in Nat
      /\ \A y \in DOMAIN events : events[y].lastDelivered \in Int
  BY WindowAssumption DEF TypeOK, EventRow
<1>2. t <= now
  BY <1>1 DEF Covered, RecordsNotInFuture
<1>3. CASE x = e
  BY <1>2, <1>3, DeliverEffect DEF Covered
<1>4. CASE x # e /\ x \in Retained(GroupOf[e])
  BY <1>4, DeliverEffect, PrunedRows DEF Covered
<1>5. CASE x # e /\ x \notin Retained(GroupOf[e])
  <2>1. x \notin DOMAIN events' /\ now' = now
    BY <1>5, DeliverEffect
  <2>2. now - t > Window
    BY <1>1, <1>5 DEF Covered, Retained
  <2> QED BY <2>1, <2>2 DEF Covered
<1> QED
  BY <1>3, <1>4, <1>5

(* The group row after a delivery: time stands still for a duplicate, and  *)
(* a distinct event is the group's last.                                   *)
LEMMA DeliverGroups ==
  ASSUME Remembered, NEW e \in Events, NEW f \in Fingerprints, Deliver(e, f)
  PROVE  GroupsBacked'
<1> DEFINE n == Len(audit) + 1
<1>1. /\ TypeOK /\ GroupsBacked
      /\ DOMAIN audit' = DOMAIN audit \cup {n}
      /\ \A i \in DOMAIN audit : audit'[i] = audit[i]
      /\ audit'[n].event = e
      /\ audit'[n].at = now
  BY DeliverEffect DEF Remembered
<1>2. /\ now \in Int
      /\ \A g \in DOMAIN groups : groups[g].lastSeen \in Int
      /\ \A i \in DOMAIN audit : audit[i].at \in Int /\ audit[i].event \in Events
  BY <1>1, AuditRows DEF TypeOK, GroupRow
<1>3. \A i \in DOMAIN audit : audit[i].at <= now
  <2> SUFFICES ASSUME NEW i \in DOMAIN audit
               PROVE  audit[i].at <= now
    OBVIOUS
  <2>1. Covered(audit[i].event, audit[i].at)
    BY DEF Remembered, AuditCovered
  <2>2. \A y \in DOMAIN events : events[y].lastDelivered \in Int /\ events[y].lastDelivered <= now
    BY DEF Remembered, RecordsNotInFuture, TypeOK, EventRow
  <2> QED BY <1>2, <2>1, <2>2, WindowAssumption DEF Covered
<1>4. CASE AbsorbDuplicate(e, f)
  <2>1. audit'[n].status = "exact_duplicate"
    BY <1>1, <1>4 DEF AbsorbDuplicate, Logged, TypeOK
  <2>2. /\ DOMAIN groups' = DOMAIN groups
        /\ \A g \in DOMAIN groups : groups'[g].lastSeen = groups[g].lastSeen
    BY <1>1, <1>4, AbsorbDuplicateRows
  <2> HIDE DEF n
  <2>3. ASSUME NEW i \in DOMAIN audit', audit'[i].status # "exact_duplicate"
        PROVE  /\ GroupOf[audit'[i].event] \in DOMAIN groups'
               /\ audit'[i].at <= groups'[GroupOf[audit'[i].event]].lastSeen
    BY <1>1, <2>1, <2>2, <2>3 DEF GroupsBacked
  <2>4. ASSUME NEW g \in DOMAIN groups'
        PROVE  \E i \in DOMAIN audit' : /\ GroupOf[audit'[i].event] = g
                                        /\ audit'[i].status # "exact_duplicate"
                                        /\ audit'[i].at = groups'[g].lastSeen
    <3>1. g \in DOMAIN groups /\ groups'[g].lastSeen = groups[g].lastSeen
      BY <2>2, <2>4
    <3>2. PICK i \in DOMAIN audit : /\ GroupOf[audit[i].event] = g
                                    /\ audit[i].status # "exact_duplicate"
                                    /\ audit[i].at = groups[g].lastSeen
      BY <1>1, <3>1 DEF GroupsBacked
    <3> QED BY <1>1, <3>1, <3>2
  <2> QED BY <2>3, <2>4 DEF GroupsBacked
<1>5. ASSUME NEW row, NEW status, row.lastSeen = now, status # "exact_duplicate",
             RecordEvent(e, f, row, status)
      PROVE  GroupsBacked'
  <2>1. audit'[n].status = status
    BY <1>1, <1>5 DEF RecordEvent, Logged, TypeOK
  <2>2. /\ DOMAIN groups' = DOMAIN groups \cup {GroupOf[e]}
        /\ groups'[GroupOf[e]].lastSeen = now
        /\ \A g \in DOMAIN groups : g # GroupOf[e] => groups'[g] = groups[g]
    BY <1>5 DEF RecordEvent, Put
  <2> HIDE DEF n
  <2>3. ASSUME NEW i \in DOMAIN audit', audit'[i].status # "exact_duplicate"
        PROVE  /\ GroupOf[audit'[i].event] \in DOMAIN groups'
               /\ audit'[i].at <= groups'[GroupOf[audit'[i].event]].lastSeen
    <3>1. CASE i = n
      BY <1>1, <1>2, <2>2, <3>1
    <3>2. CASE i \in DOMAIN audit
      <4>1. /\ GroupOf[audit[i].event] \in DOMAIN groups
            /\ audit[i].at <= groups[GroupOf[audit[i].event]].lastSeen
            /\ audit'[i] = audit[i]
        BY <1>1, <2>3, <3>2 DEF GroupsBacked
      <4> QED BY <1>2, <1>3, <2>2, <3>2, <4>1
    <3> QED BY <1>1, <3>1, <3>2
  <2>4. ASSUME NEW g \in DOMAIN groups'
        PROVE  \E i \in DOMAIN audit' : /\ GroupOf[audit'[i].event] = g
                                        /\ audit'[i].status # "exact_duplicate"
                                        /\ audit'[i].at = groups'[g].lastSeen
    <3>1. CASE g = GroupOf[e]
      BY <1>1, <1>5, <2>1, <2>2, <3>1
    <3>2. CASE g # GroupOf[e]
      <4>1. g \in DOMAIN groups /\ groups'[g] = groups[g]
        BY <2>2, <3>2
      <4>2. PICK i \in DOMAIN audit : /\ GroupOf[audit[i].event] = g
                                      /\ audit[i].status # "exact_duplicate"
                                      /\ audit[i].at = groups[g].lastSeen
        BY <1>1, <4>1 DEF GroupsBacked
      <4> QED BY <1>1, <4>1, <4>2
    <3> QED BY <3>1, <3>2
  <2> QED BY <2>3, <2>4 DEF GroupsBacked
<1>6. CASE StartGeneration(e, f)
  <2>1. PICK row, status : /\ RecordEvent(e, f, row, status)
                           /\ row.lastSeen = now
                           /\ status # "exact_duplicate"
    BY <1>6 DEF StartGeneration
  <2> QED BY <1>5, <2>1
<1>7. CASE RecordRecurrence(e, f)
  <2> DEFINE row == [groups[GroupOf[e]] EXCEPT !.occurrences = @ + 1, !.lastSeen = now]
  <2>1. RecordEvent(e, f, row, "repeated")
    BY <1>7 DEF RecordRecurrence
  <2>2. row.lastSeen = now
    <3>1. groups[GroupOf[e]] \in GroupRow
      BY <1>1, <1>7 DEF TypeOK, RecordRecurrence
    <3> QED BY <3>1 DEF GroupRow
  <2> HIDE DEF row
  <2> QED BY <1>5, <2>1, <2>2
<1> QED
  BY <1>4, <1>6, <1>7 DEF Deliver

LEMMA DeliverRemembered ==
  ASSUME Remembered, NEW e \in Events, NEW f \in Fingerprints, Deliver(e, f)
  PROVE  Remembered'
<1> DEFINE n == Len(audit) + 1
<1>1. TypeOK /\ TypeOK' /\ GroupsBacked' /\ now \in Int
  BY DeliverType, DeliverGroups DEF Remembered, TypeOK
<1>2. /\ now' = now
      /\ DOMAIN events' = Retained(GroupOf[e]) \cup {e}
      /\ events'[e].lastDelivered = now
      /\ \A x \in Retained(GroupOf[e]) : x # e => events'[x] = events[x]
      /\ DOMAIN audit' = DOMAIN audit \cup {n}
      /\ \A i \in DOMAIN audit : audit'[i] = audit[i]
      /\ n \notin DOMAIN audit
      /\ audit'[n].event = e /\ audit'[n].at = now /\ audit'[n].alert = events'[e].alert
  BY <1>1, DeliverEffect
<1> HIDE DEF n
<1>3. RecordsNotInFuture'
  BY <1>1, <1>2, PrunedRows DEF Remembered, RecordsNotInFuture
<1>4. Covered(e, now)'
  BY <1>1, <1>2 DEF Covered
<1>5. AuditCovered'
  <2> SUFFICES ASSUME NEW i \in DOMAIN audit'
               PROVE  Covered(audit[i].event, audit[i].at)'
    BY DEF AuditCovered
  <2>1. CASE i = n
    BY <1>2, <1>4, <2>1 DEF Covered
  <2>2. CASE i \in DOMAIN audit
    <3>1. PICK y \in Events, u \in Int : y = audit[i].event /\ u = audit[i].at
      BY <1>1, <2>2, AuditRows
    <3>2. Covered(y, u)
      BY <2>2, <3>1 DEF Remembered, AuditCovered
    <3>3. Covered(y, u)'
      BY <1>1, <3>2, DeliverCovers DEF Remembered
    <3> QED BY <1>2, <2>2, <3>1, <3>3 DEF Covered
  <2> QED BY <1>2, <2>1, <2>2
<1>6. AlertsCovered'
  <2> SUFFICES ASSUME NEW a \in DOMAIN alerts'
               PROVE  Covered(alerts[a].event, alerts[a].receivedAt)'
    BY DEF AlertsCovered
  <2>1. \/ a \in DOMAIN alerts /\ alerts'[a] = alerts[a]
        \/ alerts'[a].event = e /\ alerts'[a].receivedAt = now
    BY DeliverAlerts
  <2>2. CASE alerts'[a].event = e /\ alerts'[a].receivedAt = now
    BY <1>2, <1>4, <2>2 DEF Covered
  <2>3. CASE a \in DOMAIN alerts /\ alerts'[a] = alerts[a]
    <3>1. PICK y \in Events, u \in Int : y = alerts[a].event /\ u = alerts[a].receivedAt
      BY <1>1, <2>3 DEF TypeOK, AlertRow
    <3>2. Covered(y, u)
      BY <2>3, <3>1 DEF Remembered, AlertsCovered
    <3>3. Covered(y, u)'
      BY <1>1, <3>2, DeliverCovers DEF Remembered
    <3> QED BY <2>3, <3>1, <3>3 DEF Covered
  <2> QED BY <2>1, <2>2, <2>3
<1>7. RecordsBacked'
  <2> SUFFICES ASSUME NEW x \in DOMAIN events'
               PROVE  \E i \in DOMAIN audit' : /\ audit'[i].event = x
                                               /\ audit'[i].at = events'[x].lastDelivered
                                               /\ audit'[i].alert = events'[x].alert
    BY DEF RecordsBacked
  <2>1. CASE x = e
    BY <1>2, <2>1
  <2>2. CASE x # e
    <3>1. x \in DOMAIN events /\ events'[x] = events[x]
      BY <1>2, <2>2, PrunedRows
    <3>2. PICK i \in DOMAIN audit : /\ audit[i].event = x
                                    /\ audit[i].at = events[x].lastDelivered
                                    /\ audit[i].alert = events[x].alert
      BY <3>1 DEF Remembered, RecordsBacked
    <3> QED BY <1>2, <3>1, <3>2
  <2> QED BY <2>1, <2>2
<1> QED
  BY <1>1, <1>3, <1>5, <1>6, <1>7 DEF Remembered

LEMMA TickRemembered ==
  ASSUME MonotoneClock, Remembered, Tick
  PROVE  Remembered'
<1>1. /\ UNCHANGED <<groups, events, alerts, audit>>
      /\ now \in Int /\ now' \in Int /\ now' >= now
  BY ClockAssumption DEF MonotoneClock, Remembered, TypeOK, Tick
<1>2. /\ \A x \in DOMAIN events : events[x].lastDelivered \in Int
      /\ \A a \in DOMAIN alerts : alerts[a].receivedAt \in Int
      /\ \A i \in DOMAIN audit : audit[i].at \in Int
  BY AuditRows DEF Remembered, TypeOK, EventRow, AlertRow
<1>3. TypeOK'
  BY <1>1 DEF Remembered, TypeOK
<1>4. RecordsNotInFuture'
  BY <1>1, <1>2 DEF Remembered, RecordsNotInFuture
<1>5. AlertsCovered' /\ AuditCovered'
  BY <1>1, <1>2, WindowAssumption DEF Remembered, AlertsCovered, AuditCovered, Covered
<1>6. RecordsBacked' /\ GroupsBacked'
  BY <1>1 DEF Remembered, RecordsBacked, GroupsBacked
<1> QED
  BY <1>3, <1>4, <1>5, <1>6 DEF Remembered

(* The inductive invariant behind the two theorems below.                  *)
THEOREM SpecRemembers == MonotoneClock => (Spec => []Remembered)
<1> SUFFICES ASSUME MonotoneClock
             PROVE  Spec => []Remembered
  OBVIOUS
<1>1. Init => Remembered
  BY DEF Init, Remembered, TypeOK, RecordsNotInFuture, AlertsCovered, AuditCovered,
         RecordsBacked, GroupsBacked
<1>2. Remembered /\ [Next]_vars => Remembered'
  <2> SUFFICES ASSUME Remembered, [Next]_vars
               PROVE  Remembered'
    OBVIOUS
  <2>1. ASSUME NEW e \in Events, NEW f \in Fingerprints, Deliver(e, f)
        PROVE  Remembered'
    BY <2>1, DeliverRemembered
  <2>2. CASE Tick
    BY <2>2, TickRemembered
  <2>3. CASE UNCHANGED vars
    BY <2>3 DEF vars, Remembered, TypeOK, RecordsNotInFuture, AlertsCovered,
                AuditCovered, Covered, RecordsBacked, GroupsBacked
  <2> QED BY <2>1, <2>2, <2>3 DEF Next
<1> QED
  BY <1>1, <1>2, PTL DEF Spec

-----------------------------------------------------------------------------
(* A second alert for an event appears only when the first, and every      *)
(* re-delivery of it, is more than a window old: exactly-once per window.  *)
THEOREM OneAlertPerWindow == MonotoneClock => (Spec => []SecondAlertOnlyAfterWindow)
<1> SUFFICES ASSUME MonotoneClock
             PROVE  Spec => []SecondAlertOnlyAfterWindow
  OBVIOUS
<1>1. Init => SecondAlertOnlyAfterWindow
  BY DEF Init, SecondAlertOnlyAfterWindow
<1>2. /\ SecondAlertOnlyAfterWindow
      /\ Remembered
      /\ [Next]_vars
      => SecondAlertOnlyAfterWindow'
  <2> SUFFICES ASSUME SecondAlertOnlyAfterWindow, Remembered, [Next]_vars,
                      NEW a \in DOMAIN alerts', NEW b \in DOMAIN alerts',
                      a < b, alerts'[a].event = alerts'[b].event
               PROVE  alerts'[b].receivedAt - alerts'[a].receivedAt > Window
    BY DEF SecondAlertOnlyAfterWindow
  <2>1. ASSUME NEW e \in Events, NEW f \in Fingerprints, Deliver(e, f)
        PROVE  alerts'[b].receivedAt - alerts'[a].receivedAt > Window
    <3>1. \A c \in DOMAIN alerts : c \in Nat /\ c < FreshAlert
      BY DEF Remembered, TypeOK, FreshAlert
    <3>2. FreshAlert \in Nat
      BY DEF Remembered, TypeOK, FreshAlert
    <3>3. a \in DOMAIN alerts /\ alerts'[a] = alerts[a]
      BY <2>1, <3>1, <3>2, DeliverAlerts
    <3>4. CASE b \in DOMAIN alerts /\ alerts'[b] = alerts[b]
      BY <3>3, <3>4 DEF SecondAlertOnlyAfterWindow
    <3>5. CASE /\ alerts'[b].event = e
               /\ alerts'[b].receivedAt = now
               /\ e \notin Retained(GroupOf[e])
      <4>1. alerts[a].event = e /\ alerts[a].receivedAt \in Int /\ now \in Int
        BY <3>3, <3>5 DEF Remembered, TypeOK, AlertRow
      <4>2. Covered(e, alerts[a].receivedAt)
        BY <3>3, <4>1 DEF Remembered, AlertsCovered
      <4>3. e \in DOMAIN events =>
              events[e].lastDelivered \in Int /\ now - events[e].lastDelivered > Window
        BY <3>5, <4>1, WindowAssumption DEF Retained, Remembered, TypeOK, EventRow
      <4>4. now - alerts[a].receivedAt > Window
        BY <4>1, <4>2, <4>3, WindowAssumption DEF Covered
      <4> QED BY <3>3, <3>5, <4>4
    <3> QED BY <2>1, <3>4, <3>5, DeliverAlerts
  <2>2. CASE Tick \/ UNCHANGED vars
    BY <2>2 DEF Tick, vars, SecondAlertOnlyAfterWindow
  <2> QED BY <2>1, <2>2 DEF Next
<1> QED
  BY <1>1, <1>2, SpecRemembers, PTL DEF Spec

-----------------------------------------------------------------------------
(* A delivery that prunes keeps records that are at most a window older    *)
(* than it, and none is younger than now: no later delivery to the group,  *)
(* until the next prune of it, is further away.                            *)
THEOREM RecordsStayBounded == MonotoneClock => (Spec => []RetentionBounded)
<1> SUFFICES ASSUME MonotoneClock
             PROVE  Spec => []RetentionBounded
  OBVIOUS
<1>1. Init => RetentionBounded
  BY DEF Init, RetentionBounded
<1>2. RetentionBounded /\ Remembered /\ [Next]_vars => RetentionBounded'
  <2> SUFFICES ASSUME RetentionBounded, Remembered, [Next]_vars
               PROVE  RetentionBounded'
    OBVIOUS
  <2>1. ASSUME NEW e \in Events, NEW f \in Fingerprints, Deliver(e, f)
        PROVE  RetentionBounded'
    <3> DEFINE n == Len(audit) + 1
    <3>1. /\ TypeOK
          /\ now \in Int /\ Window \in Nat
          /\ \A x \in DOMAIN events : events[x].lastDelivered \in Int
      BY WindowAssumption DEF Remembered, TypeOK, EventRow
    <3>2. /\ DOMAIN events' = Retained(GroupOf[e]) \cup {e}
          /\ events'[e].lastDelivered = now
          /\ \A x \in Retained(GroupOf[e]) : x # e => events'[x] = events[x]
          /\ DOMAIN audit' = DOMAIN audit \cup {n}
          /\ \A i \in DOMAIN audit : audit'[i] = audit[i]
          /\ audit'[n].event = e /\ audit'[n].at = now
      BY <2>1, <3>1, DeliverEffect
    <3>3. \A i \in DOMAIN audit : audit[i].at \in Int /\ audit[i].at <= now
      <4> SUFFICES ASSUME NEW i \in DOMAIN audit
                   PROVE  audit[i].at \in Int /\ audit[i].at <= now
        OBVIOUS
      <4>1. Covered(audit[i].event, audit[i].at) /\ audit[i].at \in Int
        BY <3>1, AuditRows DEF Remembered, AuditCovered
      <4>2. \A y \in DOMAIN events : events[y].lastDelivered <= now
        BY DEF Remembered, RecordsNotInFuture
      <4> QED BY <3>1, <4>1, <4>2 DEF Covered
    <3> HIDE DEF n
    <3> SUFFICES ASSUME NEW x \in DOMAIN events', NEW i \in DOMAIN audit',
                        GroupOf[audit'[i].event] = GroupOf[x]
                 PROVE  audit'[i].at - events'[x].lastDelivered <= Window
      BY DEF RetentionBounded
    <3>4. CASE x = e
      BY <3>1, <3>2, <3>3, <3>4
    <3>5. CASE x # e
      <4>1. x \in Retained(GroupOf[e]) /\ x \in DOMAIN events /\ events'[x] = events[x]
        BY <3>2, <3>5, PrunedRows
      <4>2. CASE i = n
        BY <3>2, <4>1, <4>2 DEF Retained
      <4>3. CASE i \in DOMAIN audit
        BY <3>2, <4>1, <4>3 DEF RetentionBounded
      <4> QED BY <3>2, <4>2, <4>3
    <3> QED BY <3>4, <3>5
  <2>2. CASE Tick \/ UNCHANGED vars
    BY <2>2 DEF Tick, vars, RetentionBounded
  <2> QED BY <2>1, <2>2 DEF Next
<1> QED
  BY <1>1, <1>2, SpecRemembers, PTL DEF Spec

-----------------------------------------------------------------------------
(* The counters, under any clock.  What the tables keep in place agrees    *)
(* with the alerts and the log behind it, group by group and record by     *)
(* record; the newest alert of a group carries what the group's row says.  *)

\* The group has no newer alert.
Newest(a) == \A b \in DOMAIN alerts : GroupOfAlert(b) = GroupOfAlert(a) => b <= a

NewestStamped ==
  \A a \in DOMAIN alerts :
    LET g == GroupOfAlert(a)
    IN /\ g \in DOMAIN groups
       /\ alerts[a].generation <= groups[g].generation
       /\ Newest(a) => /\ alerts[a].generation = groups[g].generation
                       /\ alerts[a].occurrences = groups[g].occurrences
                       /\ alerts[a].receivedAt = groups[g].lastSeen

AuditedAlertsKnown == \A i \in DOMAIN audit : audit[i].alert \in DOMAIN alerts

GroupCounted(g) ==
  \E first, last \in CurrentAlerts(g) :
    /\ \A a \in CurrentAlerts(g) : first <= a /\ a <= last
    /\ groups[g].occurrences = Cardinality(CurrentAlerts(g))
    /\ groups[g].firstSeen = alerts[first].receivedAt
    /\ groups[g].lastSeen = alerts[last].receivedAt
    /\ groups[g].duplicates = Cardinality(DuplicatesSince(g, first))

Diverging(a) == {i \in AuditedDeliveries(a) : audit[i].diverged}

RecordCounted(e) ==
  /\ alerts[events[e].alert].event = e
  /\ \A a \in DOMAIN alerts : alerts[a].event = e => a <= events[e].alert
  /\ events[e].deliveries = Cardinality(AuditedDeliveries(events[e].alert))
  /\ events[e].variants = 1 + Cardinality(Diverging(events[e].alert))

Counted ==
  /\ TypeOK
  /\ NewestStamped
  /\ AuditedAlertsKnown
  /\ GenerationsAreWindowRuns
  /\ \A g \in DOMAIN groups : GroupCounted(g)
  /\ \A e \in DOMAIN events : RecordCounted(e)

(* The log after one more row.                                             *)
LEMMA LoggedRow ==
  ASSUME TypeOK, NEW e, NEW a, NEW status, NEW diverged,
         audit' = Logged(e, a, status, diverged)
  PROVE  LET n == Len(audit) + 1
         IN /\ n \in Nat
            /\ DOMAIN audit' = DOMAIN audit \cup {n}
            /\ \A i \in DOMAIN audit : i \in Nat /\ i < n /\ audit'[i] = audit[i]
            /\ audit'[n].event = e /\ audit'[n].alert = a /\ audit'[n].at = now
            /\ audit'[n].status = status /\ audit'[n].diverged = diverged
BY DEF Logged, TypeOK

LEMMA SetsOfRowsFinite ==
  ASSUME TypeOK
  PROVE  /\ \A g : IsFiniteSet(CurrentAlerts(g)) /\ Cardinality(CurrentAlerts(g)) \in Nat
         /\ \A g, a : /\ IsFiniteSet(DuplicatesSince(g, a))
                      /\ Cardinality(DuplicatesSince(g, a)) \in Nat
         /\ \A a : /\ IsFiniteSet(AuditedDeliveries(a))
                   /\ Cardinality(AuditedDeliveries(a)) \in Nat
         /\ \A a : /\ IsFiniteSet(Diverging(a)) /\ Cardinality(Diverging(a)) \in Nat
<1>1. IsFiniteSet(1..Len(audit)) /\ DOMAIN audit = 1..Len(audit)
  BY FS_Interval DEF TypeOK
<1>2. \A S : S \subseteq 1..Len(audit) => IsFiniteSet(S) /\ Cardinality(S) \in Nat
  BY <1>1, FS_Subset, FS_CardinalityType
<1>3. \A g : CurrentAlerts(g) \subseteq 1..Len(audit)
  BY DEF TypeOK, CurrentAlerts
<1>4. \A g, a : DuplicatesSince(g, a) \subseteq 1..Len(audit)
  BY <1>1 DEF DuplicatesSince
<1>5. \A a : AuditedDeliveries(a) \subseteq 1..Len(audit)
  BY <1>1 DEF AuditedDeliveries
<1>6. \A a : Diverging(a) \subseteq 1..Len(audit)
  BY <1>5 DEF Diverging
<1> QED
  BY <1>2, <1>3, <1>4, <1>5, <1>6

LEMMA OneMore ==
  ASSUME NEW S, IsFiniteSet(S), NEW x, x \notin S
  PROVE  Cardinality(S \cup {x}) = Cardinality(S) + 1
BY FS_AddElement

(* A delivery to another group leaves the count of this one alone.         *)
LEMMA OtherGroupCounted ==
  ASSUME Counted, NEW h \in DOMAIN groups, h \in DOMAIN groups',
         groups'[h] = groups[h],
         NEW n, DOMAIN audit' = DOMAIN audit \cup {n},
         \A i \in DOMAIN audit : audit'[i] = audit[i],
         GroupOf[audit'[n].event] # h,
         DOMAIN alerts \subseteq DOMAIN alerts',
         \A a \in DOMAIN alerts : alerts'[a] = alerts[a],
         \A a \in DOMAIN alerts' : a \in DOMAIN alerts \/ GroupOf[alerts'[a].event] # h
  PROVE  GroupCounted(h)'
<1>1. CurrentAlerts(h)' = CurrentAlerts(h)
  BY DEF CurrentAlerts, GroupOfAlert
<1>2. \A a : DuplicatesSince(h, a)' = DuplicatesSince(h, a)
  BY DEF DuplicatesSince
<1>3. PICK first \in CurrentAlerts(h), last \in CurrentAlerts(h) :
        /\ \A a \in CurrentAlerts(h) : first <= a /\ a <= last
        /\ groups[h].occurrences = Cardinality(CurrentAlerts(h))
        /\ groups[h].firstSeen = alerts[first].receivedAt
        /\ groups[h].lastSeen = alerts[last].receivedAt
        /\ groups[h].duplicates = Cardinality(DuplicatesSince(h, first))
  BY DEF Counted, GroupCounted
<1>4. alerts'[first] = alerts[first] /\ alerts'[last] = alerts[last]
  BY DEF CurrentAlerts
<1>5. DuplicatesSince(h, first)' = DuplicatesSince(h, first)
  BY <1>2
<1> QED
  BY <1>1, <1>3, <1>4, <1>5 DEF GroupCounted

(* A record that the delivery neither writes nor prunes keeps its counts,  *)
(* as the new row of the log is of another alert.                          *)
LEMMA OtherRecordCounted ==
  ASSUME Counted, NEW x \in DOMAIN events, events'[x] = events[x],
         NEW n, DOMAIN audit' = DOMAIN audit \cup {n},
         \A i \in DOMAIN audit : audit'[i] = audit[i],
         audit'[n].alert # events[x].alert,
         DOMAIN alerts \subseteq DOMAIN alerts',
         \A a \in DOMAIN alerts : alerts'[a] = alerts[a],
         \A a \in DOMAIN alerts' : a \in DOMAIN alerts \/ alerts'[a].event # x
  PROVE  RecordCounted(x)'
<1>1. RecordCounted(x) /\ events[x].alert \in DOMAIN alerts
  BY DEF Counted, TypeOK
<1>2. AuditedDeliveries(events[x].alert)' = AuditedDeliveries(events[x].alert)
  BY DEF AuditedDeliveries
<1>3. Diverging(events[x].alert)' = Diverging(events[x].alert)
  BY <1>2 DEF Diverging, AuditedDeliveries
<1> QED
  BY <1>1, <1>2, <1>3 DEF RecordCounted

(* A duplicate counts once on its group and once on its record.            *)
LEMMA AbsorbCounts ==
  ASSUME Counted, NEW e \in Events, NEW f \in Fingerprints, AbsorbDuplicate(e, f)
  PROVE  Counted'
<1> DEFINE n == Len(audit) + 1
<1> DEFINE own == GroupOf[e]
<1> DEFINE alert == events[e].alert
<1> DEFINE diverged == events[e].fingerprint # f
<1>1. /\ TypeOK /\ TypeOK'
      /\ e \in DOMAIN events /\ events[e] \in EventRow
      /\ own \in DOMAIN groups /\ groups[own] \in GroupRow
      /\ alert \in DOMAIN alerts
  BY AbsorbDuplicateRows, AbsorbDuplicateType DEF Counted, TypeOK
<1>2. /\ n \in Nat
      /\ DOMAIN audit' = DOMAIN audit \cup {n}
      /\ \A i \in DOMAIN audit : i \in Nat /\ i < n /\ audit'[i] = audit[i]
      /\ audit'[n].event = e /\ audit'[n].alert = alert
      /\ audit'[n].status = "exact_duplicate" /\ audit'[n].diverged = diverged
  BY <1>1, LoggedRow DEF AbsorbDuplicate
<1>3. alerts' = alerts /\ groups' = [groups EXCEPT ![own].duplicates = @ + 1]
  BY DEF AbsorbDuplicate
<1>4. /\ DOMAIN groups' = DOMAIN groups
      /\ \A g \in DOMAIN groups : g # own => groups'[g] = groups[g]
      /\ groups'[own].duplicates = groups[own].duplicates + 1
      /\ \A g \in DOMAIN groups : /\ groups'[g].generation = groups[g].generation
                                  /\ groups'[g].occurrences = groups[g].occurrences
                                  /\ groups'[g].firstSeen = groups[g].firstSeen
                                  /\ groups'[g].lastSeen = groups[g].lastSeen
  <2>1. \A g \in DOMAIN groups : groups[g] \in GroupRow
    BY <1>1 DEF TypeOK
  <2> QED BY <1>1, <1>3, <2>1 DEF GroupRow
<1>5. /\ DOMAIN events' \subseteq DOMAIN events
      /\ \A x \in DOMAIN events' : x # e => events'[x] = events[x]
      /\ events'[e].alert = alert
      /\ events'[e].deliveries = events[e].deliveries + 1
      /\ events'[e].variants = IF diverged THEN events[e].variants + 1
                               ELSE events[e].variants
  <2>1. /\ events' = [Pruned(own) EXCEPT ![e] = AbsorbedRow(events[e], f, now)]
        /\ e \in Retained(own)
    BY <1>1, PrunedRows DEF AbsorbDuplicate, AbsorbedRow
  <2>2. events'[e] = AbsorbedRow(events[e], f, now)
    BY <2>1, PrunedRows
  <2>3. LET row == AbsorbedRow(events[e], f, now)
        IN /\ row.deliveries = events[e].deliveries + 1
           /\ row.variants = IF diverged THEN events[e].variants + 1 ELSE events[e].variants
    <3>1. PICK r : r = events[e]
      OBVIOUS
    <3>2. r \in EventRow
      BY <1>1, <3>1
    <3>3. AbsorbedRow(r, f, now).deliveries = r.deliveries + 1
      BY <3>2 DEF AbsorbedRow, EventRow
    <3>4. AbsorbedRow(r, f, now).variants =
            IF r.fingerprint # f THEN r.variants + 1 ELSE r.variants
      BY <3>2 DEF AbsorbedRow, EventRow
    <3> QED BY <3>1, <3>3, <3>4
  <2>4. /\ DOMAIN events' = Retained(own)
        /\ \A x \in DOMAIN events' : x # e => events'[x] = events[x]
        /\ events'[e].alert = alert
    BY <1>1, AbsorbDuplicateRows
  <2> QED BY <2>2, <2>3, <2>4, PrunedRows
<1> HIDE DEF n, own, alert, diverged
<1>6. GroupCounted(own)'
  <2>1. PICK first \in CurrentAlerts(own), last \in CurrentAlerts(own) :
          /\ \A a \in CurrentAlerts(own) : first <= a /\ a <= last
          /\ groups[own].occurrences = Cardinality(CurrentAlerts(own))
          /\ groups[own].firstSeen = alerts[first].receivedAt
          /\ groups[own].lastSeen = alerts[last].receivedAt
          /\ groups[own].duplicates = Cardinality(DuplicatesSince(own, first))
    BY <1>1 DEF Counted, GroupCounted
  <2>2. CurrentAlerts(own)' = CurrentAlerts(own)
    <3>1. groups'[own].generation = groups[own].generation
      BY <1>1, <1>4
    <3>2. alerts' = alerts
      BY <1>3
    <3>3. \A a : GroupOfAlert(a)' = GroupOfAlert(a)
      BY <3>2 DEF GroupOfAlert
    <3> HIDE DEF GroupOfAlert
    <3> QED BY <3>1, <3>2, <3>3 DEF CurrentAlerts
  <2>3. first \in Nat /\ first < n
    BY <1>1 DEF CurrentAlerts, TypeOK, n
  <2>4. /\ DuplicatesSince(own, first)' = DuplicatesSince(own, first) \cup {n}
        /\ n \notin DuplicatesSince(own, first)
    BY <1>2, <2>3 DEF DuplicatesSince, own
  <2>5. Cardinality(DuplicatesSince(own, first)') = Cardinality(DuplicatesSince(own, first)) + 1
    BY <1>1, <2>4, OneMore, SetsOfRowsFinite
  <2>6. /\ groups'[own].occurrences = Cardinality(CurrentAlerts(own)')
        /\ groups'[own].firstSeen = alerts'[first].receivedAt
        /\ groups'[own].lastSeen = alerts'[last].receivedAt
        /\ groups'[own].duplicates = Cardinality(DuplicatesSince(own, first)')
    BY <1>1, <1>3, <1>4, <2>1, <2>2, <2>5
  <2> QED BY <2>1, <2>2, <2>6 DEF GroupCounted, own
<1>7. ASSUME NEW g \in DOMAIN groups'
      PROVE  GroupCounted(g)'
  BY <1>2, <1>3, <1>4, <1>6, OtherGroupCounted DEF own
<1>8. RecordCounted(e)'
  <2>1. RecordCounted(e)
    BY <1>1 DEF Counted
  <2>2. AuditedDeliveries(alert)' = AuditedDeliveries(alert) \cup {n}
    BY <1>2, <1>5 DEF AuditedDeliveries, alert
  <2>3. n \notin AuditedDeliveries(alert) /\ n \notin Diverging(alert)
    BY <1>2 DEF AuditedDeliveries, Diverging
  <2>4. Cardinality(AuditedDeliveries(alert)') = Cardinality(AuditedDeliveries(alert)) + 1
    BY <1>1, <2>2, <2>3, OneMore, SetsOfRowsFinite
  <2>5. Cardinality(Diverging(alert)') =
          IF diverged THEN Cardinality(Diverging(alert)) + 1 ELSE Cardinality(Diverging(alert))
    <3>1. CASE diverged
      <4>1. Diverging(alert)' = Diverging(alert) \cup {n}
        BY <1>2, <1>5, <2>2, <3>1 DEF Diverging, AuditedDeliveries, alert
      <4> QED BY <1>1, <2>3, <3>1, <4>1, OneMore, SetsOfRowsFinite
    <3>2. CASE ~diverged
      <4>1. Diverging(alert)' = Diverging(alert)
        BY <1>2, <1>5, <2>2, <3>2 DEF Diverging, AuditedDeliveries, alert
      <4> QED BY <3>2, <4>1
    <3> QED BY <3>1, <3>2
  <2>6. /\ alerts'[alert].event = e
        /\ \A a \in DOMAIN alerts' : alerts'[a].event = e => a <= alert
        /\ events[e].deliveries = Cardinality(AuditedDeliveries(alert))
        /\ events[e].variants = 1 + Cardinality(Diverging(alert))
    BY <1>3, <2>1 DEF RecordCounted, alert
  <2>7. Cardinality(Diverging(alert)) \in Nat
    BY <1>1, SetsOfRowsFinite
  <2>8. /\ events'[e].deliveries = Cardinality(AuditedDeliveries(alert)')
        /\ events'[e].variants = 1 + Cardinality(Diverging(alert)')
    BY <1>5, <2>4, <2>5, <2>6, <2>7
  <2> QED BY <1>5, <2>6, <2>8 DEF RecordCounted, alert
<1>9. ASSUME NEW x \in DOMAIN events'
      PROVE  RecordCounted(x)'
  <2>1. CASE x = e
    BY <1>8, <2>1
  <2>2. CASE x # e
    <3>1. events[x].alert # alert
      BY <1>1, <1>5, <2>2 DEF Counted, RecordCounted, alert
    <3> QED BY <1>2, <1>3, <1>5, <2>2, <3>1, OtherRecordCounted
  <2> QED BY <2>1, <2>2
<1>10. NewestStamped'
  BY <1>3, <1>4 DEF Counted, NewestStamped, Newest, GroupOfAlert
<1>11. AuditedAlertsKnown'
  BY <1>1, <1>2, <1>3 DEF Counted, AuditedAlertsKnown
<1>12. GenerationsAreWindowRuns'
  BY <1>3 DEF Counted, GenerationsAreWindowRuns, NextInGroup, GroupOfAlert
<1> QED
  BY <1>1, <1>7, <1>9, <1>10, <1>11, <1>12 DEF Counted

(* The row a distinct event leaves on its group.                           *)
LEMMA DistinctRow ==
  ASSUME TypeOK, NEW e \in Events, NEW f \in Fingerprints,
         StartGeneration(e, f) \/ RecordRecurrence(e, f)
  PROVE  LET g == GroupOf[e]
             goesOn == g \in DOMAIN groups /\ ~(now - groups[g].lastSeen > Window)
         IN \E row \in GroupRow, status \in Statuses \ {"exact_duplicate"} :
              /\ RecordEvent(e, f, row, status)
              /\ row.lastSeen = now
              /\ goesOn => /\ row.generation = groups[g].generation
                           /\ row.occurrences = groups[g].occurrences + 1
                           /\ row.firstSeen = groups[g].firstSeen
                           /\ row.duplicates = groups[g].duplicates
              /\ ~goesOn => /\ row.occurrences = 1 /\ row.duplicates = 0
                            /\ row.firstSeen = now
                            /\ g \in DOMAIN groups =>
                                 row.generation = groups[g].generation + 1
<1> DEFINE g == GroupOf[e]
<1>0. now \in Int /\ Window \in Int
  BY WindowAssumption DEF TypeOK
<1>1. CASE StartGeneration(e, f)
  <2> DEFINE previous == IF g \in DOMAIN groups THEN groups[g].generation ELSE 0
  <2> DEFINE row == [occurrences |-> 1, generation |-> previous + 1, firstSeen |-> now,
                     lastSeen |-> now, duplicates |-> 0]
  <2>1. previous \in Nat
    BY DEF TypeOK, GroupRow
  <2>2. row \in GroupRow
    BY <1>0, <2>1 DEF GroupRow
  <2>3. RecordEvent(e, f, row, "new_generation")
    BY <1>1 DEF StartGeneration
  <2>4. g \in DOMAIN groups => now - groups[g].lastSeen > Window
    BY <1>1 DEF StartGeneration
  <2>5. /\ row.lastSeen = now /\ row.occurrences = 1 /\ row.duplicates = 0
        /\ row.firstSeen = now
        /\ g \in DOMAIN groups => row.generation = groups[g].generation + 1
    OBVIOUS
  <2>6. "new_generation" \in Statuses \ {"exact_duplicate"}
    BY DEF Statuses
  <2> HIDE DEF row
  <2> QED BY <2>2, <2>3, <2>4, <2>5, <2>6
<1>2. CASE RecordRecurrence(e, f)
  <2> DEFINE row == [groups[g] EXCEPT !.occurrences = @ + 1, !.lastSeen = now]
  <2>1. /\ g \in DOMAIN groups /\ now - groups[g].lastSeen <= Window
        /\ RecordEvent(e, f, row, "repeated")
    BY <1>2 DEF RecordRecurrence
  <2>2. groups[g] \in GroupRow
    BY <2>1 DEF TypeOK
  <2>3. row \in GroupRow
    BY <1>0, <2>2, RecurredRow
  <2>4. /\ row.generation = groups[g].generation
        /\ row.occurrences = groups[g].occurrences + 1
        /\ row.firstSeen = groups[g].firstSeen
        /\ row.duplicates = groups[g].duplicates
        /\ row.lastSeen = now
    BY <2>2 DEF GroupRow
  <2>5. ~(now - groups[g].lastSeen > Window)
    BY <1>0, <2>1, <2>2 DEF GroupRow
  <2>6. "repeated" \in Statuses \ {"exact_duplicate"}
    BY DEF Statuses
  <2> HIDE DEF row
  <2> QED BY <2>1, <2>3, <2>4, <2>5, <2>6
<1> QED
  BY <1>1, <1>2

(* A distinct event counts once on its group, and its record starts over.  *)
LEMMA DistinctCounts ==
  ASSUME Counted, NEW e \in Events, NEW f \in Fingerprints,
         StartGeneration(e, f) \/ RecordRecurrence(e, f)
  PROVE  Counted'
<1> DEFINE own == GroupOf[e]
<1> DEFINE goesOn == own \in DOMAIN groups /\ ~(now - groups[own].lastSeen > Window)
<1>0. PICK n : n = Len(audit) + 1
  OBVIOUS
<1>15. TypeOK /\ TypeOK' /\ FreshAlert = n
  BY <1>0, DeliverType DEF Counted, Deliver, FreshAlert
<1>1. PICK row \in GroupRow, status \in Statuses \ {"exact_duplicate"} :
              /\ RecordEvent(e, f, row, status)
              /\ row.lastSeen = now
              /\ goesOn => /\ row.generation = groups[own].generation
                           /\ row.occurrences = groups[own].occurrences + 1
                           /\ row.firstSeen = groups[own].firstSeen
                           /\ row.duplicates = groups[own].duplicates
              /\ ~goesOn => /\ row.occurrences = 1 /\ row.duplicates = 0
                            /\ row.firstSeen = now
                            /\ own \in DOMAIN groups =>
                                 row.generation = groups[own].generation + 1
  BY <1>15, DistinctRow
<1>2. /\ n \in Nat
      /\ DOMAIN audit' = DOMAIN audit \cup {n}
      /\ \A i \in DOMAIN audit : i \in Nat /\ i < n /\ audit'[i] = audit[i]
      /\ audit'[n].event = e /\ audit'[n].alert = n
      /\ audit'[n].status = status /\ audit'[n].diverged = FALSE
  BY <1>0, <1>15, <1>1, LoggedRow DEF RecordEvent
<1>3. /\ DOMAIN groups' = DOMAIN groups \cup {own}
      /\ groups'[own] = row
      /\ \A g \in DOMAIN groups : g # own => groups'[g] = groups[g]
  BY <1>1 DEF RecordEvent, Put
<1>4. /\ DOMAIN alerts' = DOMAIN alerts \cup {n}
      /\ alerts'[n].event = e /\ alerts'[n].receivedAt = now
      /\ alerts'[n].generation = row.generation
      /\ alerts'[n].occurrences = row.occurrences
      /\ \A a \in DOMAIN alerts : a \in Nat /\ a < n /\ alerts'[a] = alerts[a]
      /\ n \notin DOMAIN alerts
  <2>1. \A a \in DOMAIN alerts : a \in Nat /\ a < n
    BY <1>0, <1>15 DEF TypeOK
  <2>2. alerts' = Put(alerts, n, [event |-> e, receivedAt |-> now,
                    generation |-> row.generation, occurrences |-> row.occurrences])
    BY <1>15, <1>1 DEF RecordEvent
  <2> QED BY <1>2, <2>1, <2>2 DEF Put
<1>5. /\ DOMAIN events' = Retained(own) \cup {e}
      /\ \A x \in DOMAIN events' : x # e => x \in DOMAIN events /\ events'[x] = events[x]
      /\ events'[e].alert = n
      /\ events'[e].deliveries = 1 /\ events'[e].variants = 1
  BY <1>15, <1>1, PrunedRows DEF RecordEvent, Put
<1>6. /\ \A a \in DOMAIN alerts : /\ GroupOfAlert(a)' = GroupOfAlert(a)
                                  /\ GroupOfAlert(a) \in DOMAIN groups
                                  /\ alerts[a].generation \in Nat
                                  /\ alerts[a].generation <= groups[GroupOfAlert(a)].generation
      /\ GroupOfAlert(n)' = own
  BY <1>15, <1>4 DEF Counted, NewestStamped, GroupOfAlert, TypeOK, AlertRow
<1>7. /\ \A g \in DOMAIN groups : groups[g].generation \in Nat /\ groups[g].lastSeen \in Int
      /\ row.generation \in Nat /\ now \in Int
  BY <1>15 DEF TypeOK, GroupRow
<1> HIDE DEF own
<1>8. GroupCounted(own)'
  <2>1. CASE goesOn
    <3>1. PICK first \in CurrentAlerts(own), last \in CurrentAlerts(own) :
            /\ \A a \in CurrentAlerts(own) : first <= a /\ a <= last
            /\ groups[own].occurrences = Cardinality(CurrentAlerts(own))
            /\ groups[own].firstSeen = alerts[first].receivedAt
            /\ groups[own].lastSeen = alerts[last].receivedAt
            /\ groups[own].duplicates = Cardinality(DuplicatesSince(own, first))
      BY <2>1 DEF Counted, GroupCounted
    <3>2. /\ CurrentAlerts(own)' = CurrentAlerts(own) \cup {n}
          /\ n \notin CurrentAlerts(own)
      BY <1>1, <1>3, <1>4, <1>6, <2>1 DEF CurrentAlerts
    <3>3. Cardinality(CurrentAlerts(own)') = Cardinality(CurrentAlerts(own)) + 1
      BY <1>15, <3>2, OneMore, SetsOfRowsFinite
    <3>4. DuplicatesSince(own, first)' = DuplicatesSince(own, first)
      BY <1>2 DEF DuplicatesSince
    <3>5. first \in DOMAIN alerts /\ first <= n /\ n <= n /\ \A a \in CurrentAlerts(own) : a <= n
      BY <1>2, <1>4 DEF CurrentAlerts
    <3>6. /\ groups'[own].occurrences = Cardinality(CurrentAlerts(own)')
          /\ groups'[own].firstSeen = alerts'[first].receivedAt
          /\ groups'[own].lastSeen = alerts'[n].receivedAt
          /\ groups'[own].duplicates = Cardinality(DuplicatesSince(own, first)')
      BY <1>1, <1>3, <1>4, <2>1, <3>1, <3>3, <3>4, <3>5
    <3>7. \A a \in CurrentAlerts(own)' : first <= a /\ a <= n
      BY <3>1, <3>2, <3>5
    <3> QED BY <3>2, <3>6, <3>7 DEF GroupCounted
  <2>2. CASE ~goesOn
    <3>1. CurrentAlerts(own)' = {n}
      <4>1. \A a \in DOMAIN alerts : GroupOfAlert(a) = own => alerts[a].generation # row.generation
        BY <1>1, <1>6, <1>7, <2>2
      <4> QED BY <1>3, <1>4, <1>6, <4>1 DEF CurrentAlerts
    <3>2. DuplicatesSince(own, n)' = {}
      BY <1>2 DEF DuplicatesSince
    <3>3. Cardinality({n}) = 1 /\ Cardinality({}) = 0
      BY FS_Singleton, FS_EmptySet
    <3>4. /\ groups'[own].occurrences = Cardinality(CurrentAlerts(own)')
          /\ groups'[own].firstSeen = alerts'[n].receivedAt
          /\ groups'[own].lastSeen = alerts'[n].receivedAt
          /\ groups'[own].duplicates = Cardinality(DuplicatesSince(own, n)')
      BY <1>1, <1>3, <1>4, <2>2, <3>1, <3>2, <3>3
    <3>5. n <= n
      BY <1>2
    <3> QED BY <3>1, <3>4, <3>5 DEF GroupCounted
  <2> HIDE DEF goesOn
  <2> QED BY <2>1, <2>2
<1>9. ASSUME NEW g \in DOMAIN groups'
      PROVE  GroupCounted(g)'
  <2>1. CASE g = own
    BY <1>8, <2>1
  <2>2. CASE g # own
    BY <1>2, <1>3, <1>4, <2>2, OtherGroupCounted DEF own
  <2> QED BY <2>1, <2>2
<1>10. RecordCounted(e)'
  <2>1. \A i \in DOMAIN audit : audit[i].alert # n
    BY <1>4 DEF Counted, AuditedAlertsKnown
  <2>2. AuditedDeliveries(n)' = {n} /\ Diverging(n)' = {}
    BY <1>2, <2>1 DEF AuditedDeliveries, Diverging
  <2>3. Cardinality({n}) = 1 /\ Cardinality({}) = 0
    BY FS_Singleton, FS_EmptySet
  <2>4. \A a \in DOMAIN alerts' : a <= n
    BY <1>2, <1>4
  <2> QED BY <1>4, <1>5, <2>2, <2>3, <2>4 DEF RecordCounted
<1>11. ASSUME NEW x \in DOMAIN events'
       PROVE  RecordCounted(x)'
  <2>1. CASE x = e
    BY <1>10, <2>1
  <2>2. CASE x # e
    <3>1. x \in DOMAIN events /\ events[x].alert # n
      BY <1>15, <1>4, <1>5, <2>2 DEF TypeOK
    <3> QED BY <1>2, <1>4, <1>5, <2>2, <3>1, OtherRecordCounted
  <2> QED BY <2>1, <2>2
<1>12. NewestStamped'
  <2> SUFFICES ASSUME NEW a \in DOMAIN alerts'
               PROVE  LET g == GroupOfAlert(a)'
                      IN /\ g \in DOMAIN groups'
                         /\ alerts'[a].generation <= groups'[g].generation
                         /\ Newest(a)' => /\ alerts'[a].generation = groups'[g].generation
                                          /\ alerts'[a].occurrences = groups'[g].occurrences
                                          /\ alerts'[a].receivedAt = groups'[g].lastSeen
    BY DEF NewestStamped
  <2>1. CASE a = n
    BY <1>1, <1>3, <1>4, <1>6, <1>7, <2>1
  <2>2. CASE a \in DOMAIN alerts /\ GroupOfAlert(a) = own
    <3>1. ~Newest(a)'
      BY <1>2, <1>4, <1>6, <2>2 DEF Newest
    <3>2. alerts[a].generation <= row.generation
      BY <1>1, <1>6, <1>7, <2>2
    <3> QED BY <1>3, <1>4, <1>6, <2>2, <3>1, <3>2
  <2>3. CASE a \in DOMAIN alerts /\ GroupOfAlert(a) # own
    <3>1. Newest(a)' => Newest(a)
      BY <1>4, <1>6, <2>3 DEF Newest
    <3> QED BY <1>3, <1>4, <1>6, <2>3, <3>1 DEF Counted, NewestStamped
  <2> QED BY <1>4, <2>1, <2>2, <2>3
<1>13. AuditedAlertsKnown'
  BY <1>2, <1>4 DEF Counted, AuditedAlertsKnown
<1>14. GenerationsAreWindowRuns'
  <2> SUFFICES ASSUME NEW a \in DOMAIN alerts', NEW b \in DOMAIN alerts', NextInGroup(a, b)'
               PROVE  IF alerts'[b].receivedAt - alerts'[a].receivedAt > Window
                      THEN /\ alerts'[b].generation = alerts'[a].generation + 1
                           /\ alerts'[b].occurrences = 1
                      ELSE /\ alerts'[b].generation = alerts'[a].generation
                           /\ alerts'[b].occurrences = alerts'[a].occurrences + 1
    BY DEF GenerationsAreWindowRuns
  <2>1. a \in DOMAIN alerts
    BY <1>2, <1>4 DEF NextInGroup
  <2>2. CASE b \in DOMAIN alerts
    <3>1. NextInGroup(a, b)
      BY <1>4, <1>6, <2>1, <2>2 DEF NextInGroup
    <3> QED BY <1>4, <2>1, <2>2, <3>1 DEF Counted, GenerationsAreWindowRuns
  <2>3. CASE b = n
    <3>1. GroupOfAlert(a) = own
      BY <1>6, <2>1, <2>3 DEF NextInGroup
    <3>2. Newest(a)
      <4>1. ASSUME NEW c \in DOMAIN alerts, GroupOfAlert(c) = GroupOfAlert(a), ~(c <= a)
            PROVE  FALSE
        BY <1>4, <1>6, <2>1, <2>3, <4>1 DEF NextInGroup
      <4> QED BY <4>1 DEF Newest
    <3>3. /\ own \in DOMAIN groups
          /\ alerts[a].generation = groups[own].generation
          /\ alerts[a].occurrences = groups[own].occurrences
          /\ alerts[a].receivedAt = groups[own].lastSeen
      BY <1>6, <2>1, <3>1, <3>2 DEF Counted, NewestStamped
    <3> QED BY <1>1, <1>4, <1>7, <2>1, <2>3, <3>3
  <2> QED BY <1>4, <2>2, <2>3
<1> QED
  BY <1>15, <1>9, <1>11, <1>12, <1>13, <1>14 DEF Counted

LEMMA SpecCounts == Spec => []Counted
<1>1. Init => Counted
  BY DEF Init, Counted, TypeOK, NewestStamped, AuditedAlertsKnown, GenerationsAreWindowRuns
<1>2. Counted /\ [Next]_vars => Counted'
  <2> SUFFICES ASSUME Counted, [Next]_vars
               PROVE  Counted'
    OBVIOUS
  <2>1. ASSUME NEW e \in Events, NEW f \in Fingerprints, Deliver(e, f)
        PROVE  Counted'
    BY <2>1, AbsorbCounts, DistinctCounts DEF Deliver
  <2>2. CASE Tick \/ UNCHANGED vars
    <3>1. UNCHANGED <<groups, events, alerts, audit>> /\ now' \in Int
      BY <2>2, ClockAssumption DEF Tick, vars, Counted, TypeOK
    <3>2. TypeOK'
      BY <3>1 DEF Counted, TypeOK
    <3>3. NewestStamped' /\ AuditedAlertsKnown'
      BY <3>1 DEF Counted, NewestStamped, Newest, GroupOfAlert, AuditedAlertsKnown
    <3>4. GenerationsAreWindowRuns'
      BY <3>1 DEF Counted, GenerationsAreWindowRuns, NextInGroup, GroupOfAlert
    <3>5. ASSUME NEW g \in DOMAIN groups'
          PROVE  GroupCounted(g)'
      <4>1. g \in DOMAIN groups /\ GroupCounted(g)
        BY <3>1 DEF Counted
      <4>2. CurrentAlerts(g)' = CurrentAlerts(g)
        BY <3>1 DEF CurrentAlerts, GroupOfAlert
      <4>3. \A a : DuplicatesSince(g, a)' = DuplicatesSince(g, a)
        BY <3>1 DEF DuplicatesSince
      <4> QED BY <3>1, <4>1, <4>2, <4>3 DEF GroupCounted
    <3>6. \A e \in DOMAIN events' : RecordCounted(e)'
      BY <3>1 DEF Counted, RecordCounted, AuditedDeliveries, Diverging
    <3> QED BY <3>2, <3>3, <3>4, <3>5, <3>6 DEF Counted
  <2> QED BY <2>1, <2>2 DEF Next
<1> QED
  BY <1>1, <1>2, PTL DEF Spec

(* Generation and recurrence count on every alert are what the gap to its  *)
(* predecessor in the group implies, however the clock moves.              *)
THEOREM StampsFollowGaps == Spec => []GenerationsAreWindowRuns
<1>1. Counted => GenerationsAreWindowRuns
  BY DEF Counted
<1> QED
  BY <1>1, SpecCounts, PTL

(* Every counter kept in place can be recounted from the alerts and the    *)
(* append-only log: across resets, prunes and records made anew, nothing   *)
(* is lost or counted twice, however the clock moves.                      *)
THEOREM CountersRecount == Spec => []CountersMatchAudit
<1>1. Counted => CountersMatchAudit
  BY DEF Counted, CountersMatchAudit, GroupCounted, RecordCounted, Diverging
<1> QED
  BY <1>1, SpecCounts, PTL

-----------------------------------------------------------------------------
(* The contract.  Contract!Duplicate etc. speak of every earlier delivery; *)
(* the code looks at one record and one group row.                         *)

LEMMA RetainedMeansDelivered ==
  ASSUME Remembered, NEW e \in Events
  PROVE  e \notin Retained(GroupOf[e]) => Contract!DeliveriesOf(e) = {}
<1> SUFFICES ASSUME e \notin Retained(GroupOf[e]),
                    NEW i \in DOMAIN audit, audit[i].event = e,
                    now - audit[i].at <= Window
             PROVE  FALSE
  BY DEF Contract!DeliveriesOf, Contract!InWindow
<1>1. audit[i].at \in Int /\ now \in Int /\ Window \in Int
  BY AuditRows, WindowAssumption DEF Remembered, TypeOK
<1>2. Covered(e, audit[i].at)
  BY DEF Remembered, AuditCovered
<1>3. e \in DOMAIN events =>
        events[e].lastDelivered \in Int /\ now - events[e].lastDelivered > Window
  BY <1>1 DEF Retained, Remembered, TypeOK, EventRow
<1> QED
  BY <1>1, <1>2, <1>3 DEF Covered

LEMMA QuietGroup ==
  ASSUME Remembered, NEW g
  PROVE  Contract!DistinctIn(g) = {} <=>
           (g \in DOMAIN groups => now - groups[g].lastSeen > Window)
<1>1. /\ now \in Int /\ Window \in Int
      /\ \A h \in DOMAIN groups : groups[h].lastSeen \in Int
      /\ \A i \in DOMAIN audit : audit[i].at \in Int
  BY AuditRows, WindowAssumption DEF Remembered, TypeOK, GroupRow
<1>2. ASSUME g \in DOMAIN groups, ~(now - groups[g].lastSeen > Window)
      PROVE  Contract!DistinctIn(g) # {}
  <2>1. PICK i \in DOMAIN audit : /\ GroupOf[audit[i].event] = g
                                  /\ audit[i].status # "exact_duplicate"
                                  /\ audit[i].at = groups[g].lastSeen
    BY <1>2 DEF Remembered, GroupsBacked
  <2>2. now - audit[i].at <= Window
    BY <1>1, <1>2, <2>1
  <2>3. i \in Contract!DistinctIn(g)
    BY <2>1, <2>2 DEF Contract!DistinctIn, Contract!InWindow
  <2> QED BY <2>3
<1>3. ASSUME NEW i \in Contract!DistinctIn(g)
      PROVE  g \in DOMAIN groups /\ ~(now - groups[g].lastSeen > Window)
  <2>1. /\ i \in DOMAIN audit /\ GroupOf[audit[i].event] = g
        /\ audit[i].status # "exact_duplicate"
        /\ now - audit[i].at <= Window
    BY <1>3 DEF Contract!DistinctIn, Contract!InWindow
  <2>2. g \in DOMAIN groups /\ audit[i].at <= groups[g].lastSeen
    BY <2>1 DEF Remembered, GroupsBacked
  <2> QED BY <1>1, <2>1, <2>2
<1> QED
  BY <1>2, <1>3

LEMMA DeliverAnswers ==
  ASSUME Remembered, NEW e \in Events, NEW f \in Fingerprints, Deliver(e, f)
  PROVE  Contract!Answer(e) /\ UNCHANGED now
<1>1. CASE AbsorbDuplicate(e, f)
  <2>1. e \in DOMAIN events /\ now - events[e].lastDelivered <= Window
    BY <1>1 DEF AbsorbDuplicate, Retained
  <2>2. PICK i \in DOMAIN audit : /\ audit[i].event = e
                                  /\ audit[i].at = events[e].lastDelivered
                                  /\ audit[i].alert = events[e].alert
    BY <2>1 DEF Remembered, RecordsBacked
  <2>3. i \in Contract!DeliveriesOf(e)
    BY <2>1, <2>2 DEF Contract!DeliveriesOf, Contract!InWindow
  <2>4. audit' = Append(audit, Contract!Entry(e, audit[i].alert, "exact_duplicate",
                                              events[e].fingerprint # f))
    BY <1>1, <2>2 DEF AbsorbDuplicate, Logged, Contract!Entry
  <2>5. \E diverged \in BOOLEAN :
          audit' = Append(audit, Contract!Entry(e, audit[i].alert, "exact_duplicate", diverged))
    BY <2>4
  <2>6. UNCHANGED now
    BY <1>1 DEF AbsorbDuplicate
  <2> QED BY <2>3, <2>5, <2>6 DEF Contract!Answer, Contract!AnswerDuplicate
<1>2. CASE StartGeneration(e, f)
  <2>1. Contract!DeliveriesOf(e) = {} /\ Contract!DistinctIn(GroupOf[e]) = {}
    BY <1>2, RetainedMeansDelivered, QuietGroup DEF StartGeneration
  <2>2. audit' = Logged(e, FreshAlert, "new_generation", FALSE) /\ UNCHANGED now
    BY <1>2 DEF StartGeneration, RecordEvent
  <2> QED BY <2>1, <2>2 DEF Contract!Answer, Contract!AnswerNewGeneration,
                            Contract!Entry, Logged, FreshAlert
<1>3. CASE RecordRecurrence(e, f)
  <2>1. Contract!DeliveriesOf(e) = {}
    BY <1>3, RetainedMeansDelivered DEF RecordRecurrence
  <2>2. Contract!DistinctIn(GroupOf[e]) # {}
    <3>1. /\ GroupOf[e] \in DOMAIN groups
          /\ groups[GroupOf[e]].lastSeen \in Int /\ now \in Int /\ Window \in Int
          /\ now - groups[GroupOf[e]].lastSeen <= Window
      BY <1>3, WindowAssumption DEF RecordRecurrence, Remembered, TypeOK, GroupRow
    <3> QED BY <3>1, QuietGroup
  <2>3. audit' = Logged(e, FreshAlert, "repeated", FALSE) /\ UNCHANGED now
    BY <1>3 DEF RecordRecurrence, RecordEvent
  <2> QED BY <2>1, <2>2, <2>3 DEF Contract!Answer, Contract!AnswerRepeated,
                                  Contract!Entry, Logged, FreshAlert
<1> QED
  BY <1>1, <1>2, <1>3 DEF Deliver

(* The deduplicator implements its contract: a record that slides with     *)
(* re-deliveries and is deleted when it expires, and one timestamp per     *)
(* group, decide as the whole history of deliveries would.                 *)
THEOREM RefinesContract == MonotoneClock => (Spec => ImplementsContract)
<1> SUFFICES ASSUME MonotoneClock
             PROVE  Spec => ImplementsContract
  OBVIOUS
<1>1. Init => Contract!Init
  BY DEF Init, Contract!Init
<1>2. Remembered /\ [Next]_vars => [Contract!Next]_(Contract!vars)
  <2> SUFFICES ASSUME Remembered, [Next]_vars
               PROVE  [Contract!Next]_(Contract!vars)
    OBVIOUS
  <2>1. ASSUME NEW e \in Events, NEW f \in Fingerprints, Deliver(e, f)
        PROVE  Contract!Next
    BY <2>1, DeliverAnswers DEF Contract!Next
  <2>2. CASE Tick
    BY <2>2 DEF Tick, Contract!Next
  <2>3. CASE UNCHANGED vars
    BY <2>3 DEF vars, Contract!vars
  <2> QED BY <2>1, <2>2, <2>3 DEF Next
<1> QED
  BY <1>1, <1>2, SpecRemembers, PTL DEF Spec, ImplementsContract, Contract!Spec
=============================================================================
