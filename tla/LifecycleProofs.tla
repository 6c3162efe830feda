--------------------------- MODULE LifecycleProofs ---------------------------
(***************************************************************************)
(* Proofs about IncidentLifecycle, for every TTL, batch limit and bound:   *)
(* the audit log tells the status and forms a chain, timestamps witness    *)
(* the status, a close is undone only by a request in flight over an       *)
(* automatic close, and the sweeper closes only what nobody touched for a  *)
(* whole TTL.  The safety of a step rests on what the row of the table     *)
(* and the rows of the log say of one incident, so the lemmas are about    *)
(* one incident and two versions a and b of the log.                       *)
(***************************************************************************)
EXTENDS IncidentLifecycle, FiniteSetTheorems, TLAPS

Stamp == Nat \ {0}
Counted == {"created", "status_updated", "auto_closed"}

IncidentRow ==
  [status : Statuses, updatedAt : Stamp, acknowledgedAt : Nat, resolvedAt : Nat]
AuditRow ==
  [incident : Nat, actor : {"analyst", "decisions", "sweeper"},
   action : Counted \cup {"containment_requested", "escalated"},
   before : Statuses, after : Statuses, at : Stamp]
Request == [incident : Nat, from : Statuses, target : Statuses, at : Stamp]
Candidate == [incident : Nat, status : Statuses, updatedAt : Stamp]

(* The rows of a log about the status of incident i, and the newest.       *)
Rows(a, i) == {k \in DOMAIN a : a[k].incident = i /\ a[k].action \in Counted}
Latest(a, i, k) == k \in Rows(a, i) /\ \A m \in Rows(a, i) : m <= k

(* b is a with the counted row `row` after it, and uncounted rows of any   *)
(* number behind; or with uncounted rows only.                             *)
Prefix(a, b) ==
  /\ a \in Seq(AuditRow) /\ b \in Seq(AuditRow)
  /\ Len(a) <= Len(b)
  /\ \A k \in 1..Len(a) : b[k] = a[k]

Extended(a, b, row) ==
  /\ Prefix(a, b)
  /\ row.action \in Counted
  /\ Len(a) + 1 <= Len(b)
  /\ b[Len(a) + 1] = row
  /\ \A k \in (Len(a) + 2)..Len(b) : b[k].action \notin Counted

Padded(a, b) ==
  /\ Prefix(a, b)
  /\ \A k \in (Len(a) + 1)..Len(b) : b[k].action \notin Counted

LEMMA StatusRowsAreRows ==
  /\ \A i : StatusRowsOf(i) = Rows(audit, i)
  /\ \A i : StatusRowsOf(i)' = Rows(audit', i)
BY DEF StatusRowsOf, Rows, Counted

LEMMA RowsKept ==
  ASSUME NEW a, NEW b, Prefix(a, b), NEW i
  PROVE  \A k \in Rows(a, i) : /\ k \in Nat /\ k <= Len(a)
                               /\ b[k] = a[k] /\ k \in Rows(b, i)
BY DEF Prefix, Rows

LEMMA RowsPadded ==
  ASSUME NEW a, NEW b, Padded(a, b), NEW i
  PROVE  Rows(b, i) = Rows(a, i)
BY DEF Padded, Prefix, Rows

LEMMA RowsExtended ==
  ASSUME NEW a, NEW b, NEW row, Extended(a, b, row), NEW i
  PROVE  /\ i = row.incident => Rows(b, i) = Rows(a, i) \cup {Len(a) + 1}
         /\ i # row.incident => Rows(b, i) = Rows(a, i)
         /\ Len(a) + 1 \in Nat
         /\ \A k \in Rows(a, i) : k < Len(a) + 1
<1>1. PICK m \in Nat, n \in Nat : /\ m = Len(a) /\ n = Len(b) /\ m + 1 <= n
                                  /\ DOMAIN a = 1..m /\ DOMAIN b = 1..n
  BY DEF Extended, Prefix
<1>2. /\ \A k \in 1..m : b[k] = a[k]
      /\ b[m + 1] = row /\ row.action \in Counted
      /\ \A k \in (m + 2)..n : b[k].action \notin Counted
  BY <1>1 DEF Extended, Prefix
<1>3. \A k : k \in Rows(a, i) <=> k \in 1..m /\ a[k].incident = i /\ a[k].action \in Counted
  BY <1>1 DEF Rows
<1>4. \A k : k \in Rows(b, i) <=> k \in 1..n /\ b[k].incident = i /\ b[k].action \in Counted
  BY <1>1 DEF Rows
<1>5. PICK p \in Nat : p = m + 1
  OBVIOUS
<1>6. p \in 1..n /\ p \notin 1..m
  BY <1>1, <1>5
<1>7. \A k : k \in Rows(b, i) <=> k \in Rows(a, i) \/ (k = p /\ row.incident = i)
  <2> SUFFICES ASSUME NEW k
               PROVE  k \in Rows(b, i) <=> k \in Rows(a, i) \/ (k = p /\ row.incident = i)
    OBVIOUS
  <2>1. /\ k \in Rows(a, i) <=> k \in 1..m /\ a[k].incident = i /\ a[k].action \in Counted
        /\ k \in Rows(b, i) <=> k \in 1..n /\ b[k].incident = i /\ b[k].action \in Counted
    BY <1>3, <1>4
  <2>2. CASE k \in 1..m
    <3>1. k \in 1..n /\ b[k] = a[k] /\ k # p
      BY <1>1, <1>2, <1>6, <2>2
    <3>2. b[k].incident = a[k].incident /\ b[k].action = a[k].action
      BY <3>1
    <3> QED BY <2>1, <2>2, <3>1, <3>2, Zenon
  <2>3. CASE k = p
    <3>1. k \in 1..n /\ k \notin 1..m /\ b[k] = row /\ row.action \in Counted
      BY <1>2, <1>5, <1>6, <2>3
    <3> QED BY <2>1, <2>3, <3>1
  <2>4. CASE k \notin 1..m /\ k # p
    <3>1. k \in 1..n => b[k].action \notin Counted
      <4>1. k \in 1..n => k \in (m + 2)..n
        BY <1>5, <2>4
      <4> QED BY <1>2, <4>1
    <3> QED BY <2>1, <2>4, <3>1
  <2> QED BY <2>2, <2>3, <2>4
<1>8. i = row.incident => Rows(b, i) = Rows(a, i) \cup {p}
  BY <1>7, Zenon
<1>9. i # row.incident => Rows(b, i) = Rows(a, i)
  BY <1>7, Zenon
<1>10. \A k \in Rows(a, i) : k < p
  BY <1>3, <1>5
<1> QED
  BY <1>1, <1>5, <1>8, <1>9, <1>10

LEMMA RowsOwn ==
  ASSUME NEW a, NEW b, NEW row, Extended(a, b, row), NEW i, i = row.incident
  PROVE  Rows(b, i) = Rows(a, i) \cup {Len(a) + 1} /\ Len(a) + 1 \in Nat
BY RowsExtended

LEMMA LatestUnique ==
  ASSUME NEW a \in Seq(AuditRow), NEW i, NEW j, NEW k, Latest(a, i, j), Latest(a, i, k)
  PROVE  j = k
BY DEF Latest, Rows

-----------------------------------------------------------------------------
(* What holds of one incident: w its row in the table, t the clock.        *)

Links(before, top, actor) ==
  \/ before = top.after
  \/ top.actor = "sweeper" /\ actor = "analyst" /\ before = top.before

Chained(a, i) ==
  \A j, k \in Rows(a, i) :
    Consecutive(Rows(a, i), j, k) => Links(a[k].before, a[j], a[k].actor)

Overwritten(a, i) ==
  \E j, k \in Rows(a, i) : Consecutive(Rows(a, i), j, k) /\ a[j].actor = "sweeper"

Witnessed(a, i, w) ==
  /\ w.status \in Terminal => w.resolvedAt # None
  /\ w.status = Acknowledged => w.acknowledgedAt # None
  /\ w.resolvedAt # None /\ w.status \notin Terminal => Overwritten(a, i)

Told(a, i, w) ==
  \E k : Latest(a, i, k) /\ a[k].after = w.status /\ a[k].at = w.updatedAt

Timed(a, t, i, w) ==
  /\ w.updatedAt <= t
  /\ \A k \in Rows(a, i) : /\ a[k].at <= t
                           /\ a[k].actor # "sweeper" => a[k].at <= w.updatedAt
                           /\ a[k].actor = "sweeper" => a[k].after = Resolved

Sound(a, t, i, w) ==
  Told(a, i, w) /\ Chained(a, i) /\ Witnessed(a, i, w) /\ Timed(a, t, i, w)

(* And of a request that has read its incident: the newest row still tells *)
(* the status read, or is an automatic close of that status.               *)
Current(a, t, r) ==
  /\ r.from \notin Terminal
  /\ r.at <= t
  /\ \E k : Latest(a, r.incident, k) /\ Links(r.from, a[k], "analyst")
  /\ \A k \in Rows(a, r.incident) : a[k].actor # "sweeper" => a[k].at <= r.at

LEMMA SameRows ==
  ASSUME NEW a, NEW b, NEW i, NEW w, NEW t,
         Rows(b, i) = Rows(a, i), \A k \in Rows(a, i) : b[k] = a[k]
  PROVE  /\ Sound(a, t, i, w) => Sound(b, t, i, w)
         /\ \A r : r.incident = i /\ Current(a, t, r) => Current(b, t, r)
<1>1. Told(a, i, w) => Told(b, i, w)
  BY DEF Told, Latest
<1>2. Chained(a, i) => Chained(b, i)
  BY DEF Chained
<1>3. Witnessed(a, i, w) => Witnessed(b, i, w)
  BY DEF Witnessed, Overwritten
<1>4. Timed(a, t, i, w) => Timed(b, t, i, w)
  BY DEF Timed
<1>5. ASSUME NEW r, r.incident = i, Current(a, t, r)
      PROVE  Current(b, t, r)
  BY <1>5 DEF Current, Latest
<1> QED
  BY <1>1, <1>2, <1>3, <1>4, <1>5 DEF Sound

LEMMA Elsewhere ==
  ASSUME NEW a, NEW b, NEW row, NEW i, NEW w, NEW t,
         Padded(a, b) \/ (Extended(a, b, row) /\ i # row.incident)
  PROVE  /\ Sound(a, t, i, w) => Sound(b, t, i, w)
         /\ \A r : r.incident = i /\ Current(a, t, r) => Current(b, t, r)
<1>1. Prefix(a, b)
  BY DEF Padded, Extended
<1>2. Rows(b, i) = Rows(a, i)
  BY RowsPadded, RowsExtended
<1>3. \A k \in Rows(a, i) : b[k] = a[k]
  BY <1>1, RowsKept
<1> QED
  BY <1>2, <1>3, SameRows

(* The chain grows at its end.                                             *)
LEMMA ChainGrows ==
  ASSUME NEW a, NEW b, NEW row, Extended(a, b, row), NEW i, i = row.incident, Chained(a, i),
         \A k : Latest(a, i, k) => Links(row.before, a[k], row.actor)
  PROVE  Chained(b, i)
<1> DEFINE n == Len(a) + 1
<1>0. Prefix(a, b) /\ b[n] = row
  BY DEF Extended
<1>1. /\ Rows(b, i) = Rows(a, i) \cup {n}
      /\ \A k \in Rows(a, i) : k \in Nat /\ k < n /\ b[k] = a[k]
      /\ n \in Nat /\ b[n] = row
  <2>1. \A k \in Rows(a, i) : k \in Nat /\ b[k] = a[k]
    BY <1>0, RowsKept
  <2>2. /\ Rows(b, i) = Rows(a, i) \cup {n}
        /\ n \in Nat
        /\ \A k \in Rows(a, i) : k < n
    BY RowsExtended
  <2> QED BY <1>0, <2>1, <2>2
<1> HIDE DEF n
<1> SUFFICES ASSUME NEW j \in Rows(b, i), NEW k \in Rows(b, i), Consecutive(Rows(b, i), j, k)
             PROVE  Links(b[k].before, b[j], b[k].actor)
  BY DEF Chained
<1>2. j \in Rows(a, i) /\ j < k
  BY <1>1 DEF Consecutive
<1>3. CASE k \in Rows(a, i)
  <2>1. Consecutive(Rows(a, i), j, k)
    BY <1>1 DEF Consecutive
  <2> QED
    BY <1>1, <1>2, <1>3, <2>1 DEF Chained
<1>4. CASE k = n
  <2>1. Latest(a, i, j)
    BY <1>1, <1>2, <1>4 DEF Consecutive, Latest
  <2> QED
    BY <1>1, <1>2, <1>4, <2>1
<1> QED
  BY <1>1, <1>3, <1>4

(* What was overwritten stays so, and a row after an automatic close is.   *)
LEMMA OverwrittenGrows ==
  ASSUME NEW a, NEW b, NEW row, Extended(a, b, row), NEW i, i = row.incident,
         \/ Overwritten(a, i)
         \/ \E k : Latest(a, i, k) /\ a[k].actor = "sweeper"
  PROVE  Overwritten(b, i)
<1> DEFINE n == Len(a) + 1
<1>0. Prefix(a, b) /\ b[n] = row
  BY DEF Extended
<1>1. /\ Rows(b, i) = Rows(a, i) \cup {n}
      /\ \A k \in Rows(a, i) : k \in Nat /\ k < n /\ b[k] = a[k]
      /\ n \in Nat
  <2>1. Rows(b, i) = Rows(a, i) \cup {n} /\ n \in Nat
    BY RowsOwn
  <2>2. \A k \in Rows(a, i) : k < n
    BY RowsExtended
  <2>3. \A k \in Rows(a, i) : k \in Nat /\ b[k] = a[k]
    BY <1>0, RowsKept
  <2> QED BY <2>1, <2>2, <2>3
<1> HIDE DEF n
<1>2. CASE Overwritten(a, i)
  <2>1. PICK j \in Rows(a, i), k \in Rows(a, i) :
          Consecutive(Rows(a, i), j, k) /\ a[j].actor = "sweeper"
    BY <1>2 DEF Overwritten
  <2>2. Consecutive(Rows(b, i), j, k)
    BY <1>1, <2>1 DEF Consecutive
  <2> QED
    BY <1>1, <2>1, <2>2 DEF Overwritten
<1>3. CASE \E k : Latest(a, i, k) /\ a[k].actor = "sweeper"
  <2>1. PICK k : Latest(a, i, k) /\ a[k].actor = "sweeper"
    BY <1>3
  <2>2. Consecutive(Rows(b, i), k, n) /\ k \in Rows(a, i)
    BY <1>1, <2>1 DEF Consecutive, Latest
  <2> QED
    BY <1>1, <2>1, <2>2 DEF Overwritten
<1> QED
  BY <1>2, <1>3

LEMMA NewestIsLatest ==
  ASSUME NEW a, NEW b, NEW row, Extended(a, b, row)
  PROVE  Latest(b, row.incident, Len(a) + 1) /\ b[Len(a) + 1] = row
<1> DEFINE n == Len(a) + 1
<1>0. Prefix(a, b) /\ b[n] = row
  BY DEF Extended
<1>1. /\ Rows(b, row.incident) = Rows(a, row.incident) \cup {n}
      /\ \A k \in Rows(a, row.incident) : k \in Nat /\ k < n
      /\ n \in Nat /\ b[n] = row
  <2>1. \A k \in Rows(a, row.incident) : k \in Nat
    BY <1>0, RowsKept
  <2>2. /\ Rows(b, row.incident) = Rows(a, row.incident) \cup {n}
        /\ n \in Nat
        /\ \A k \in Rows(a, row.incident) : k < n
    BY RowsExtended
  <2> QED BY <1>0, <2>1, <2>2
<1> HIDE DEF n
<1>2. Latest(b, row.incident, n)
  BY <1>1 DEF Latest
<1> QED
  BY <1>1, <1>2 DEF n

(* The incident a counted row is about: its row in the table is rewritten. *)
LEMMA Touched ==
  ASSUME NEW a, NEW b, NEW row, Extended(a, b, row), NEW t \in Nat, NEW i, i = row.incident,
         NEW old, Sound(a, t, i, old),
         NEW new \in IncidentRow,
         row.after = new.status, row.at = new.updatedAt, row.at <= t,
         row.before \notin Terminal,
         \A k : Latest(a, i, k) => Links(row.before, a[k], row.actor),
         \A k \in Rows(a, i) : a[k].actor # "sweeper" => a[k].at <= new.updatedAt,
         row.actor = "sweeper" => row.after = Resolved,
         new.status \in Terminal => new.resolvedAt # None,
         new.status = Acknowledged => new.acknowledgedAt # None,
         new.resolvedAt # None /\ new.status \notin Terminal => old.resolvedAt # None
  PROVE  Sound(b, t, i, new)
<1> DEFINE n == Len(a) + 1
<1>1. Told(b, i, new)
  <2>1. Latest(b, i, n) /\ b[n] = row
    BY NewestIsLatest
  <2> HIDE DEF n
  <2> QED
    BY <2>1 DEF Told
<1>2. Chained(b, i)
  BY ChainGrows DEF Sound
<1>3. Witnessed(b, i, new)
  <2>1. ASSUME new.resolvedAt # None, new.status \notin Terminal
        PROVE  Overwritten(b, i)
    <3>1. CASE old.status \notin Terminal
      BY <2>1, <3>1, OverwrittenGrows DEF Sound, Witnessed
    <3>2. CASE old.status \in Terminal
      <4>1. PICK k : Latest(a, i, k) /\ a[k].after = old.status
        BY DEF Sound, Told
      <4>2. a[k].actor = "sweeper"
        BY <3>2, <4>1 DEF Links
      <4> QED
        BY <4>1, <4>2, OverwrittenGrows
    <3> QED
      BY <3>1, <3>2
  <2> QED
    BY <2>1 DEF Witnessed
<1>4. Timed(b, t, i, new)
  <2>1. Prefix(a, b) /\ b[n] = row
    BY DEF Extended
  <2>2. Rows(b, i) = Rows(a, i) \cup {n}
    BY RowsOwn
  <2>5. \A k \in Rows(a, i) : b[k] = a[k]
    BY <2>1, RowsKept
  <2>3. \A k \in Rows(a, i) : a[k].at <= t /\ (a[k].actor = "sweeper" => a[k].after = Resolved)
    BY DEF Sound, Timed
  <2>4. row.at <= new.updatedAt
    BY DEF IncidentRow, Stamp
  <2> HIDE DEF n
  <2> QED
    BY <2>1, <2>2, <2>3, <2>4, <2>5 DEF Timed
<1> QED
  BY <1>1, <1>2, <1>3, <1>4 DEF Sound

(* A new incident, which no row of the log is about yet.                   *)
LEMMA Born ==
  ASSUME NEW a, NEW b, NEW row, Extended(a, b, row), NEW t \in Nat, NEW i, i = row.incident,
         NEW new \in IncidentRow, Rows(a, i) = {},
         row.after = new.status, row.at = new.updatedAt, row.at <= t,
         row.actor # "sweeper",
         new.status = Open, new.resolvedAt = None
  PROVE  Sound(b, t, i, new)
<1> DEFINE n == Len(a) + 1
<1>0. Rows(b, i) = Rows(a, i) \cup {n} /\ n \in Nat
  BY RowsOwn
<1>1. Latest(b, i, n) /\ b[n] = row /\ Rows(b, i) = {n} /\ n \in Nat
  BY <1>0, NewestIsLatest
<1>2. row.at <= new.updatedAt
  BY DEF IncidentRow, Stamp
<1> HIDE DEF n
<1>3. Told(b, i, new)
  BY <1>1 DEF Told
<1>4. Chained(b, i)
  BY <1>1 DEF Chained, Consecutive
<1>5. Witnessed(b, i, new)
  BY DEF Witnessed, Open, Acknowledged, Terminal, Resolved, FalsePositive
<1>6. Timed(b, t, i, new)
  BY <1>1, <1>2 DEF Timed
<1> QED
  BY <1>3, <1>4, <1>5, <1>6 DEF Sound

(* The sweeper closes the incident of a request in flight.                 *)
LEMMA Overtaken ==
  ASSUME NEW a, NEW b, NEW row, Extended(a, b, row), NEW t, NEW r, r.incident = row.incident,
         Current(a, t, r), row.actor = "sweeper", row.before \notin Terminal,
         \A k : Latest(a, r.incident, k) => row.before = a[k].after,
         \A k \in Rows(a, r.incident) : a[k].actor = "sweeper" => a[k].after = Resolved
  PROVE  Current(b, t, r)
<1> DEFINE n == Len(a) + 1
<1> DEFINE i == r.incident
<1>1. Latest(b, i, n) /\ b[n] = row
  BY NewestIsLatest
<1>2. Prefix(a, b)
  BY DEF Extended
<1>3. Rows(b, i) = Rows(a, i) \cup {n}
  <2>1. i = row.incident
    OBVIOUS
  <2> HIDE DEF i
  <2> QED BY <2>1, RowsExtended
<1>8. \A k \in Rows(a, i) : b[k] = a[k]
  BY <1>2, RowsKept
<1> HIDE DEF n
<1>4. PICK k : Latest(a, i, k) /\ Links(r.from, a[k], "analyst")
  BY DEF Current
<1>5. row.before = a[k].after
  BY <1>4
<1>6. a[k].actor # "sweeper"
  BY <1>4, <1>5 DEF Latest, Terminal
<1>7. Links(r.from, b[n], "analyst")
  BY <1>1, <1>4, <1>5, <1>6 DEF Links
<1> QED
  BY <1>1, <1>3, <1>7, <1>8 DEF Current

-----------------------------------------------------------------------------
(* The inductive invariant.                                                *)

TypeOK ==
  /\ now \in Stamp
  /\ IsFiniteSet(DOMAIN incidents)
  /\ DOMAIN incidents = 1..Cardinality(DOMAIN incidents)
  /\ incidents \in [DOMAIN incidents -> IncidentRow]
  /\ audit \in Seq(AuditRow)
  /\ \A k \in DOMAIN audit : audit[k].incident \in DOMAIN incidents
  /\ requests \subseteq Request
  /\ \A r, s \in requests : r = s
  /\ \A r \in requests : r.incident \in DOMAIN incidents
  /\ sweep \in [asOf : Nat, pending : SUBSET Candidate]
  /\ \A c \in sweep.pending : c.incident \in DOMAIN incidents

SweepSound ==
  /\ sweep.asOf <= now
  /\ \A c \in sweep.pending : c.status \notin Terminal /\ sweep.asOf # 0

Inv ==
  /\ TypeOK
  /\ \A i \in DOMAIN incidents : Sound(audit, now, i, incidents[i])
  /\ \A r \in requests : Current(audit, now, r)
  /\ SweepSound

LEMMA InvInit == Init => Inv
<1> SUFFICES ASSUME Init PROVE Inv
  OBVIOUS
<1>1. DOMAIN incidents = {} /\ IsFiniteSet(DOMAIN incidents) /\ Cardinality(DOMAIN incidents) = 0
  BY FS_EmptySet DEF Init
<1>2. 1..0 = {}
  OBVIOUS
<1>3. incidents \in [DOMAIN incidents -> IncidentRow]
  BY DEF Init
<1>4. audit \in Seq(AuditRow) /\ DOMAIN audit = {}
  BY DEF Init
<1>5. sweep \in [asOf : Nat, pending : SUBSET Candidate] /\ sweep.pending = {} /\ sweep.asOf = 0
  BY DEF Init, IdleSweep
<1>6. now \in Stamp /\ requests = {}
  BY DEF Init, Stamp
<1> QED
  BY <1>1, <1>2, <1>3, <1>4, <1>5, <1>6 DEF Inv, TypeOK, SweepSound, Stamp

-----------------------------------------------------------------------------
(* What the actions append.                                                *)

LEMMA AppendExtends ==
  ASSUME NEW a \in Seq(AuditRow), NEW row \in AuditRow
  PROVE  /\ Append(a, row) \in Seq(AuditRow)
         /\ row.action \in Counted => Extended(a, Append(a, row), row)
         /\ row.action \notin Counted => Padded(a, Append(a, row))
         /\ \A k \in DOMAIN Append(a, row) :
              Append(a, row)[k].incident = row.incident
                \/ (k \in DOMAIN a /\ Append(a, row)[k] = a[k])
<1> DEFINE b == Append(a, row)
<1>1. /\ b \in Seq(AuditRow) /\ Len(b) = Len(a) + 1 /\ Len(a) \in Nat
      /\ b[Len(a) + 1] = row
      /\ \A k \in 1..Len(a) : b[k] = a[k]
      /\ DOMAIN a = 1..Len(a) /\ DOMAIN b = 1..(Len(a) + 1)
  OBVIOUS
<1> HIDE DEF b
<1>2. Prefix(a, b)
  BY <1>1 DEF Prefix
<1>3. row.action \in Counted => Extended(a, b, row)
  BY <1>1, <1>2 DEF Extended
<1>4. row.action \notin Counted => Padded(a, b)
  BY <1>1, <1>2 DEF Padded
<1>5. \A k \in DOMAIN b : b[k].incident = row.incident \/ (k \in DOMAIN a /\ b[k] = a[k])
  BY <1>1
<1> QED
  BY <1>1, <1>3, <1>4, <1>5 DEF b

LEMMA StatusRowsExtend ==
  ASSUME NEW a \in Seq(AuditRow), NEW i \in Nat, NEW from \in Statuses, NEW to \in Statuses,
         NEW at \in Stamp
  PROVE  LET b == a \o StatusRows(i, from, to, at)
             row == [incident |-> i, actor |-> "analyst", action |-> "status_updated",
                     before |-> from, after |-> to, at |-> at]
         IN  /\ b \in Seq(AuditRow)
             /\ Extended(a, b, row)
             /\ \A k \in DOMAIN b : b[k].incident = i \/ (k \in DOMAIN a /\ b[k] = a[k])
<1> DEFINE b == a \o StatusRows(i, from, to, at)
<1> DEFINE row == [incident |-> i, actor |-> "analyst", action |-> "status_updated",
                   before |-> from, after |-> to, at |-> at]
<1> DEFINE second == [row EXCEPT !.action = "escalated"]
<1>1. row \in AuditRow /\ row.incident = i /\ row.action \in Counted
  <2>2. row \in AuditRow
    BY DEF AuditRow, Counted
  <2>3. row.incident = i /\ row.action = "status_updated"
    OBVIOUS
  <2> QED
    BY <2>2, <2>3 DEF Counted
<1>2. second \in AuditRow /\ second.incident = i /\ second.action \notin Counted
  <2> HIDE DEF row
  <2>1. second \in AuditRow
    BY <1>1 DEF AuditRow, Counted
  <2>2. second.incident = i /\ second.action = "escalated"
    BY <1>1 DEF AuditRow
  <2> QED
    BY <2>1, <2>2 DEF Counted
<1>3. StatusRows(i, from, to, at) = <<row, second>> \/ StatusRows(i, from, to, at) = <<row>>
  BY DEF StatusRows
<1> HIDE DEF row, second
<1>4. CASE StatusRows(i, from, to, at) = <<row>>
  <2>1. b = a \o <<row>>
    BY <1>4
  <2> HIDE DEF b
  <2>2. /\ b \in Seq(AuditRow) /\ Len(b) = Len(a) + 1 /\ Len(a) \in Nat
        /\ b[Len(a) + 1] = row
        /\ \A k \in 1..Len(a) : b[k] = a[k]
        /\ DOMAIN a = 1..Len(a) /\ DOMAIN b = 1..(Len(a) + 1)
    BY <1>1, <2>1
  <2>3. Extended(a, b, row)
    BY <1>1, <2>2 DEF Extended, Prefix
  <2>4. \A k \in DOMAIN b : b[k].incident = i \/ (k \in DOMAIN a /\ b[k] = a[k])
    BY <1>1, <2>2
  <2> QED
    BY <2>2, <2>3, <2>4 DEF b, row
<1>5. CASE StatusRows(i, from, to, at) = <<row, second>>
  <2>1. b = a \o <<row, second>>
    BY <1>5
  <2> HIDE DEF b
  <2>2. /\ b \in Seq(AuditRow) /\ Len(b) = Len(a) + 2 /\ Len(a) \in Nat
        /\ b[Len(a) + 1] = row /\ b[Len(a) + 2] = second
        /\ \A k \in 1..Len(a) : b[k] = a[k]
        /\ DOMAIN a = 1..Len(a) /\ DOMAIN b = 1..(Len(a) + 2)
    BY <1>1, <1>2, <2>1
  <2>3. Extended(a, b, row)
    BY <1>1, <1>2, <2>2 DEF Extended, Prefix
  <2>4. \A k \in DOMAIN b : b[k].incident = i \/ (k \in DOMAIN a /\ b[k] = a[k])
    BY <1>1, <1>2, <2>2
  <2> QED
    BY <2>2, <2>3, <2>4 DEF b, row
<1> QED
  BY <1>3, <1>4, <1>5

-----------------------------------------------------------------------------
(* The steps.                                                              *)

(* The part of the type invariant that the tables and the clock decide.    *)
Tables ==
  /\ now \in Stamp
  /\ IsFiniteSet(DOMAIN incidents)
  /\ DOMAIN incidents = 1..Cardinality(DOMAIN incidents)
  /\ incidents \in [DOMAIN incidents -> IncidentRow]
  /\ audit \in Seq(AuditRow)
  /\ \A k \in DOMAIN audit : audit[k].incident \in DOMAIN incidents

LEMMA Typed ==
  ASSUME TypeOK
  PROVE  /\ \A i \in DOMAIN incidents : i \in Nat /\ incidents[i] \in IncidentRow
         /\ \A k \in DOMAIN audit : audit[k] \in AuditRow
<1>1. Cardinality(DOMAIN incidents) \in Nat
  BY FS_CardinalityType DEF TypeOK
<1>2. \A i \in DOMAIN incidents : i \in Nat
  BY <1>1 DEF TypeOK
<1>3. \A i \in DOMAIN incidents : incidents[i] \in IncidentRow
  BY DEF TypeOK
<1>4. \A k \in DOMAIN audit : audit[k] \in AuditRow
  BY DEF TypeOK
<1> QED
  BY <1>2, <1>3, <1>4

(* A step that only lets time pass, or hands work over.                    *)
LEMMA Idle ==
  ASSUME Inv, UNCHANGED <<incidents, audit>>, now' \in Stamp, now <= now'
  PROVE  /\ Tables'
         /\ \A i \in DOMAIN incidents' : Sound(audit, now, i, incidents[i])'
         /\ \A r \in requests : Current(audit', now', r)
<1>1. Tables'
  BY DEF Inv, TypeOK, Tables
<1>2. ASSUME NEW i \in DOMAIN incidents
      PROVE  Sound(audit', now', i, incidents'[i])
  <2>1. Sound(audit, now, i, incidents[i])
    BY DEF Inv
  <2>2. incidents[i].updatedAt \in Nat /\ \A k \in Rows(audit, i) : audit[k].at \in Nat
    BY Typed DEF Inv, IncidentRow, AuditRow, Stamp, Rows
  <2>3. Timed(audit, now', i, incidents[i])
    BY <2>1, <2>2 DEF Sound, Timed, Inv, TypeOK, Stamp
  <2> QED
    BY <2>1, <2>3 DEF Sound
<1>3. ASSUME NEW r \in requests
      PROVE  Current(audit', now', r)
  BY DEF Inv, TypeOK, Current, Request, Stamp
<1> QED
  BY <1>1, <1>2, <1>3

LEMMA ReadInv ==
  ASSUME Inv, NEW i \in DOMAIN incidents, NEW target \in Statuses, Read(i, target)
  PROVE  Inv'
<1> DEFINE r == [incident |-> i, from |-> incidents[i].status, target |-> target, at |-> now]
<1>1. /\ requests' = {r} /\ UNCHANGED <<now, incidents, audit, sweep>>
      /\ CanTransition(incidents[i].status, target)
  BY DEF Read
<1>2. i \in Nat /\ incidents[i].status \in Statuses /\ now \in Stamp
  BY Typed DEF Inv, TypeOK, IncidentRow
<1>3. r \in Request /\ r.incident = i /\ r.from = incidents[i].status /\ r.at = now
  BY <1>2 DEF Request
<1> HIDE DEF r
<1>4. incidents[i].status \notin Terminal
  BY <1>1, <1>2 DEF CanTransition, ValidTransitions, Terminal, Open, Investigating,
                    Acknowledged, Resolved, FalsePositive, Escalated
<1>5. Current(audit, now, r)
  <2>1. Sound(audit, now, i, incidents[i])
    BY DEF Inv
  <2>2. PICK k : Latest(audit, i, k) /\ audit[k].after = incidents[i].status
    BY <2>1 DEF Sound, Told
  <2>3. \A m \in Rows(audit, i) : audit[m].at <= now
    BY <2>1 DEF Sound, Timed
  <2>4. Links(r.from, audit[k], "analyst")
    BY <1>3, <2>2 DEF Links
  <2>5. r.at <= now
    BY <1>2, <1>3 DEF Stamp
  <2> QED
    BY <1>3, <1>4, <2>2, <2>3, <2>4, <2>5 DEF Current
<1>6. TypeOK'
  BY <1>1, <1>3 DEF Inv, TypeOK
<1>7. SweepSound'
  BY <1>1 DEF Inv, SweepSound
<1> QED
  BY <1>1, <1>5, <1>6, <1>7 DEF Inv

LEMMA CreateInv ==
  ASSUME Inv, Create
  PROVE  Inv'
<1> DEFINE i == Cardinality(DOMAIN incidents) + 1
<1> DEFINE new == [status |-> Open, updatedAt |-> now, acknowledgedAt |-> None, resolvedAt |-> None]
<1> DEFINE row == CreatedRow(i)
<1>1. /\ DOMAIN incidents' = DOMAIN incidents \cup {i}
      /\ incidents' = [j \in DOMAIN incidents \cup {i} |-> IF j = i THEN new ELSE incidents[j]]
      /\ audit' = Append(audit, row)
      /\ UNCHANGED <<now, requests, sweep>>
  BY DEF Create
<1>2. Cardinality(DOMAIN incidents) \in Nat
  BY FS_CardinalityType DEF Inv, TypeOK
<1>3. i \in Nat /\ i \notin DOMAIN incidents
  <2>1. DOMAIN incidents = 1..Cardinality(DOMAIN incidents)
    BY DEF Inv, TypeOK
  <2> QED BY <1>2, <2>1
<1>4. /\ IsFiniteSet(DOMAIN incidents')
      /\ Cardinality(DOMAIN incidents') = i
  BY <1>1, <1>3, FS_AddElement DEF Inv, TypeOK
<1>5. DOMAIN incidents' = 1..i
  <2> DEFINE n == Cardinality(DOMAIN incidents)
  <2>1. DOMAIN incidents = 1..n /\ n \in Nat
    BY <1>2 DEF Inv, TypeOK
  <2> HIDE DEF n
  <2>2. (1..n) \cup {n + 1} = 1..(n + 1)
    BY <2>1
  <2> QED
    BY <1>1, <2>1, <2>2 DEF n
<1>6. new \in IncidentRow /\ new.status = Open /\ new.updatedAt = now /\ new.resolvedAt = None
  BY DEF Inv, TypeOK, IncidentRow, Statuses, Open, None, Stamp
<1>7. /\ row \in AuditRow /\ row.incident = i /\ row.action \in Counted /\ row.after = Open
      /\ row.at = now /\ row.actor # "sweeper"
  BY <1>3 DEF CreatedRow, AuditRow, Counted, Inv, TypeOK, Statuses, Open
<1> HIDE DEF new, row, i
<1>8. /\ audit' \in Seq(AuditRow) /\ Extended(audit, audit', row)
      /\ \A k \in DOMAIN audit' :
           audit'[k].incident = i \/ (k \in DOMAIN audit /\ audit'[k] = audit[k])
  BY <1>1, <1>7, AppendExtends DEF Inv, TypeOK
<1>9. Rows(audit, i) = {}
  BY <1>3 DEF Inv, TypeOK, Rows
<1>10. incidents' \in [DOMAIN incidents' -> IncidentRow]
  BY <1>1, <1>6 DEF Inv, TypeOK
<1>11. ASSUME NEW j \in DOMAIN incidents'
       PROVE  Sound(audit', now', j, incidents'[j])
  <2>1. CASE j = i
    <3>1. incidents'[i] = new
      BY <1>1
    <3>2. now \in Nat /\ row.at <= now
      BY <1>7 DEF Inv, TypeOK, Stamp
    <3>3. Sound(audit', now, i, new)
      BY <1>6, <1>7, <1>8, <1>9, <3>2, Born
    <3> QED
      BY <1>1, <2>1, <3>1, <3>3
  <2>2. CASE j # i
    <3>1. incidents'[j] = incidents[j] /\ Sound(audit, now, j, incidents[j])
      BY <1>1, <2>2 DEF Inv
    <3> QED
      BY <1>1, <1>7, <1>8, <2>2, <3>1, Elsewhere
  <2> QED
    BY <2>1, <2>2
<1>12. ASSUME NEW r \in requests
       PROVE  Current(audit', now', r)
  <2>1. r.incident # i
    BY <1>3 DEF Inv, TypeOK
  <2>2. Current(audit, now, r)
    BY DEF Inv
  <2> QED
    BY <1>1, <1>7, <1>8, <2>1, <2>2, Elsewhere
<1>13. TypeOK'
  BY <1>1, <1>4, <1>5, <1>8, <1>10 DEF Inv, TypeOK
<1> QED
  BY <1>1, <1>11, <1>12, <1>13 DEF Inv, SweepSound

(* A counted row of an incident of the table is committed with the new row *)
(* of the incident.                                                        *)
LEMMA Written ==
  ASSUME Inv, NEW row \in AuditRow, NEW i \in DOMAIN incidents, i = row.incident,
         Extended(audit, audit', row),
         \A k \in DOMAIN audit' :
           audit'[k].incident = i \/ (k \in DOMAIN audit /\ audit'[k] = audit[k]),
         NEW new \in IncidentRow, incidents' = [incidents EXCEPT ![i] = new], now' = now,
         row.after = new.status, row.at = new.updatedAt, row.at <= now,
         row.before \notin Terminal,
         \A k : Latest(audit, i, k) => Links(row.before, audit[k], row.actor),
         \A k \in Rows(audit, i) : audit[k].actor # "sweeper" => audit[k].at <= new.updatedAt,
         row.actor = "sweeper" => row.after = Resolved,
         new.status \in Terminal => new.resolvedAt # None,
         new.status = Acknowledged => new.acknowledgedAt # None,
         new.resolvedAt # None /\ new.status \notin Terminal => incidents[i].resolvedAt # None
  PROVE  /\ Tables'
         /\ DOMAIN incidents' = DOMAIN incidents
         /\ \A j \in DOMAIN incidents' : Sound(audit, now, j, incidents[j])'
<1>1. DOMAIN incidents' = DOMAIN incidents
  OBVIOUS
<1>2. incidents' \in [DOMAIN incidents -> IncidentRow]
  BY DEF Inv, TypeOK
<1>3. audit' \in Seq(AuditRow)
  BY DEF Extended, Prefix
<1>4. Tables'
  BY <1>1, <1>2, <1>3 DEF Inv, TypeOK, Tables
<1>5. incidents' [i] = new /\ \A j \in DOMAIN incidents : j # i => incidents'[j] = incidents[j]
  BY DEF Inv, TypeOK
<1>6. ASSUME NEW j \in DOMAIN incidents
      PROVE  Sound(audit', now, j, incidents'[j])
  <2>1. Sound(audit, now, j, incidents[j])
    BY DEF Inv
  <2>2. CASE j = i
    <3>1. now \in Nat
      BY DEF Inv, TypeOK, Stamp
    <3>2. Sound(audit, now, i, incidents[i])
      BY <2>1, <2>2
    <3>3. Sound(audit', now, i, new)
      BY <3>1, <3>2, Touched
    <3> QED
      BY <1>5, <2>2, <3>3
  <2>3. CASE j # i
    BY <1>5, <2>1, <2>3, Elsewhere
  <2> QED
    BY <2>2, <2>3
<1> QED
  BY <1>1, <1>4, <1>6

LEMMA CommitInv ==
  ASSUME Inv, NEW r \in requests, CommitUpdate(r)
  PROVE  Inv'
<1> DEFINE i == r.incident
<1> DEFINE new == Updated(incidents[i], r.target, r.at)
<1> DEFINE row == [incident |-> i, actor |-> "analyst", action |-> "status_updated",
                   before |-> r.from, after |-> r.target, at |-> r.at]
<1>1. /\ incidents' = [incidents EXCEPT ![i] = new]
      /\ audit' = audit \o StatusRows(i, r.from, r.target, r.at)
      /\ requests' = {}
      /\ UNCHANGED <<now, sweep>>
  BY DEF CommitUpdate, Inv, TypeOK
<1>2. r \in Request /\ i \in DOMAIN incidents
  BY DEF Inv, TypeOK
<1>3. /\ i \in Nat /\ r.from \in Statuses /\ r.target \in Statuses /\ r.at \in Stamp
      /\ incidents[i] \in IncidentRow
  BY <1>2, Typed DEF Inv, Request
<1>4. new \in IncidentRow
  BY <1>3 DEF IncidentRow, Updated, Stamp
<1>5. /\ new.status = r.target /\ new.updatedAt = r.at
      /\ new.status \in Terminal => new.resolvedAt # None
      /\ new.status = Acknowledged => new.acknowledgedAt # None
      /\ new.status \notin Terminal => new.resolvedAt = incidents[i].resolvedAt
  BY <1>3 DEF IncidentRow, Updated, Stamp, None
<1>6. /\ row \in AuditRow /\ row.incident = i /\ row.actor = "analyst" /\ row.before = r.from
      /\ row.after = r.target /\ row.at = r.at
  BY <1>3 DEF AuditRow, Counted
<1>7. /\ Extended(audit, audit', row)
      /\ \A k \in DOMAIN audit' :
           audit'[k].incident = i \/ (k \in DOMAIN audit /\ audit'[k] = audit[k])
  BY <1>1, <1>3, StatusRowsExtend DEF Inv, TypeOK
<1> HIDE DEF new, row
<1>8. Current(audit, now, r)
  BY DEF Inv
<1>9. /\ r.from \notin Terminal /\ r.at <= now
      /\ \A k \in Rows(audit, i) : audit[k].actor # "sweeper" => audit[k].at <= r.at
  BY <1>8 DEF Current
<1>10. \A k : Latest(audit, i, k) => Links(r.from, audit[k], "analyst")
  <2>1. audit \in Seq(AuditRow)
    BY DEF Inv, TypeOK
  <2> QED
    BY <1>8, <2>1, LatestUnique DEF Current
<1>11. /\ Tables'
       /\ DOMAIN incidents' = DOMAIN incidents
       /\ \A j \in DOMAIN incidents' : Sound(audit, now, j, incidents[j])'
  <2>1. /\ row.after = new.status /\ row.at = new.updatedAt /\ row.at <= now
        /\ row.before \notin Terminal /\ (row.actor = "sweeper" => row.after = Resolved)
    BY <1>5, <1>6, <1>9
  <2>2. \A k : Latest(audit, i, k) => Links(row.before, audit[k], row.actor)
    BY <1>6, <1>10
  <2>3. \A k \in Rows(audit, i) : audit[k].actor # "sweeper" => audit[k].at <= new.updatedAt
    BY <1>5, <1>9
  <2>4. new.resolvedAt # None /\ new.status \notin Terminal => incidents[i].resolvedAt # None
    BY <1>5
  <2>5. incidents' = [incidents EXCEPT ![i] = new] /\ now' = now
    BY <1>1
  <2> HIDE DEF i
  <2> QED BY <1>2, <1>4, <1>5, <1>6, <1>7, <2>1, <2>2, <2>3, <2>4, <2>5, Written
<1>12. TypeOK'
  BY <1>1, <1>11 DEF Inv, TypeOK, Tables
<1> QED
  BY <1>1, <1>11, <1>12 DEF Inv, SweepSound

(* What a close finds: the candidate's status is the incident's, which the *)
(* newest row tells, and the last touch of an analyst is a TTL ago.        *)
LEMMA CloseFinds ==
  ASSUME Inv, NEW c \in sweep.pending, StillStale(c)
  PROVE  /\ c.incident \in DOMAIN incidents
         /\ incidents[c.incident].status = c.status
         /\ c.status \in Statuses \ Terminal
         /\ sweep.asOf \in Stamp /\ sweep.asOf <= now
         /\ \A k \in Rows(audit, c.incident) :
              audit[k].actor # "sweeper" => audit[k].at <= sweep.asOf - TTL
         /\ \A k : Latest(audit, c.incident, k) => c.status = audit[k].after
<1> DEFINE i == c.incident
<1>1. /\ i \in DOMAIN incidents /\ incidents[i].status = c.status
      /\ incidents[i].updatedAt <= sweep.asOf - TTL
      /\ c.status \notin Terminal /\ sweep.asOf # 0 /\ sweep.asOf <= now /\ sweep.asOf \in Nat
  BY DEF StillStale, Inv, TypeOK, SweepSound
<1>2. i \in Nat /\ incidents[i] \in IncidentRow
  BY <1>1, Typed DEF Inv
<1>3. c.status \in Statuses
  BY <1>1, <1>2 DEF IncidentRow
<1>4. Sound(audit, now, i, incidents[i])
  BY <1>1 DEF Inv
<1>5. ASSUME NEW k \in Rows(audit, i), audit[k].actor # "sweeper"
      PROVE  audit[k].at <= sweep.asOf - TTL
  <2>1. audit[k].at <= incidents[i].updatedAt
    BY <1>4, <1>5 DEF Sound, Timed
  <2>2. audit[k].at \in Nat
    BY Typed DEF Inv, Rows, AuditRow, Stamp
  <2> QED
    BY <1>1, <1>2, <2>1, <2>2, TTLAssumption DEF IncidentRow, Stamp
<1>6. ASSUME NEW k, Latest(audit, i, k)
      PROVE  c.status = audit[k].after
  BY <1>1, <1>4, <1>6, LatestUnique DEF Sound, Told, Inv, TypeOK
<1> QED
  BY <1>1, <1>3, <1>5, <1>6 DEF Stamp

LEMMA CloseInv ==
  ASSUME Inv, NEW c \in sweep.pending, SweepClose(c)
  PROVE  Inv'
<1> DEFINE i == c.incident
<1> DEFINE old == incidents[i]
<1> DEFINE closed == [old EXCEPT !.status = Resolved]
<1> DEFINE moved == [closed EXCEPT !.updatedAt = sweep.asOf]
<1> DEFINE new == [moved EXCEPT !.resolvedAt = sweep.asOf]
<1> DEFINE row == ClosedRow(c)
<1>1. StillStale(c) /\ UNCHANGED <<now, requests>> /\ audit' = Append(audit, row)
  BY DEF SweepClose
<1>2. /\ i \in DOMAIN incidents
      /\ old.status = c.status /\ c.status \in Statuses \ Terminal
      /\ sweep.asOf \in Stamp /\ sweep.asOf <= now
      /\ \A k \in Rows(audit, i) : audit[k].actor # "sweeper" => audit[k].at <= sweep.asOf - TTL
      /\ \A k : Latest(audit, i, k) => c.status = audit[k].after
  BY <1>1, CloseFinds
<1>3. i \in Nat /\ old \in IncidentRow
  BY <1>2, Typed DEF Inv
<1>4. incidents' = [incidents EXCEPT ![i] = new]
  <2>1. incidents' = [incidents EXCEPT ![i].status = Resolved,
                                       ![i].updatedAt = sweep.asOf,
                                       ![i].resolvedAt = sweep.asOf]
    BY DEF SweepClose
  <2>2. incidents' = [incidents EXCEPT ![i] =
          [old EXCEPT !.status = Resolved, !.updatedAt = sweep.asOf, !.resolvedAt = sweep.asOf]]
    BY <2>1, Zenon
  <2> QED
    BY <2>2
<1>5. /\ new \in IncidentRow
      /\ new.status = Resolved /\ new.updatedAt = sweep.asOf /\ new.resolvedAt = sweep.asOf
  <2>1. closed \in IncidentRow /\ closed.status = Resolved
    BY <1>3 DEF IncidentRow, Statuses, Terminal
  <2> HIDE DEF closed
  <2>2. moved \in IncidentRow /\ moved.status = Resolved /\ moved.updatedAt = sweep.asOf
    BY <1>2, <2>1 DEF IncidentRow
  <2> HIDE DEF moved
  <2> QED
    BY <1>2, <2>2 DEF IncidentRow, Stamp
<1>6. /\ row \in AuditRow /\ row.incident = i /\ row.actor = "sweeper" /\ row.before = c.status
      /\ row.after = Resolved /\ row.at = sweep.asOf /\ row.action \in Counted
  BY <1>2, <1>3 DEF ClosedRow, AuditRow, Counted, Statuses, Terminal
<1> HIDE DEF new, row
<1>7. /\ Extended(audit, audit', row)
      /\ \A k \in DOMAIN audit' :
           audit'[k].incident = i \/ (k \in DOMAIN audit /\ audit'[k] = audit[k])
  BY <1>1, <1>6, AppendExtends DEF Inv, TypeOK
<1>8. \A k \in Rows(audit, i) : audit[k].actor # "sweeper" => audit[k].at <= new.updatedAt
  <2>1. \A k \in Rows(audit, i) : audit[k].at \in Nat
    BY Typed DEF Inv, Rows, AuditRow, Stamp
  <2> QED
    BY <1>2, <1>5, <2>1, TTLAssumption DEF Stamp
<1>9. \A k : Latest(audit, i, k) => Links(row.before, audit[k], row.actor)
  BY <1>2, <1>6 DEF Links
<1>10. new.status \in Terminal /\ new.resolvedAt # None /\ new.status # Acknowledged
  BY <1>2, <1>5 DEF Terminal, Resolved, Acknowledged, Stamp, None
<1>11. /\ Tables'
       /\ DOMAIN incidents' = DOMAIN incidents
       /\ \A j \in DOMAIN incidents' : Sound(audit, now, j, incidents[j])'
  BY <1>1, <1>2, <1>4, <1>5, <1>6, <1>7, <1>8, <1>9, <1>10, Written
<1>12. ASSUME NEW r \in requests
       PROVE  Current(audit', now', r)
  <2>1. Current(audit, now, r)
    BY DEF Inv
  <2>2. CASE r.incident = i
    <3>1. Sound(audit, now, i, incidents[i])
      BY <1>2 DEF Inv
    <3>2. \A k \in Rows(audit, i) : audit[k].actor = "sweeper" => audit[k].after = Resolved
      BY <3>1 DEF Sound, Timed
    <3>3. \A k : Latest(audit, i, k) => row.before = audit[k].after
      BY <1>2, <1>6
    <3>4. row.before \notin Terminal
      BY <1>2, <1>6
    <3> QED
      BY <1>1, <1>6, <1>7, <2>1, <2>2, <3>2, <3>3, <3>4, Overtaken
  <2>3. CASE r.incident # i
    BY <1>1, <1>6, <1>7, <2>1, <2>3, Elsewhere
  <2> QED
    BY <2>2, <2>3
<1>13. /\ sweep' \in [asOf : Nat, pending : SUBSET Candidate]
       /\ sweep'.asOf = sweep.asOf /\ sweep'.pending \subseteq sweep.pending
  BY DEF SweepClose, Inv, TypeOK
<1>14. TypeOK'
  BY <1>1, <1>11, <1>13 DEF Inv, TypeOK, Tables
<1>15. SweepSound'
  BY <1>1, <1>13 DEF Inv, SweepSound
<1> QED
  BY <1>1, <1>11, <1>12, <1>14, <1>15 DEF Inv

LEMMA ContainmentInv ==
  ASSUME Inv, NEW i \in DOMAIN incidents, RequestContainment(i)
  PROVE  Inv'
<1> DEFINE row == ContainmentRow(i)
<1>1. audit' = Append(audit, row) /\ UNCHANGED <<now, incidents, requests, sweep>>
  BY DEF RequestContainment
<1>2. row \in AuditRow /\ row.incident = i /\ row.action \notin Counted
  BY Typed DEF ContainmentRow, Inv, TypeOK, IncidentRow, AuditRow, Counted
<1> HIDE DEF row
<1>3. /\ audit' \in Seq(AuditRow) /\ Padded(audit, audit')
      /\ \A k \in DOMAIN audit' :
           audit'[k].incident = i \/ (k \in DOMAIN audit /\ audit'[k] = audit[k])
  BY <1>1, <1>2, AppendExtends DEF Inv, TypeOK
<1>4. \A j \in DOMAIN incidents : Sound(audit', now', j, incidents'[j])
  BY <1>1, <1>3, Elsewhere DEF Inv
<1>5. \A r \in requests : Current(audit', now', r)
  BY <1>1, <1>3, Elsewhere DEF Inv
<1>6. TypeOK'
  BY <1>1, <1>3 DEF Inv, TypeOK
<1> QED
  BY <1>1, <1>4, <1>5, <1>6 DEF Inv, SweepSound

(* Steps that write nothing: no request is added, and the candidates of    *)
(* the sweep are old ones or those it selects now.                         *)
LEMMA QuietInv ==
  ASSUME Inv, UNCHANGED <<incidents, audit>>, now' \in Stamp, now <= now',
         requests' \subseteq requests,
         sweep' \in [asOf : Nat, pending : SUBSET Candidate],
         \A c \in sweep'.pending : c.incident \in DOMAIN incidents, SweepSound'
  PROVE  Inv'
<1>1. /\ Tables'
      /\ \A i \in DOMAIN incidents' : Sound(audit, now, i, incidents[i])'
      /\ \A r \in requests : Current(audit', now', r)
  BY Idle
<1>2. TypeOK'
  BY <1>1 DEF Inv, TypeOK, Tables
<1> QED
  BY <1>1, <1>2 DEF Inv

LEMMA SelectInv ==
  ASSUME Inv, SweepSelect
  PROVE  Inv'
<1>1. PICK batch \in SUBSET {AsCandidate(i) : i \in StaleIncidents(now)} :
        sweep' = [asOf |-> now, pending |-> batch]
  BY DEF SweepSelect
<1>2. UNCHANGED <<now, incidents, audit, requests>> /\ now \in Stamp
  BY DEF SweepSelect, Inv, TypeOK
<1>3. ASSUME NEW c \in batch
      PROVE  c \in Candidate /\ c.incident \in DOMAIN incidents /\ c.status \notin Terminal
  <2>1. PICK i \in StaleIncidents(now) : c = AsCandidate(i)
    BY <1>1, <1>3
  <2>2. i \in DOMAIN incidents /\ incidents[i].status \notin Terminal
    BY DEF StaleIncidents, Stale
  <2>3. i \in Nat /\ incidents[i] \in IncidentRow
    BY <2>2, Typed DEF Inv
  <2> QED
    BY <2>1, <2>2, <2>3 DEF AsCandidate, Candidate, IncidentRow
<1>4. /\ sweep' \in [asOf : Nat, pending : SUBSET Candidate]
      /\ sweep'.asOf = now /\ sweep'.pending = batch
  BY <1>1, <1>2, <1>3 DEF Stamp
<1>5. SweepSound'
  BY <1>2, <1>3, <1>4 DEF SweepSound, Stamp
<1>6. now <= now'
  BY <1>2 DEF Stamp
<1> QED
  BY <1>2, <1>3, <1>4, <1>5, <1>6, QuietInv

LEMMA DropInv ==
  ASSUME Inv, NEW c \in sweep.pending, SweepSkip(c) \/ SweepError(c)
  PROVE  Inv'
<1>1. /\ UNCHANGED <<now, incidents, audit, requests>> /\ now \in Stamp
      /\ sweep' = [sweep EXCEPT !.pending = @ \ {c}]
  BY DEF SweepSkip, SweepError, Inv, TypeOK
<1>2. /\ sweep' \in [asOf : Nat, pending : SUBSET Candidate]
      /\ sweep'.asOf = sweep.asOf /\ sweep'.pending \subseteq sweep.pending
  BY <1>1 DEF Inv, TypeOK
<1>3. SweepSound'
  BY <1>1, <1>2 DEF Inv, SweepSound
<1>4. \A d \in sweep'.pending : d.incident \in DOMAIN incidents
  BY <1>2 DEF Inv, TypeOK
<1>5. now <= now'
  BY <1>1 DEF Stamp
<1> QED
  BY <1>1, <1>2, <1>3, <1>4, <1>5, QuietInv

LEMMA StepInv == Inv /\ [Next]_vars => Inv'
<1> SUFFICES ASSUME Inv, [Next]_vars PROVE Inv'
  OBVIOUS
<1>0. /\ now \in Stamp /\ now <= now /\ sweep \in [asOf : Nat, pending : SUBSET Candidate]
      /\ \A c \in sweep.pending : c.incident \in DOMAIN incidents
  BY DEF Inv, TypeOK, Stamp
<1>1. CASE Create
  BY <1>1, CreateInv
<1>2. ASSUME NEW i \in DOMAIN incidents, NEW s \in Statuses, BeginPatch(i, s)
      PROVE  Inv'
  BY <1>2, ReadInv DEF BeginPatch
<1>3. ASSUME NEW i \in DOMAIN incidents, NEW v \in DOMAIN FeedbackTarget, BeginFeedback(i, v)
      PROVE  Inv'
  <2>1. PICK target \in PlannedSync(i, v) : Read(i, target)
    BY <1>3 DEF BeginFeedback
  <2>2. target \in Statuses
    BY <1>3 DEF PlannedSync, FeedbackTarget, Statuses, Terminal
  <2> QED
    BY <1>3, <2>1, <2>2, ReadInv
<1>4. ASSUME NEW i \in DOMAIN incidents, RequestContainment(i)
      PROVE  Inv'
  BY <1>4, ContainmentInv
<1>5. ASSUME NEW r \in requests, CommitUpdate(r)
      PROVE  Inv'
  BY <1>5, CommitInv
<1>6. ASSUME NEW r \in requests, AbortUpdate(r)
      PROVE  Inv'
  <2>1. UNCHANGED <<now, incidents, audit, sweep>> /\ requests' \subseteq requests
    BY <1>6 DEF AbortUpdate
  <2>2. SweepSound'
    BY <2>1 DEF Inv, SweepSound
  <2> QED
    BY <1>0, <2>1, <2>2, QuietInv
<1>7. CASE SweepSelect
  BY <1>7, SelectInv
<1>8. ASSUME NEW c \in sweep.pending, Sweep(c)
      PROVE  Inv'
  BY <1>8, CloseInv, DropInv DEF Sweep
<1>9. CASE Restart
  <2>1. UNCHANGED <<now, incidents, audit>> /\ requests' = {} /\ sweep' = IdleSweep
    BY <1>9 DEF Restart
  <2>2. /\ sweep' \in [asOf : Nat, pending : SUBSET Candidate] /\ sweep'.pending = {}
        /\ sweep'.asOf = 0
    BY <2>1 DEF IdleSweep
  <2>3. SweepSound'
    BY <1>0, <2>1, <2>2 DEF SweepSound, Stamp
  <2> QED
    BY <1>0, <2>1, <2>2, <2>3, QuietInv
<1>10. CASE Tick
  <2>1. UNCHANGED <<incidents, audit, requests, sweep>> /\ now' = now + 1
    BY <1>10 DEF Tick
  <2>2. now' \in Stamp /\ now <= now'
    BY <1>0, <2>1 DEF Stamp
  <2>3. SweepSound'
    BY <1>0, <2>1 DEF Inv, SweepSound, Stamp
  <2> QED
    BY <1>0, <2>1, <2>2, <2>3, QuietInv
<1>11. CASE UNCHANGED vars
  <2>1. UNCHANGED <<now, incidents, audit, requests, sweep>>
    BY <1>11 DEF vars
  <2>2. SweepSound'
    BY <2>1 DEF Inv, SweepSound
  <2> QED
    BY <1>0, <2>1, <2>2, QuietInv
<1> QED
  BY <1>1, <1>2, <1>3, <1>4, <1>5, <1>6, <1>7, <1>8, <1>9, <1>10, <1>11 DEF Next

LEMMA SpecInv == Spec => []Inv
BY InvInit, StepInv, PTL DEF Spec

-----------------------------------------------------------------------------
(* The theorems.                                                           *)

LEMMA InvTells == Inv => AuditTellsStatus
<1> SUFFICES ASSUME Inv, NEW i \in DOMAIN incidents
             PROVE  \E k \in StatusRowsOf(i) : /\ Newest(StatusRowsOf(i), k)
                                               /\ audit[k].after = incidents[i].status
                                               /\ audit[k].at = incidents[i].updatedAt
  BY DEF AuditTellsStatus
<1>1. Told(audit, i, incidents[i])
  BY DEF Inv, Sound
<1> QED
  BY <1>1, StatusRowsAreRows DEF Told, Latest, Newest

LEMMA InvChains == Inv => AuditChain
<1> SUFFICES ASSUME Inv, NEW i \in DOMAIN incidents,
                    NEW j \in Rows(audit, i), NEW k \in Rows(audit, i),
                    Consecutive(Rows(audit, i), j, k)
             PROVE  \/ audit[k].before = audit[j].after
                    \/ /\ audit[j].actor = "sweeper"
                       /\ audit[k].actor = "analyst"
                       /\ audit[k].before = audit[j].before
  BY StatusRowsAreRows DEF AuditChain
<1>1. Chained(audit, i)
  BY DEF Inv, Sound
<1> QED
  BY <1>1 DEF Chained, Links

LEMMA InvWitnesses == Inv => TimestampsWitnessStatus
<1> SUFFICES ASSUME Inv, NEW i \in DOMAIN incidents
             PROVE  /\ incidents[i].status \in Terminal => incidents[i].resolvedAt # None
                    /\ incidents[i].status = Acknowledged => incidents[i].acknowledgedAt # None
                    /\ incidents[i].resolvedAt # None /\ incidents[i].status \notin Terminal
                         => Overwritten(audit, i)
  BY StatusRowsAreRows DEF TimestampsWitnessStatus, Overwritten
<1>1. Witnessed(audit, i, incidents[i])
  BY DEF Inv, Sound
<1> QED
  BY <1>1 DEF Witnessed

(* The newest audit row of an incident tells its status and its time of    *)
(* update, for every interleaving of requests, sweeper and crashes         *)
(* (audit_entries_for_incident_status, auto_close_if_stale).               *)
THEOREM LogTellsStatus == Spec => []AuditTellsStatus
BY SpecInv, InvTells, PTL

(* The audit rows of an incident form a chain that breaks only where a     *)
(* request overwrites an automatic close of the status it had read         *)
(* (audit_entries_for_incident_status).                                    *)
THEOREM LogIsChain == Spec => []AuditChain
BY SpecInv, InvChains, PTL

(* A closed incident shows when it was resolved, an acknowledged one when  *)
(* it was acknowledged, and a resolved_at left on an incident that is not  *)
(* closed betrays an overwritten automatic close (update_status).          *)
THEOREM TimestampsWitness == Spec => []TimestampsWitnessStatus
BY SpecInv, InvWitnesses, PTL

LEMMA OverwriteStep == Inv /\ [Next]_vars =>
  [\A i \in DOMAIN incidents :
       incidents[i].status \in Terminal /\ incidents'[i].status # incidents[i].status
         => \E r \in requests, k \in StatusRowsOf(i) :
              /\ r.incident = i
              /\ Newest(StatusRowsOf(i), k)
              /\ audit[k].actor = "sweeper"
              /\ audit[k].before = r.from]_vars
<1> SUFFICES ASSUME Inv, Next, NEW i \in DOMAIN incidents,
                    incidents[i].status \in Terminal, incidents'[i].status # incidents[i].status
             PROVE  \E r \in requests, k \in Rows(audit, i) :
                      /\ r.incident = i
                      /\ Newest(Rows(audit, i), k)
                      /\ audit[k].actor = "sweeper"
                      /\ audit[k].before = r.from
  BY StatusRowsAreRows
<1>1. ASSUME NEW r \in requests, CommitUpdate(r)
      PROVE  \E k \in Rows(audit, i) : /\ r.incident = i
                                       /\ Newest(Rows(audit, i), k)
                                       /\ audit[k].actor = "sweeper"
                                       /\ audit[k].before = r.from
  <2>1. r.incident = i
    BY <1>1 DEF CommitUpdate, Inv, TypeOK
  <2>2. Current(audit, now, r) /\ Told(audit, i, incidents[i])
    BY DEF Inv, Sound
  <2>3. PICK k : Latest(audit, i, k) /\ Links(r.from, audit[k], "analyst")
    BY <2>1, <2>2 DEF Current
  <2>4. audit[k].after = incidents[i].status
    BY <2>2, <2>3, LatestUnique DEF Told, Inv, TypeOK
  <2>5. audit[k].actor = "sweeper" /\ audit[k].before = r.from
    BY <2>2, <2>3, <2>4 DEF Links, Current
  <2> QED
    BY <2>1, <2>3, <2>5 DEF Latest, Newest
<1>2. ASSUME NEW c \in sweep.pending, SweepClose(c)
      PROVE  FALSE
  <2>1. c.incident = i
    BY <1>2 DEF SweepClose, Inv, TypeOK
  <2>2. StillStale(c)
    BY <1>2 DEF SweepClose
  <2> QED
    BY <2>1, <2>2, CloseFinds
<1>3. ASSUME Create PROVE FALSE
  <2>1. Cardinality(DOMAIN incidents) + 1 \notin DOMAIN incidents
    BY FS_CardinalityType DEF Inv, TypeOK
  <2>2. incidents'[i] = incidents[i]
    BY <1>3, <2>1 DEF Create
  <2> QED
    BY <2>2
<1>4. CASE UNCHANGED incidents
  BY <1>4
<1>5. Create \/ (\E r \in requests : CommitUpdate(r)) \/ (\E c \in sweep.pending : SweepClose(c))
        \/ UNCHANGED incidents
  BY DEF Next, BeginPatch, BeginFeedback, Read, RequestContainment, AbortUpdate, SweepSelect,
         Sweep, SweepSkip, SweepError, Restart, Tick
<1> QED
  BY <1>1, <1>2, <1>3, <1>4, <1>5

(* A closed incident changes its status again in one way only: a request   *)
(* that read it before an automatic close writes over that close           *)
(* (update_status, can_transition).                                        *)
THEOREM ClosedStaysClosed == Spec => OnlyAutoCloseIsOverwritten
BY SpecInv, OverwriteStep, PTL DEF Spec, OnlyAutoCloseIsOverwritten

LEMMA CloseStep == Inv =>
  \A c \in sweep.pending :
    SweepClose(c) => /\ incidents[c.incident].status \notin Terminal
                     /\ \A k \in StatusRowsOf(c.incident) :
                          audit[k].actor # "sweeper" => audit[k].at <= now - TTL
<1> SUFFICES ASSUME Inv, NEW c \in sweep.pending, SweepClose(c)
             PROVE  /\ incidents[c.incident].status \notin Terminal
                    /\ \A k \in Rows(audit, c.incident) :
                         audit[k].actor # "sweeper" => audit[k].at <= now - TTL
  BY StatusRowsAreRows
<1>1. /\ incidents[c.incident].status \notin Terminal
      /\ sweep.asOf \in Stamp /\ sweep.asOf <= now
      /\ \A k \in Rows(audit, c.incident) :
           audit[k].actor # "sweeper" => audit[k].at <= sweep.asOf - TTL
  BY CloseFinds DEF SweepClose
<1>2. \A k \in Rows(audit, c.incident) : audit[k].at \in Nat
  BY Typed DEF Inv, Rows, AuditRow, Stamp
<1>3. now \in Nat
  BY DEF Inv, TypeOK, Stamp
<1> QED
  BY <1>1, <1>2, <1>3, TTLAssumption DEF Stamp

(* The sweeper closes an incident only if no analyst has moved it for a    *)
(* whole TTL, however long ago the pass selected it and however often its  *)
(* status left and came back meanwhile (auto_close_if_stale).              *)
THEOREM SweeperClosesStale == Spec => ClosesOnlyStale
BY SpecInv, CloseStep, PTL DEF Spec, ClosesOnlyStale
=============================================================================
