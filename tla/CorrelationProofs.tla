------------------------- MODULE CorrelationProofs -------------------------
(***************************************************************************)
(* Proofs about Correlation, for every set of kinds of alerts, every       *)
(* window and number of alerts, and any correlations lost: the evidence of *)
(* a membership stays inside its context and connects it, related alerts   *)
(* are together, a merge goes whole into one context, the one created      *)
(* earlier while ids fit their padding, and the audit log replays to the   *)
(* memberships.                                                            *)
(***************************************************************************)
EXTENDS Correlation, WellFoundedInduction, TLAPS

(* Which of two alerts is the newer does not matter to their evidence.     *)
LEMMA EvidenceSymmetric ==
  ASSUME NEW j, NEW k
  PROVE  PairwiseEvidence(j, k) = PairwiseEvidence(k, j)
BY DEF PairwiseEvidence

-----------------------------------------------------------------------------
(* The inductive invariant.  Alerts are recorded in the order of their     *)
(* times, because the clock does not step back: every older alert within   *)
(* the window is a candidate of the newest.  An alert that waits for its   *)
(* correlation is in no context, so the correlation is not skipped.        *)

InOrder == \A i, k \in Recorded : i <= k => alerts[i].receivedAt <= alerts[k].receivedAt

Waits == waiting => Len(alerts) > 0 /\ Len(alerts) \notin DOMAIN members

Rows ==
  /\ alerts \in Seq(AlertRow)
  /\ waiting \in BOOLEAN
  /\ DOMAIN members \subseteq Recorded
  /\ \A m \in DOMAIN members : members[m] = [context |-> members[m].context,
                                            peers |-> members[m].peers]

Inv ==
  /\ Rows
  /\ InOrder
  /\ Waits
  /\ EvidenceStaysInside
  /\ RelatedAreTogether

LEMMA AlertTimes ==
  ASSUME NEW rows \in Seq(AlertRow), NEW i \in DOMAIN rows
  PROVE  rows[i] \in AlertRow /\ rows[i].receivedAt \in Nat
<1>1. rows[i] \in AlertRow
  OBVIOUS
<1> QED
  BY <1>1 DEF AlertRow

(* The newest alert and a peer: what qualifies is comparable and sufficient. *)
LEMMA QualifyingIsRelated ==
  ASSUME Inv, waiting, NEW p \in Qualifying(Len(alerts))
  PROVE  /\ p \in Recorded
         /\ p # Len(alerts)
         /\ Comparable(Len(alerts), p)
         /\ Comparable(p, Len(alerts))
<1> DEFINE a == Len(alerts)
<1>1. a \in Recorded /\ p \in Recorded /\ p # a
  BY DEF Inv, Rows, Waits, Recorded, Qualifying, Candidates
<1>2. alerts[a].receivedAt \in Nat /\ alerts[p].receivedAt \in Nat
  BY <1>1, AlertTimes DEF Inv, Rows, Recorded
<1>3. /\ GroupOf(alerts[p].kind) # GroupOf(alerts[a].kind)
      /\ alerts[p].receivedAt >= alerts[a].receivedAt - Window
      /\ alerts[p].receivedAt <= alerts[a].receivedAt
  BY DEF Qualifying, Candidates
<1>4. Window \in Nat
  BY WindowAssumption
<1> HIDE DEF a
<1>5. alerts[a].receivedAt - alerts[p].receivedAt \in -Window..Window
  BY <1>2, <1>3, <1>4
<1>6. alerts[p].receivedAt - alerts[a].receivedAt \in -Window..Window
  BY <1>2, <1>3, <1>4
<1> QED
  BY <1>1, <1>3, <1>5, <1>6 DEF Comparable, a

(* Every related older alert qualifies. *)
LEMMA RelatedQualifies ==
  ASSUME Inv, waiting, NEW p \in 1..(Len(alerts) - 1), Comparable(p, Len(alerts)),
         IsSufficient(PairwiseEvidence(alerts[p].kind, alerts[Len(alerts)].kind))
  PROVE  p \in Qualifying(Len(alerts))
<1> DEFINE a == Len(alerts)
<1>1. a \in Recorded /\ p \in Recorded /\ p # a /\ p <= a
  BY DEF Inv, Rows, Waits, Recorded
<1>2. alerts[a].receivedAt \in Nat /\ alerts[p].receivedAt \in Nat
  BY <1>1, AlertTimes DEF Inv, Rows, Recorded
<1>3. alerts[p].receivedAt <= alerts[a].receivedAt
  BY <1>1 DEF Inv, InOrder
<1>4. /\ GroupOf(alerts[p].kind) # GroupOf(alerts[a].kind)
      /\ alerts[p].receivedAt - alerts[a].receivedAt \in -Window..Window
  BY DEF Comparable
<1>5. Window \in Nat
  BY WindowAssumption
<1>6. IsSufficient(PairwiseEvidence(alerts[a].kind, alerts[p].kind))
  BY EvidenceSymmetric
<1> HIDE DEF a
<1>7. alerts[p].receivedAt >= alerts[a].receivedAt - Window
  BY <1>2, <1>4, <1>5
<1> QED
  BY <1>1, <1>3, <1>4, <1>6, <1>7 DEF Qualifying, Candidates, a

-----------------------------------------------------------------------------
(* What Found and Join have in common: the new alert and its peers are     *)
(* linked in some context.                                                 *)
Links(target) ==
  /\ waiting
  /\ Qualifying(Len(alerts)) # {}
  /\ members' = Linked(Len(alerts), target, Qualifying(Len(alerts)))
  /\ waiting' = FALSE
  /\ UNCHANGED <<alerts, lost>>

LEMMA FoundLinks ==
  ASSUME NEW number \in 1..MaxAlerts, Found(number)
  PROVE  \E target : Links(target)
<1> DEFINE target == [day |-> Day(alerts[Len(alerts)].receivedAt), number |-> number]
<1>1. Links(target)
  BY DEF Found, Links
<1> QED
  BY <1>1

LEMMA JoinLinks ==
  ASSUME NEW target \in DOMAIN contexts, Join(target)
  PROVE  Links(target)
BY DEF Join, Links, Involved

(* The rows after a link: rows that were there keep their peers and move   *)
(* with their context, the others are the new alert's and its peers'.      *)
LEMMA LinkedRows ==
  ASSUME Inv, NEW target, Links(target)
  PROVE  LET a == Len(alerts)
             peers == Qualifying(a)
         IN  /\ DOMAIN members' = DOMAIN members \cup peers \cup {a}
             /\ \A m \in DOMAIN members :
                  /\ members'[m].peers = members[m].peers
                  /\ members'[m].context = IF members[m].context \in Involved(peers)
                                           THEN target ELSE members[m].context
             /\ \A m \in (peers \cup {a}) : members'[m].context = target
             /\ members'[a].peers = peers
             /\ \A m \in peers \ DOMAIN members : members'[m].peers = {a}
             /\ \A m \in DOMAIN members' :
                  members'[m] = [context |-> members'[m].context, peers |-> members'[m].peers]
<1> DEFINE a == Len(alerts)
           peers == Qualifying(a)
<1>1. a \notin DOMAIN members /\ a \notin peers
  BY DEF Inv, Waits, Links, Qualifying, Candidates
<1>2. members' = [m \in DOMAIN members \cup peers \cup {a} |->
                    IF m \in DOMAIN members THEN Moved(m, target, peers)
                    ELSE [context |-> target, peers |-> IF m = a THEN peers ELSE {a}]]
  BY DEF Links, Linked
<1>3. \A m \in DOMAIN members : members[m] = [context |-> members[m].context,
                                              peers |-> members[m].peers]
  BY DEF Inv, Rows
<1>4. \A m \in DOMAIN members \cap peers : members[m].context \in Involved(peers)
  BY DEF Involved
<1> HIDE DEF a, peers
<1>5. ASSUME NEW m \in DOMAIN members
      PROVE  /\ members'[m].peers = members[m].peers
             /\ members'[m].context = IF members[m].context \in Involved(peers)
                                      THEN target ELSE members[m].context
             /\ members'[m] = [context |-> members'[m].context, peers |-> members'[m].peers]
  <2>1. members'[m] = Moved(m, target, peers)
    BY <1>2
  <2>2. PICK c, q : members[m] = [context |-> c, peers |-> q]
    BY <1>3
  <2> QED
    BY <2>1, <2>2 DEF Moved
<1>6. ASSUME NEW m \in (peers \cup {a}) \ DOMAIN members
      PROVE  /\ members'[m].peers = IF m = a THEN peers ELSE {a}
             /\ members'[m].context = target
             /\ members'[m] = [context |-> members'[m].context, peers |-> members'[m].peers]
  <2>1. members'[m] = [context |-> target, peers |-> IF m = a THEN peers ELSE {a}]
    BY <1>2
  <2> DEFINE q == IF m = a THEN peers ELSE {a}
  <2> HIDE DEF q
  <2>2. members'[m] = [context |-> target, peers |-> q]
    BY <2>1 DEF q
  <2>3. members'[m].peers = q /\ members'[m].context = target
    BY <2>2
  <2> QED
    BY <2>2, <2>3 DEF q
<1>7. DOMAIN members' = DOMAIN members \cup peers \cup {a}
  BY <1>2
<1>8. ASSUME NEW m \in peers \cup {a}
      PROVE  members'[m].context = target
  <2>1. CASE m \in DOMAIN members
    BY <2>1, <1>1, <1>4, <1>5
  <2>2. CASE m \notin DOMAIN members
    BY <2>2, <1>6
  <2> QED
    BY <2>1, <2>2
<1>9. /\ members'[a].peers = peers
      /\ \A m \in peers \ DOMAIN members : members'[m].peers = {a}
  <2>1. members'[a].peers = IF a = a THEN peers ELSE {a}
    BY <1>1, <1>6
  <2>2. ASSUME NEW m \in peers \ DOMAIN members
        PROVE  members'[m].peers = {a}
    <3>1. members'[m].peers = IF m = a THEN peers ELSE {a}
      BY <1>6
    <3> QED
      BY <3>1, <1>1
  <2> QED
    BY <2>1, <2>2
<1>10. ASSUME NEW m \in DOMAIN members'
       PROVE  members'[m] = [context |-> members'[m].context, peers |-> members'[m].peers]
  <2>1. CASE m \in DOMAIN members
    BY <2>1, <1>5
  <2>2. CASE m \notin DOMAIN members
    BY <2>2, <1>6, <1>7
  <2> QED
    BY <2>1, <2>2
<1> QED
  BY <1>5, <1>7, <1>8, <1>9, <1>10 DEF a, peers

-----------------------------------------------------------------------------
(* Preservation *)

LEMMA LinksKeeps ==
  ASSUME Inv, NEW target, Links(target)
  PROVE  Inv'
<1> DEFINE a == Len(alerts)
           peers == Qualifying(a)
<1>1. /\ DOMAIN members' = DOMAIN members \cup peers \cup {a}
      /\ \A m \in DOMAIN members :
           /\ members'[m].peers = members[m].peers
           /\ members'[m].context = IF members[m].context \in Involved(peers)
                                    THEN target ELSE members[m].context
      /\ \A m \in (peers \cup {a}) : members'[m].context = target
      /\ members'[a].peers = peers
      /\ \A m \in peers \ DOMAIN members : members'[m].peers = {a}
      /\ \A m \in DOMAIN members' :
           members'[m] = [context |-> members'[m].context, peers |-> members'[m].peers]
  BY LinkedRows
<1>2. /\ waiting /\ waiting' = FALSE
      /\ alerts' = alerts /\ lost' = lost
  BY DEF Links
<1>3. a \in Recorded /\ a \notin DOMAIN members /\ peers \subseteq Recorded
  BY <1>2 DEF Inv, Rows, Waits, Recorded, Qualifying, Candidates
<1>4. \A p \in peers : p # a /\ Comparable(a, p) /\ Comparable(p, a)
  BY <1>2, QualifyingIsRelated
<1>5. \A m, p : Comparable(m, p)' <=> Comparable(m, p)
  BY <1>2 DEF Comparable
<1>6. peers # {}
  BY DEF Links
<1>7. \A m, p \in DOMAIN members :
        members[m].context = members[p].context => members'[m].context = members'[p].context
  BY <1>1
<1> HIDE DEF a, peers
<1>8. Rows'
  BY <1>1, <1>2, <1>3 DEF Inv, Rows, Recorded
<1>9. InOrder'
  BY <1>2 DEF Inv, InOrder, Recorded
<1>10. Waits'
  BY <1>2 DEF Waits
<1>11. EvidenceStaysInside'
  <2> SUFFICES ASSUME NEW m \in DOMAIN members'
               PROVE  /\ members'[m].peers # {}
                      /\ \A p \in members'[m].peers :
                           /\ p \in DOMAIN members'
                           /\ members'[p].context = members'[m].context
                           /\ Comparable(m, p)
    BY <1>5 DEF EvidenceStaysInside
  <2>1. CASE m \in DOMAIN members
    <3>1. /\ members[m].peers # {}
          /\ \A p \in members[m].peers :
               /\ p \in DOMAIN members
               /\ members[p].context = members[m].context
               /\ Comparable(m, p)
      BY <2>1 DEF Inv, EvidenceStaysInside
    <3> QED
      BY <2>1, <3>1, <1>1, <1>7
  <2>2. CASE m = a
    BY <2>2, <1>1, <1>4, <1>6
  <2>3. CASE m \in peers \ DOMAIN members
    BY <2>3, <1>1, <1>4
  <2> QED
    BY <2>1, <2>2, <2>3, <1>1
<1>12. RelatedAreTogether'
  <2> SUFFICES ASSUME NEW b \in Recorded \ lost, NEW o \in 1..(b - 1), Comparable(o, b),
                      IsSufficient(PairwiseEvidence(alerts[o].kind, alerts[b].kind))
               PROVE  /\ {o, b} \subseteq DOMAIN members'
                      /\ members'[o].context = members'[b].context
    BY <1>2, <1>5 DEF RelatedAreTogether, Recorded
  <2>1. CASE b = a
    <3>1. o \in peers
      BY <2>1, <1>2, RelatedQualifies DEF a, peers
    <3> QED
      BY <3>1, <2>1, <1>1
  <2>2. CASE b # a
    <3>1. {o, b} \subseteq DOMAIN members /\ members[o].context = members[b].context
      BY <2>2 DEF Inv, RelatedAreTogether, a
    <3> QED
      BY <3>1, <1>1, <1>7
  <2> QED
    BY <2>1, <2>2
<1> QED
  BY <1>8, <1>9, <1>10, <1>11, <1>12 DEF Inv

LEMMA RecordKeeps ==
  ASSUME Inv, NEW kind \in Kinds, NEW d \in ClockSteps, Record(kind, d)
  PROVE  Inv'
<1> DEFINE n == Len(alerts)
           previous == IF alerts = <<>> THEN StartTime ELSE alerts[n].receivedAt
           row == [kind |-> kind, receivedAt |-> previous + d]
<1>1. alerts \in Seq(AlertRow) /\ n \in Nat /\ DOMAIN alerts = 1..n
  BY DEF Inv, Rows
<1>2. previous \in Nat /\ previous + d \in Nat /\ previous <= previous + d
  <2>1. d \in Nat /\ StartTime \in Nat
    BY ClockAssumption
  <2>2. previous \in Nat
    BY <1>1, <2>1, AlertTimes
  <2> QED
    BY <2>1, <2>2
<1>3. row \in AlertRow /\ row.receivedAt = previous + d
  BY <1>2 DEF AlertRow
<1>4. alerts' = Append(alerts, row) /\ waiting' = TRUE /\ members' = members /\ lost' = lost
  BY DEF Record
<1>5. ~waiting
  BY DEF Record
<1> HIDE DEF row
<1>6. /\ alerts' \in Seq(AlertRow) /\ Len(alerts') = n + 1 /\ DOMAIN alerts' = 1..(n + 1)
      /\ \A i \in 1..n : alerts'[i] = alerts[i]
      /\ alerts'[n + 1] = row
  BY <1>1, <1>3, <1>4
<1>7. DOMAIN members \subseteq 1..n
  BY <1>1 DEF Inv, Rows, Recorded
<1>8. Rows'
  BY <1>1, <1>4, <1>6 DEF Inv, Rows, Recorded
<1>9. InOrder'
  <2> SUFFICES ASSUME NEW i \in 1..(n + 1), NEW k \in 1..(n + 1), i <= k
               PROVE  alerts'[i].receivedAt <= alerts'[k].receivedAt
    BY <1>6 DEF InOrder, Recorded
  <2>1. CASE k \in 1..n
    BY <2>1, <1>1, <1>6 DEF Inv, InOrder, Recorded
  <2>2. CASE i \in 1..n /\ k = n + 1
    <3>1. alerts[i].receivedAt <= alerts[n].receivedAt /\ n \in DOMAIN alerts /\ alerts # <<>>
      BY <2>2, <1>1 DEF Inv, InOrder, Recorded
    <3>2. alerts[i].receivedAt \in Nat
      BY <2>2, <1>1, AlertTimes
    <3> QED
      BY <2>2, <3>1, <3>2, <1>2, <1>3, <1>6
  <2>3. CASE i = n + 1 /\ k = n + 1
    BY <2>3, <1>2, <1>3, <1>6
  <2> QED
    BY <1>1, <2>1, <2>2, <2>3
<1>10. Waits'
  BY <1>1, <1>4, <1>6, <1>7 DEF Waits
<1>11. \A m, p \in 1..n : Comparable(m, p)' <=> Comparable(m, p)
  BY <1>6 DEF Comparable
<1>12. EvidenceStaysInside'
  BY <1>4, <1>7, <1>11 DEF Inv, EvidenceStaysInside
<1>13. RelatedAreTogether'
  <2> SUFFICES ASSUME NEW b \in (1..(n + 1)) \ lost, b # n + 1, NEW o \in 1..(b - 1),
                      Comparable(o, b)',
                      IsSufficient(PairwiseEvidence(alerts'[o].kind, alerts'[b].kind))
               PROVE  /\ {o, b} \subseteq DOMAIN members
                      /\ members[o].context = members[b].context
    BY <1>4, <1>6 DEF RelatedAreTogether, Recorded
  <2>1. b \in 1..n /\ o \in 1..n
    BY <1>1
  <2>2. Comparable(o, b)
    BY <2>1, <1>11
  <2>3. IsSufficient(PairwiseEvidence(alerts[o].kind, alerts[b].kind))
    BY <2>1, <1>6
  <2> QED
    BY <2>1, <2>2, <2>3, <1>1, <1>5 DEF Inv, RelatedAreTogether, Recorded
<1> QED
  BY <1>8, <1>9, <1>10, <1>12, <1>13 DEF Inv

LEMMA FindNothingKeeps ==
  ASSUME Inv, FindNothing
  PROVE  Inv'
<1> DEFINE a == Len(alerts)
<1>1. /\ waiting /\ waiting' = FALSE /\ Qualifying(a) = {}
      /\ alerts' = alerts /\ members' = members /\ lost' = lost
  BY DEF FindNothing, Inv, Waits
<1>2. Rows' /\ InOrder' /\ Waits'
  BY <1>1 DEF Inv, Rows, InOrder, Waits, Recorded
<1>3. \A m, p : Comparable(m, p)' <=> Comparable(m, p)
  BY <1>1 DEF Comparable
<1>4. EvidenceStaysInside'
  BY <1>1, <1>3 DEF Inv, EvidenceStaysInside
<1>5. RelatedAreTogether'
  <2> SUFFICES ASSUME NEW b \in Recorded \ lost, NEW o \in 1..(b - 1), Comparable(o, b),
                      IsSufficient(PairwiseEvidence(alerts[o].kind, alerts[b].kind))
               PROVE  /\ {o, b} \subseteq DOMAIN members
                      /\ members[o].context = members[b].context
    BY <1>1, <1>3 DEF RelatedAreTogether, Recorded
  <2>1. CASE b = a
    BY <2>1, <1>1, RelatedQualifies
  <2>2. CASE b # a
    BY <2>2 DEF Inv, RelatedAreTogether
  <2> QED
    BY <2>1, <2>2
<1> QED
  BY <1>2, <1>4, <1>5 DEF Inv

LEMMA LoseKeeps ==
  ASSUME Inv, Lose
  PROVE  Inv'
<1>1. /\ waiting' = FALSE /\ lost' = lost \cup {Len(alerts)}
      /\ alerts' = alerts /\ members' = members
  BY DEF Lose
<1>2. Rows' /\ InOrder' /\ Waits'
  BY <1>1 DEF Inv, Rows, InOrder, Waits, Recorded
<1>3. \A m, p : Comparable(m, p)' <=> Comparable(m, p)
  BY <1>1 DEF Comparable
<1>4. EvidenceStaysInside'
  BY <1>1, <1>3 DEF Inv, EvidenceStaysInside
<1>5. RelatedAreTogether'
  BY <1>1, <1>3 DEF Inv, RelatedAreTogether, Recorded
<1> QED
  BY <1>2, <1>4, <1>5 DEF Inv

LEMMA SpecInv == Spec => []Inv
<1>1. Init => Inv
  <2> SUFFICES ASSUME Init
               PROVE  Inv
    OBVIOUS
  <2>1. alerts = <<>> /\ Len(alerts) = 0 /\ Recorded = {} /\ waiting = FALSE /\ lost = {}
    BY DEF Init, Recorded
  <2>2. DOMAIN members = {}
    BY DEF Init
  <2>3. Rows
    <3>1. <<>> \in Seq(AlertRow)
      OBVIOUS
    <3>2. alerts \in Seq(AlertRow)
      BY <3>1, <2>1, Zenon
    <3>3. waiting \in BOOLEAN
      BY <2>1
    <3>4. DOMAIN members \subseteq Recorded
      BY <2>2
    <3> QED
      BY <3>2, <3>3, <3>4, <2>2, Zenon DEF Rows
  <2>4. InOrder /\ Waits
    BY <2>1, <2>2 DEF InOrder, Waits
  <2>5. EvidenceStaysInside
    BY <2>2 DEF EvidenceStaysInside
  <2>6. RelatedAreTogether
    BY <2>1 DEF RelatedAreTogether
  <2> QED
    BY <2>3, <2>4, <2>5, <2>6 DEF Inv
<1>2. Inv /\ [Next]_vars => Inv'
  <2> SUFFICES ASSUME Inv, [Next]_vars
               PROVE  Inv'
    OBVIOUS
  <2>1. ASSUME NEW kind \in Kinds, NEW d \in ClockSteps, Record(kind, d)
        PROVE  Inv'
    BY <2>1, RecordKeeps
  <2>2. CASE FindNothing
    BY <2>2, FindNothingKeeps
  <2>3. ASSUME NEW number \in 1..MaxAlerts, Found(number)
        PROVE  Inv'
    BY <2>3, FoundLinks, LinksKeeps
  <2>4. ASSUME NEW target \in DOMAIN contexts, Join(target)
        PROVE  Inv'
    BY <2>4, JoinLinks, LinksKeeps
  <2>5. CASE Lose
    BY <2>5, LoseKeeps
  <2>6. CASE UNCHANGED vars
    BY <2>6 DEF vars, Inv, Rows, InOrder, Waits, EvidenceStaysInside, RelatedAreTogether,
                Recorded, Comparable
  <2> QED
    BY <2>1, <2>2, <2>3, <2>4, <2>5, <2>6 DEF Next
<1> QED
  BY <1>1, <1>2, PTL DEF Spec

(* Through every merge, the evidence of a membership names alerts of the   *)
(* same context, of other groups and at most a window away.                *)
THEOREM EvidenceInside == Spec => []EvidenceStaysInside
<1>1. Inv => EvidenceStaysInside
  BY DEF Inv
<1> QED
  BY <1>1, SpecInv, PTL

(* Two alerts with sufficient evidence are in one context once the later   *)
(* one has been correlated, whichever contexts their peers were in.        *)
THEOREM RelatedTogether == Spec => []RelatedAreTogether
<1>1. Inv => RelatedAreTogether
  BY DEF Inv
<1> QED
  BY <1>1, SpecInv, PTL

-----------------------------------------------------------------------------
(* Numbers that fit the padding are all written with as many digits, so    *)
(* their strings are in the order of the numbers.                          *)

LEMMA SizeThatFits ==
  ASSUME NEW n \in Nat, Fits(n)
  PROVE  Size(n) = Width
<1> DEFINE sizes == {k \in Width..(Width + n) : n < Base^k}
<1>1. Width \in sizes /\ \A k \in sizes : k \in Nat /\ Width <= k
  BY DigitsAssumption DEF Fits
<1>2. Size(n) = CHOOSE k \in sizes : \A l \in sizes : k <= l
  BY DEF Size, Min
<1> HIDE DEF sizes
<1>3. PICK size : size = CHOOSE k \in sizes : \A l \in sizes : k <= l
  OBVIOUS
<1>4. size \in sizes /\ size <= Width
  BY <1>1, <1>3
<1> QED
  BY <1>1, <1>2, <1>3, <1>4, DigitsAssumption

LEMMA BelowIsLess ==
  ASSUME NEW n \in Nat, NEW m \in Nat, Fits(n), Fits(m)
  PROVE  Below(n, m) <=> n < m
<1>1. Size(n) = Width /\ Size(m) = Width
  BY SizeThatFits
<1> QED
  BY <1>1, DigitsAssumption DEF Below

\* A number below one that fits the padding fits it too.
LEMMA FitsBelow ==
  ASSUME NEW n \in Nat, NEW m \in Nat, n <= m, Fits(m)
  PROVE  Fits(n)
<1>1. Base^Width \in Int
  BY DigitsAssumption
<1> QED
  BY <1>1 DEF Fits

-----------------------------------------------------------------------------
(* Context ids are given in the order of creation, although a number may   *)
(* be used again after a merge, as far as the numbers of a day fit their   *)
(* padding: what lets the smallest id stand for the earliest context.  The *)
(* day of an id is the day the context was created, which is no later than *)
(* the newest alert.                                                       *)

\* c comes before d, and the order of their ids can be relied on.
Earlier(c, d) == Aligned(c, d) /\ IdBefore(c, d)

LEMMA EarlierByNumber ==
  ASSUME NEW c \in ContextId, NEW d \in ContextId, Earlier(c, d)
  PROVE  \/ c.day < d.day
         \/ c.day = d.day /\ Fits(c.number) /\ Fits(d.number) /\ c.number < d.number
<1>1. c.number \in Nat /\ d.number \in Nat
  BY DEF ContextId
<1> QED
  BY <1>1, BelowIsLess DEF Earlier, Aligned, IdBefore

IdsInOrder ==
  /\ DOMAIN contexts \subseteq ContextId
  /\ \A m \in DOMAIN members : members[m].context \in DOMAIN contexts
  /\ \A c \in DOMAIN contexts :
       /\ contexts[c] = [createdAt |-> contexts[c].createdAt,
                         updatedAt |-> contexts[c].updatedAt,
                         firstSeen |-> contexts[c].firstSeen,
                         lastSeen |-> contexts[c].lastSeen]
       /\ contexts[c].createdAt \in Nat
       /\ c.day = Day(contexts[c].createdAt)
       /\ Len(alerts) > 0
       /\ contexts[c].createdAt <= alerts[Len(alerts)].receivedAt
  /\ \A c, d \in DOMAIN contexts :
       Earlier(c, d) => contexts[c].createdAt <= contexts[d].createdAt

LEMMA DayMonotone ==
  ASSUME NEW t \in Nat, NEW u \in Nat, t <= u
  PROVE  Day(t) \in Nat /\ Day(u) \in Nat /\ Day(t) <= Day(u)
<1>1. DayLength \in Nat /\ DayLength > 0
  BY DayAssumption
<1> QED
  BY <1>1, SMTT(30) DEF Day

LEMMA DayIsNat ==
  ASSUME NEW t \in Nat
  PROVE  Day(t) \in Nat
<1>1. t <= t
  OBVIOUS
<1> QED
  BY <1>1, DayMonotone

(* refresh_bounds leaves the time of creation alone. *)
LEMMA RefreshedCreatedAt ==
  ASSUME NEW r, NEW u, NEW f, NEW l, NEW rows, NEW target, NEW at
  PROVE  LET row == [createdAt |-> r, updatedAt |-> u, firstSeen |-> f, lastSeen |-> l]
             new == Refreshed(row, rows, target, at)
         IN  /\ new.createdAt = r
             /\ new = [createdAt |-> new.createdAt, updatedAt |-> new.updatedAt,
                       firstSeen |-> new.firstSeen, lastSeen |-> new.lastSeen]
<1> DEFINE row == [createdAt |-> r, updatedAt |-> u, firstSeen |-> f, lastSeen |-> l]
           times == {alerts[m].receivedAt : m \in {n \in DOMAIN rows : rows[n].context = target}}
           low == Min(times)
           high == Max(times)
<1>1. Refreshed(row, rows, target, at)
        = [row EXCEPT !.firstSeen = low, !.lastSeen = high, !.updatedAt = at]
  BY DEF Refreshed
<1> HIDE DEF low, high
<1>2. [row EXCEPT !.firstSeen = low]
        = [createdAt |-> r, updatedAt |-> u, firstSeen |-> low, lastSeen |-> l]
  OBVIOUS
<1>3. [[createdAt |-> r, updatedAt |-> u, firstSeen |-> low, lastSeen |-> l]
         EXCEPT !.lastSeen = high]
        = [createdAt |-> r, updatedAt |-> u, firstSeen |-> low, lastSeen |-> high]
  OBVIOUS
<1>4. [[createdAt |-> r, updatedAt |-> u, firstSeen |-> low, lastSeen |-> high]
         EXCEPT !.updatedAt = at]
        = [createdAt |-> r, updatedAt |-> at, firstSeen |-> low, lastSeen |-> high]
  OBVIOUS
<1>5. Refreshed(row, rows, target, at)
        = [[[row EXCEPT !.firstSeen = low] EXCEPT !.lastSeen = high] EXCEPT !.updatedAt = at]
  BY <1>1
<1>6. Refreshed(row, rows, target, at)
        = [createdAt |-> r, updatedAt |-> at, firstSeen |-> low, lastSeen |-> high]
  BY <1>2, <1>3, <1>4, <1>5, Zenon
<1> QED
  BY <1>6

(* The new rows of a context table: the target's keeps or gets its time of *)
(* creation, the other rows that stay are what they were.                  *)
Keeps(old, new, target, created) ==
  /\ DOMAIN new \subseteq DOMAIN old \cup {target}
  /\ target \in DOMAIN new
  /\ new[target].createdAt = created
  /\ new[target] = [createdAt |-> new[target].createdAt, updatedAt |-> new[target].updatedAt,
                    firstSeen |-> new[target].firstSeen, lastSeen |-> new[target].lastSeen]
  /\ \A c \in DOMAIN new \ {target} : new[c] = old[c]

LEMMA KeepsIds ==
  ASSUME IdsInOrder, NEW target \in ContextId, NEW created \in Nat,
         Keeps(contexts, contexts', target, created),
         alerts' = alerts, Len(alerts) > 0,
         created <= alerts[Len(alerts)].receivedAt,
         target.day = Day(created),
         \A m \in DOMAIN members' : members'[m].context \in DOMAIN contexts',
         \A c \in DOMAIN contexts \ {target} :
           /\ Earlier(c, target) => contexts[c].createdAt <= created
           /\ Earlier(target, c) => created <= contexts[c].createdAt
  PROVE  IdsInOrder'
<1>1. DOMAIN contexts' \subseteq ContextId
  BY DEF IdsInOrder, Keeps
<1>2. ASSUME NEW c \in DOMAIN contexts'
      PROVE  /\ contexts'[c] = [createdAt |-> contexts'[c].createdAt,
                                updatedAt |-> contexts'[c].updatedAt,
                                firstSeen |-> contexts'[c].firstSeen,
                                lastSeen |-> contexts'[c].lastSeen]
             /\ contexts'[c].createdAt \in Nat
             /\ c.day = Day(contexts'[c].createdAt)
             /\ contexts'[c].createdAt <= alerts[Len(alerts)].receivedAt
  <2>1. CASE c = target
    BY <2>1, Zenon DEF Keeps
  <2>2. CASE c # target
    <3>1. c \in DOMAIN contexts /\ contexts'[c] = contexts[c]
      BY <2>2 DEF Keeps
    <3> QED
      BY <3>1, Zenon DEF IdsInOrder
  <2> QED
    BY <2>1, <2>2
<1>3. ASSUME NEW c \in DOMAIN contexts', NEW d \in DOMAIN contexts', Earlier(c, d)
      PROVE  contexts'[c].createdAt <= contexts'[d].createdAt
  <2>1. CASE c = target /\ d = target
    <3>1. target.day \in Nat /\ target.number \in Nat
      BY DEF ContextId
    <3>2. ~Earlier(target, target)
      BY <3>1, EarlierByNumber
    <3> QED
      BY <1>3, <2>1, <3>2
  <2>2. CASE c = target /\ d # target
    BY <2>2, <1>3, Zenon DEF Keeps
  <2>3. CASE c # target /\ d = target
    BY <2>3, <1>3, Zenon DEF Keeps
  <2>4. CASE c # target /\ d # target
    <3>1. /\ c \in DOMAIN contexts /\ contexts'[c] = contexts[c]
          /\ d \in DOMAIN contexts /\ contexts'[d] = contexts[d]
      BY <2>4 DEF Keeps
    <3> QED
      BY <3>1, <1>3, Zenon DEF IdsInOrder
  <2> QED
    BY <2>1, <2>2, <2>3, <2>4, Zenon
<1>4. Len(alerts') > 0 /\ alerts'[Len(alerts')].receivedAt = alerts[Len(alerts)].receivedAt
  OBVIOUS
<1>5. \A c, d : Earlier(c, d)' <=> Earlier(c, d)
  BY DEF Earlier, Aligned, IdBefore
<1> QED
  BY <1>1, <1>2, <1>3, <1>4, <1>5, Zenon DEF IdsInOrder, Day

(* A new context gets the largest id of those that fit the padding, and no *)
(* context was created later.                                              *)
LEMMA FoundIds ==
  ASSUME Inv, IdsInOrder, NEW number \in 1..MaxAlerts, Found(number)
  PROVE  /\ IdsInOrder'
         /\ \A m \in DOMAIN members : members'[m].context = members[m].context
<1> DEFINE a == Len(alerts)
           at == alerts[a].receivedAt
           target == [day |-> Day(at), number |-> number]
           peers == Qualifying(a)
           rows == Linked(a, target, peers)
           row == [createdAt |-> at, updatedAt |-> at, firstSeen |-> at, lastSeen |-> at]
           new == Refreshed(row, rows, target, at)
<1>1. /\ waiting /\ Involved(peers) = {} /\ IsNextId(target) /\ Links(target)
      /\ members' = rows /\ alerts' = alerts
      /\ contexts' = [c \in DOMAIN contexts \cup {target} |->
                        IF c = target THEN new ELSE contexts[c]]
  BY DEF Found, Links
<1>2. a > 0 /\ at \in Nat
  BY <1>1, AlertTimes DEF Inv, Rows, Waits
<1>3. Day(at) \in Nat
  BY <1>2, DayIsNat
<1>4. target \in ContextId /\ target.day = Day(at) /\ target.number = number
  BY <1>3, BoundsAssumption DEF ContextId
<1>5. /\ new.createdAt = at
      /\ new = [createdAt |-> new.createdAt, updatedAt |-> new.updatedAt,
                firstSeen |-> new.firstSeen, lastSeen |-> new.lastSeen]
  BY RefreshedCreatedAt
<1>6. /\ DOMAIN members' = DOMAIN members \cup peers \cup {a}
      /\ \A m \in DOMAIN members :
           members'[m].context = IF members[m].context \in Involved(peers)
                                 THEN target ELSE members[m].context
      /\ \A m \in (peers \cup {a}) : members'[m].context = target
  BY <1>1, LinkedRows
<1>7. \A m \in DOMAIN members : members'[m].context = members[m].context
  BY <1>1, <1>6
<1> HIDE DEF new, target
<1>8. Keeps(contexts, contexts', target, at)
  BY <1>1, <1>5, Zenon DEF Keeps
<1>9. \A m \in DOMAIN members' : members'[m].context \in DOMAIN contexts'
  BY <1>1, <1>6, <1>7 DEF IdsInOrder
<1>10. ASSUME NEW c \in DOMAIN contexts \ {target}
       PROVE  contexts[c].createdAt <= at /\ ~Earlier(target, c)
  <2>1. /\ contexts[c].createdAt \in Nat /\ contexts[c].createdAt <= at
        /\ c.day = Day(contexts[c].createdAt) /\ c \in ContextId
    BY DEF IdsInOrder
  <2>2. c.day \in Nat /\ c.day <= Day(at) /\ c.number \in Nat
    BY <2>1, <1>2, DayMonotone DEF ContextId
  <2>3. ASSUME c.day = target.day, Fits(target.number), Fits(c.number)
        PROVE  c.number < target.number
    <3> DEFINE last == target.number - 1
               numbers == {d.number : d \in {e \in DOMAIN contexts : e.day = target.day}}
    <3>1. c.number \in numbers
      BY <2>3
    <3>2. last \in numbers /\ \A m \in numbers : ~Below(last, m)
      BY <1>1, <3>1 DEF IsNextId, IsLast
    <3>3. last \in Nat /\ target.number \in Nat /\ last <= target.number
      BY <1>4, BoundsAssumption
    <3>4. Fits(last)
      BY <2>3, <3>3, FitsBelow
    <3>5. ~(last < c.number)
      BY <2>2, <2>3, <3>1, <3>2, <3>3, <3>4, BelowIsLess
    <3> QED
      BY <2>2, <3>3, <3>5
  <2>4. ~Earlier(target, c)
    <3> SUFFICES ASSUME Earlier(target, c)
                 PROVE  FALSE
      OBVIOUS
    <3>1. target.day = c.day /\ Fits(target.number) /\ Fits(c.number) /\ target.number < c.number
      BY <2>1, <2>2, <1>3, <1>4, EarlierByNumber
    <3> QED
      BY <2>2, <2>3, <3>1, <1>4
  <2> QED
    BY <2>1, <2>4
<1>11. IdsInOrder'
  <2>1. PICK t \in ContextId, created \in Nat : t = target /\ created = at
    BY <1>2, <1>4
  <2>2. Keeps(contexts, contexts', t, created)
    BY <2>1, <1>8, Zenon
  <2>3. /\ alerts' = alerts /\ Len(alerts) > 0 /\ t.day = Day(created)
        /\ created <= alerts[Len(alerts)].receivedAt
    BY <2>1, <1>1, <1>2, <1>4
  <2>4. \A c \in DOMAIN contexts \ {t} :
          /\ Earlier(c, t) => contexts[c].createdAt <= created
          /\ Earlier(t, c) => created <= contexts[c].createdAt
    BY <2>1, <1>10, Zenon
  <2> QED
    BY <2>2, <2>3, <2>4, <1>9, KeepsIds
<1> QED
  BY <1>7, <1>11

(* Of the contexts involved in a merge, the one kept has the smallest id,  *)
(* so it was created first, as far as the ids are aligned; the others are  *)
(* gone.                                                                   *)
LEMMA JoinIds ==
  ASSUME Inv, IdsInOrder, NEW target \in DOMAIN contexts, Join(target)
  PROVE  /\ IdsInOrder'
         /\ \A m \in DOMAIN members :
              members'[m].context # members[m].context =>
                /\ members'[m].context = target
                /\ members[m].context \notin DOMAIN contexts'
                /\ Aligned(members[m].context, target) =>
                     contexts[target].createdAt <= contexts[members[m].context].createdAt
<1> DEFINE a == Len(alerts)
           at == alerts[a].receivedAt
           peers == Qualifying(a)
           involved == Involved(peers)
           rows == Linked(a, target, peers)
           new == Refreshed(contexts[target], rows, target, at)
           created == contexts[target].createdAt
<1>1. /\ waiting /\ target \in involved /\ IsTarget(target, involved)
      /\ members' = rows /\ alerts' = alerts
      /\ contexts' = [c \in (DOMAIN contexts \ involved) \cup {target} |->
                        IF c = target THEN new ELSE contexts[c]]
  <2>1. contexts' = [c \in (DOMAIN contexts \ involved) \cup {target} |->
                       IF c = target THEN Refreshed(contexts[c], rows, target, at)
                       ELSE contexts[c]]
    BY DEF Join
  <2>2. contexts' = [c \in (DOMAIN contexts \ involved) \cup {target} |->
                       IF c = target THEN new ELSE contexts[c]]
    BY <2>1
  <2> QED
    BY <2>2 DEF Join
<1>2. involved \subseteq DOMAIN contexts
  BY DEF Involved, IdsInOrder
<1>3. PICK r, u, f, l :
        contexts[target] = [createdAt |-> r, updatedAt |-> u, firstSeen |-> f, lastSeen |-> l]
  BY Zenon DEF IdsInOrder
<1>4. r = created
  BY <1>3
<1>5. /\ new.createdAt = r
      /\ new = [createdAt |-> new.createdAt, updatedAt |-> new.updatedAt,
                firstSeen |-> new.firstSeen, lastSeen |-> new.lastSeen]
  <2>1. new = Refreshed([createdAt |-> r, updatedAt |-> u, firstSeen |-> f, lastSeen |-> l],
                        rows, target, at)
    BY <1>3
  <2> QED
    BY <2>1, RefreshedCreatedAt
<1>6. /\ DOMAIN members' = DOMAIN members \cup peers \cup {a}
      /\ \A m \in DOMAIN members :
           members'[m].context = IF members[m].context \in involved
                                 THEN target ELSE members[m].context
      /\ \A m \in (peers \cup {a}) : members'[m].context = target
  BY LinkedRows, JoinLinks
<1> HIDE DEF new, involved
<1>7. Keeps(contexts, contexts', target, r)
  BY <1>1, <1>5, Zenon DEF Keeps
<1>8. \A m \in DOMAIN members' : members'[m].context \in DOMAIN contexts'
  BY <1>1, <1>6 DEF IdsInOrder
<1>9. /\ target \in ContextId /\ r \in Nat /\ target.day = Day(r)
      /\ Len(alerts) > 0 /\ r <= alerts[Len(alerts)].receivedAt
      /\ \A c \in DOMAIN contexts :
           /\ Earlier(c, target) => contexts[c].createdAt <= r
           /\ Earlier(target, c) => r <= contexts[c].createdAt
  BY <1>4, Zenon DEF IdsInOrder
<1>10. IdsInOrder'
  BY <1>1, <1>7, <1>8, <1>9, KeepsIds
<1>11. ASSUME NEW m \in DOMAIN members, members'[m].context # members[m].context
       PROVE  /\ members'[m].context = target
              /\ members[m].context \notin DOMAIN contexts'
              /\ Aligned(members[m].context, target) =>
                   created <= contexts[members[m].context].createdAt
  <2>1. /\ members[m].context \in involved /\ members'[m].context = target
        /\ members[m].context # target
    BY <1>6, <1>11
  <2>2. Aligned(members[m].context, target) => Earlier(target, members[m].context)
    BY <2>1, <1>1 DEF IsTarget, Earlier, Aligned
  <2>3. members[m].context \in DOMAIN contexts
    BY <2>1, <1>2
  <2>4. members[m].context \notin DOMAIN contexts'
    BY <2>1, <1>1
  <2> QED
    BY <2>1, <2>2, <2>3, <2>4, <1>4, <1>9, Zenon
<1> QED
  BY <1>10, <1>11

(* Contexts are older than an alert recorded later. *)
LEMMA RecordIds ==
  ASSUME Inv, IdsInOrder, NEW kind \in Kinds, NEW d \in ClockSteps, Record(kind, d)
  PROVE  IdsInOrder'
<1> DEFINE n == Len(alerts)
<1>1. alerts \in Seq(AlertRow) /\ n \in Nat /\ members' = members /\ contexts' = contexts
  BY DEF Inv, Rows, Record
<1>2. d \in Nat
  BY ClockAssumption
<1>3. ASSUME NEW c \in DOMAIN contexts
      PROVE  /\ Len(alerts') > 0
             /\ contexts[c].createdAt <= alerts'[Len(alerts')].receivedAt
  <2>1. n > 0 /\ contexts[c].createdAt \in Nat /\ contexts[c].createdAt <= alerts[n].receivedAt
    BY Zenon DEF IdsInOrder
  <2>2. alerts[n].receivedAt \in Nat
    BY <2>1, <1>1, AlertTimes
  <2>3. alerts # <<>>
    BY <2>1
  <2>4. alerts' = Append(alerts, [kind |-> kind, receivedAt |-> alerts[n].receivedAt + d])
    BY <2>3 DEF Record
  <2>5. Len(alerts') = n + 1 /\ alerts'[n + 1].receivedAt = alerts[n].receivedAt + d
    BY <2>4, <1>1
  <2> QED
    BY <2>1, <2>2, <2>5, <1>1, <1>2
<1>4. \A c, e : Earlier(c, e)' <=> Earlier(c, e)
  BY DEF Earlier, Aligned, IdBefore
<1> QED
  BY <1>1, <1>3, <1>4, Zenon DEF IdsInOrder, Day, ContextId

LEMMA SpecIds == Spec => []IdsInOrder
<1>1. Init => IdsInOrder
  <2> SUFFICES ASSUME Init
               PROVE  IdsInOrder
    OBVIOUS
  <2>1. DOMAIN contexts = {} /\ DOMAIN members = {}
    BY DEF Init
  <2> QED
    BY <2>1, Zenon DEF IdsInOrder
<1>2. Inv /\ IdsInOrder /\ [Next]_vars => IdsInOrder'
  <2> SUFFICES ASSUME Inv, IdsInOrder, [Next]_vars
               PROVE  IdsInOrder'
    OBVIOUS
  <2>1. ASSUME NEW kind \in Kinds, NEW d \in ClockSteps, Record(kind, d)
        PROVE  IdsInOrder'
    BY <2>1, RecordIds
  <2>2. ASSUME NEW number \in 1..MaxAlerts, Found(number)
        PROVE  IdsInOrder'
    BY <2>2, FoundIds
  <2>3. ASSUME NEW target \in DOMAIN contexts, Join(target)
        PROVE  IdsInOrder'
    BY <2>3, JoinIds
  <2>4. CASE FindNothing \/ Lose \/ UNCHANGED vars
    <3>1. alerts' = alerts /\ members' = members /\ contexts' = contexts
      BY <2>4 DEF FindNothing, Lose, vars
    <3>2. \A c, e : Earlier(c, e)' <=> Earlier(c, e)
      BY DEF Earlier, Aligned, IdBefore
    <3> QED
      BY <3>1, <3>2, Zenon DEF IdsInOrder, Day, ContextId
  <2> QED
    BY <2>1, <2>2, <2>3, <2>4 DEF Next
<1> QED
  BY <1>1, <1>2, SpecInv, PTL DEF Spec

(* Alerts once together stay together, and a merge goes whole into one     *)
(* context; into the one created earlier, as long as neither id is past    *)
(* the padding of its day's numbers, although the target is chosen by the  *)
(* order of the strings and the id of a merged context may be used again.  *)
THEOREM MergesIntoTheEarlier == Spec => MergesKeepTheEarlier
<1> DEFINE Merges ==
             /\ \A m, p \in DOMAIN members :
                  members[m].context = members[p].context
                    => members'[m].context = members'[p].context
             /\ \A m \in DOMAIN members :
                  LET before == members[m].context
                      after == members'[m].context
                  IN  after # before =>
                        /\ after \in DOMAIN contexts
                        /\ before \notin DOMAIN contexts'
                        /\ Aligned(before, after) =>
                             contexts[after].createdAt <= contexts[before].createdAt
<1>1. Inv /\ IdsInOrder /\ [Next]_vars => [Merges]_vars
  <2> SUFFICES ASSUME Inv, IdsInOrder, Next
               PROVE  Merges
    OBVIOUS
  <2>1. ASSUME NEW number \in 1..MaxAlerts, Found(number)
        PROVE  Merges
    BY <2>1, FoundIds
  <2>2. ASSUME NEW target \in DOMAIN contexts, Join(target)
        PROVE  Merges
    <3>1. \A m \in DOMAIN members :
            members'[m].context = IF members[m].context \in Involved(Qualifying(Len(alerts)))
                                  THEN target ELSE members[m].context
      BY <2>2, LinkedRows, JoinLinks
    <3>2. \A m, p \in DOMAIN members :
            members[m].context = members[p].context
              => members'[m].context = members'[p].context
      BY <3>1
    <3> QED
      BY <2>2, <3>2, JoinIds
  <2>3. CASE FindNothing \/ Lose \/ \E kind \in Kinds, d \in ClockSteps : Record(kind, d)
    BY <2>3 DEF FindNothing, Lose, Record
  <2> QED
    BY <2>1, <2>2, <2>3 DEF Next
<1> HIDE DEF Merges
<1>2. Spec => [][Merges]_vars
  BY <1>1, SpecInv, SpecIds, PTL DEF Spec
<1> QED
  BY <1>2 DEF MergesKeepTheEarlier, Merges

-----------------------------------------------------------------------------
(* Evidence connects every context.  A split of a context that was linked  *)
(* leaves no evidence across it only if each context it was made of, and   *)
(* each peer, is on the side of the new alert: all of them are.            *)

(* refresh_bounds takes the bounds from the members. *)
LEMMA RefreshedBounds ==
  ASSUME NEW r, NEW u, NEW f, NEW l, NEW rows, NEW target, NEW at
  PROVE  LET row == [createdAt |-> r, updatedAt |-> u, firstSeen |-> f, lastSeen |-> l]
             new == Refreshed(row, rows, target, at)
             times == {alerts[m].receivedAt : m \in {n \in DOMAIN rows : rows[n].context = target}}
         IN  new.firstSeen = Min(times) /\ new.lastSeen = Max(times)
<1> DEFINE row == [createdAt |-> r, updatedAt |-> u, firstSeen |-> f, lastSeen |-> l]
           times == {alerts[m].receivedAt : m \in {n \in DOMAIN rows : rows[n].context = target}}
           low == Min(times)
           high == Max(times)
<1>1. Refreshed(row, rows, target, at)
        = [[[row EXCEPT !.firstSeen = low] EXCEPT !.lastSeen = high] EXCEPT !.updatedAt = at]
  BY DEF Refreshed
<1> HIDE DEF low, high
<1>2. [row EXCEPT !.firstSeen = low]
        = [createdAt |-> r, updatedAt |-> u, firstSeen |-> low, lastSeen |-> l]
  OBVIOUS
<1>3. [[createdAt |-> r, updatedAt |-> u, firstSeen |-> low, lastSeen |-> l]
         EXCEPT !.lastSeen = high]
        = [createdAt |-> r, updatedAt |-> u, firstSeen |-> low, lastSeen |-> high]
  OBVIOUS
<1>4. [[createdAt |-> r, updatedAt |-> u, firstSeen |-> low, lastSeen |-> high]
         EXCEPT !.updatedAt = at]
        = [createdAt |-> r, updatedAt |-> at, firstSeen |-> low, lastSeen |-> high]
  OBVIOUS
<1>5. Refreshed(row, rows, target, at)
        = [createdAt |-> r, updatedAt |-> at, firstSeen |-> low, lastSeen |-> high]
  BY <1>1, <1>2, <1>3, <1>4, Zenon
<1>6. /\ Refreshed(row, rows, target, at).firstSeen = low
      /\ Refreshed(row, rows, target, at).lastSeen = high
  BY <1>5
<1> QED
  BY <1>6 DEF low, high

(* What Found and Join do to the contexts: those involved give way to the  *)
(* target, which is one of them or new.                                    *)
Renews(target) ==
  LET involved == Involved(Qualifying(Len(alerts)))
  IN  /\ Links(target)
      /\ target \in involved \/ target \notin DOMAIN contexts
      /\ DOMAIN contexts' = (DOMAIN contexts \ involved) \cup {target}
      /\ \A c \in DOMAIN contexts \ involved : c # target => contexts'[c] = contexts[c]
      /\ contexts'[target].firstSeen =
           Min({alerts[m].receivedAt : m \in {n \in DOMAIN members' : members'[n].context = target}})
      /\ contexts'[target].lastSeen =
           Max({alerts[m].receivedAt : m \in {n \in DOMAIN members' : members'[n].context = target}})

LEMMA FoundRenews ==
  ASSUME Inv, NEW number \in 1..MaxAlerts, Found(number)
  PROVE  \E target : Renews(target)
<1> DEFINE a == Len(alerts)
           at == alerts[a].receivedAt
           target == [day |-> Day(at), number |-> number]
           peers == Qualifying(a)
           rows == Linked(a, target, peers)
           row == [createdAt |-> at, updatedAt |-> at, firstSeen |-> at, lastSeen |-> at]
           new == Refreshed(row, rows, target, at)
<1>1. /\ Involved(peers) = {} /\ IsFree(target) /\ Links(target) /\ members' = rows
      /\ contexts' = [c \in DOMAIN contexts \cup {target} |->
                        IF c = target THEN new ELSE contexts[c]]
  BY DEF Found, Links
<1>2. target \notin DOMAIN contexts
  BY <1>1 DEF IsFree
<1>3. /\ new.firstSeen = Min({alerts[m].receivedAt : m \in {n \in DOMAIN rows : rows[n].context = target}})
      /\ new.lastSeen = Max({alerts[m].receivedAt : m \in {n \in DOMAIN rows : rows[n].context = target}})
  BY RefreshedBounds
<1> HIDE DEF new, target, rows
<1>4. Renews(target)
  BY <1>1, <1>2, <1>3 DEF Renews
<1> QED
  BY <1>4

LEMMA JoinRenews ==
  ASSUME Inv, IdsInOrder, NEW target \in DOMAIN contexts, Join(target)
  PROVE  Renews(target)
<1> DEFINE a == Len(alerts)
           at == alerts[a].receivedAt
           peers == Qualifying(a)
           involved == Involved(peers)
           rows == Linked(a, target, peers)
           new == Refreshed(contexts[target], rows, target, at)
<1>1. /\ target \in involved /\ members' = rows
      /\ contexts' = [c \in (DOMAIN contexts \ involved) \cup {target} |->
                        IF c = target THEN Refreshed(contexts[c], rows, target, at)
                        ELSE contexts[c]]
  BY DEF Join
<1>2. Links(target)
  BY JoinLinks
<1>3. PICK r, u, f, l :
        contexts[target] = [createdAt |-> r, updatedAt |-> u, firstSeen |-> f, lastSeen |-> l]
  BY Zenon DEF IdsInOrder
<1>4. /\ new.firstSeen = Min({alerts[m].receivedAt : m \in {n \in DOMAIN rows : rows[n].context = target}})
      /\ new.lastSeen = Max({alerts[m].receivedAt : m \in {n \in DOMAIN rows : rows[n].context = target}})
  <2>1. new = Refreshed([createdAt |-> r, updatedAt |-> u, firstSeen |-> f, lastSeen |-> l],
                        rows, target, at)
    BY <1>3
  <2> QED
    BY <2>1, RefreshedBounds
<1>5. /\ contexts'[target] = new
      /\ DOMAIN contexts' = (DOMAIN contexts \ involved) \cup {target}
      /\ \A c \in DOMAIN contexts \ involved : c # target => contexts'[c] = contexts[c]
  BY <1>1
<1> HIDE DEF new, rows
<1> QED
  BY <1>1, <1>2, <1>4, <1>5 DEF Renews

(* The members of the contexts after a link. *)
LEMMA RenewedMembers ==
  ASSUME Inv, IdsInOrder, NEW target, Renews(target)
  PROVE  LET a == Len(alerts)
             peers == Qualifying(a)
         IN  /\ MembersOf(target)' =
                  {m \in DOMAIN members : members[m].context \in Involved(peers)} \cup peers \cup {a}
             /\ \A c \in DOMAIN contexts' \ {target} :
                  /\ c \in DOMAIN contexts /\ c \notin Involved(peers)
                  /\ MembersOf(c)' = MembersOf(c)
<1> DEFINE a == Len(alerts)
           peers == Qualifying(a)
           involved == Involved(peers)
<1>1. /\ DOMAIN members' = DOMAIN members \cup peers \cup {a}
      /\ \A m \in DOMAIN members :
           members'[m].context = IF members[m].context \in involved
                                 THEN target ELSE members[m].context
      /\ \A m \in (peers \cup {a}) : members'[m].context = target
  BY LinkedRows DEF Renews
<1>2. /\ target \in involved \/ target \notin DOMAIN contexts
      /\ DOMAIN contexts' = (DOMAIN contexts \ involved) \cup {target}
  BY DEF Renews
<1>3. \A m \in DOMAIN members : members[m].context \in DOMAIN contexts
  BY DEF IdsInOrder
<1>4. \A m \in peers \cap DOMAIN members : members[m].context \in involved
  BY DEF Involved
<1>5. a \notin DOMAIN members
  BY DEF Inv, Waits, Renews, Links
<1> HIDE DEF a, peers, involved
<1>6. MembersOf(target)' =
        {m \in DOMAIN members : members[m].context \in involved} \cup peers \cup {a}
  BY <1>1, <1>2, <1>3 DEF MembersOf
<1>7. ASSUME NEW c \in DOMAIN contexts' \ {target}
      PROVE  /\ c \in DOMAIN contexts /\ c \notin involved
             /\ MembersOf(c)' = MembersOf(c)
  <2>1. c \in DOMAIN contexts /\ c \notin involved
    BY <1>2
  <2>2. \A m : m \in MembersOf(c)' <=> m \in MembersOf(c)
    BY <2>1, <1>1, <1>4, <1>5 DEF MembersOf
  <2> QED
    BY <2>1, <2>2
<1> QED
  BY <1>6, <1>7 DEF a, peers, involved

LEMMA RenewConnects ==
  ASSUME Inv, IdsInOrder, ContextsConnected, NEW target, Renews(target)
  PROVE  ContextsConnected'
<1> DEFINE a == Len(alerts)
           peers == Qualifying(a)
           involved == Involved(peers)
           all == MembersOf(target)'
<1>1. /\ all = {m \in DOMAIN members : members[m].context \in involved} \cup peers \cup {a}
      /\ \A c \in DOMAIN contexts' \ {target} :
           /\ c \in DOMAIN contexts /\ c \notin involved
           /\ MembersOf(c)' = MembersOf(c)
  BY RenewedMembers
<1>2. /\ \A m \in DOMAIN members : m \in DOMAIN members' /\ members'[m].peers = members[m].peers
      /\ members'[a].peers = peers
  BY LinkedRows DEF Renews
<1>3. involved = {members[b].context : b \in peers \cap DOMAIN members}
  BY DEF Involved
<1>4. alerts' = alerts
  BY DEF Renews, Links
<1>5. \A m \in DOMAIN members : members[m].context \in DOMAIN contexts
  BY DEF IdsInOrder
<1>6. ASSUME NEW c \in DOMAIN contexts' \ {target}
      PROVE  /\ MembersOf(c)' # {}
             /\ BoundsDescribeMembers(c)'
             /\ \A part \in (SUBSET MembersOf(c)') \ {{}, MembersOf(c)'} :
                  \E m \in part, p \in MembersOf(c)' \ part :
                    p \in members'[m].peers \/ m \in members'[p].peers
  <2>1. c \in DOMAIN contexts /\ MembersOf(c)' = MembersOf(c) /\ contexts'[c] = contexts[c]
    BY <1>1 DEF Renews
  <2>2. /\ MembersOf(c) # {} /\ BoundsDescribeMembers(c)
        /\ \A part \in (SUBSET MembersOf(c)) \ {{}, MembersOf(c)} :
             \E m \in part, p \in MembersOf(c) \ part :
               p \in members[m].peers \/ m \in members[p].peers
    BY <2>1 DEF ContextsConnected
  <2>3. BoundsDescribeMembers(c)'
    BY <2>1, <2>2, <1>4 DEF BoundsDescribeMembers
  <2>4. \A m \in MembersOf(c) : members'[m].peers = members[m].peers
    BY <1>2 DEF MembersOf
  <2>5. ASSUME NEW part \in (SUBSET MembersOf(c)) \ {{}, MembersOf(c)}
        PROVE  \E m \in part, p \in MembersOf(c) \ part :
                 p \in members'[m].peers \/ m \in members'[p].peers
    <3>1. PICK m \in part, p \in MembersOf(c) \ part :
            p \in members[m].peers \/ m \in members[p].peers
      BY <2>2
    <3> QED
      BY <3>1, <2>4
  <2> QED
    BY <2>1, <2>2, <2>3, <2>5
<1>7. ASSUME NEW part \in (SUBSET all) \ {{}, all},
             \A m \in part, p \in all \ part :
               ~(p \in members'[m].peers \/ m \in members'[p].peers)
      PROVE  FALSE
  <2>1. ASSUME NEW p \in peers
        PROVE  p \in part <=> a \in part
    <3>1. p \in all /\ a \in all /\ p \in members'[a].peers
      BY <1>1, <1>2
    <3> QED
      BY <3>1, <1>7
  <2>2. ASSUME NEW x \in DOMAIN members, members[x].context \in involved
        PROVE  x \in part <=> a \in part
    <3>1. PICK q \in peers \cap DOMAIN members : members[q].context = members[x].context
      BY <1>3, <2>2
    <3> DEFINE c == members[x].context
               side == part \cap MembersOf(c)
    <3>2. x \in MembersOf(c) /\ q \in MembersOf(c) /\ c \in DOMAIN contexts
      BY <3>1, <1>5 DEF MembersOf
    <3>3. \A m \in MembersOf(c) : m \in all /\ members'[m].peers = members[m].peers
      BY <1>1, <1>2, <2>2 DEF MembersOf
    <3>4. \A some \in (SUBSET MembersOf(c)) \ {{}, MembersOf(c)} :
            \E m \in some, p \in MembersOf(c) \ some :
              p \in members[m].peers \/ m \in members[p].peers
      BY <3>2 DEF ContextsConnected
    <3> HIDE DEF c
    <3>5. ASSUME side # {}, side # MembersOf(c)
          PROVE  FALSE
      <4>1. PICK m \in side, p \in MembersOf(c) \ side :
              p \in members[m].peers \/ m \in members[p].peers
        <5>1. side \in (SUBSET MembersOf(c)) \ {{}, MembersOf(c)}
          BY <3>5
        <5> HIDE DEF side
        <5> QED
          BY <3>4, <5>1
      <4>2. m \in part /\ p \in all \ part
        BY <4>1, <3>3
      <4>3. p \in members'[m].peers \/ m \in members'[p].peers
        BY <4>1, <3>3
      <4> QED
        BY <4>2, <4>3, <1>7
    <3>6. x \in part <=> q \in part
      BY <3>2, <3>5
    <3> QED
      BY <3>6, <3>1, <2>1
  <2>3. \A x \in all : x \in part <=> a \in part
    BY <2>1, <2>2, <1>1
  <2>4. a \in all
    BY <1>1
  <2> HIDE DEF all, a
  <2>5. part = {} \/ part = all
    BY <2>3, <2>4
  <2> QED
    BY <2>5
<1>8. BoundsDescribeMembers(target)'
  <2>1. {alerts'[m].receivedAt : m \in all} =
          {alerts[m].receivedAt : m \in {n \in DOMAIN members' : members'[n].context = target}}
    BY <1>4 DEF MembersOf
  <2> QED
    BY <2>1 DEF Renews, BoundsDescribeMembers
<1>9. all # {}
  BY <1>1
<1> QED
  BY <1>6, <1>7, <1>8, <1>9 DEF ContextsConnected

(* A context is one investigation: it has members, its bounds are theirs,  *)
(* and evidence connects them all, through every merge (correlate,         *)
(* refresh_bounds).                                                        *)
THEOREM EvidenceConnects == Spec => []ContextsConnected
<1>1. Init => ContextsConnected
  BY DEF Init, ContextsConnected
<1>2. Inv /\ IdsInOrder /\ ContextsConnected /\ [Next]_vars => ContextsConnected'
  <2> SUFFICES ASSUME Inv, IdsInOrder, ContextsConnected, [Next]_vars
               PROVE  ContextsConnected'
    OBVIOUS
  <2>1. ASSUME NEW number \in 1..MaxAlerts, Found(number)
        PROVE  ContextsConnected'
    BY <2>1, FoundRenews, RenewConnects
  <2>2. ASSUME NEW target \in DOMAIN contexts, Join(target)
        PROVE  ContextsConnected'
    BY <2>2, JoinRenews, RenewConnects
  <2>3. ASSUME members' = members, contexts' = contexts,
               \A m \in DOMAIN members : alerts'[m] = alerts[m]
        PROVE  ContextsConnected'
    <3>1. ASSUME NEW c
          PROVE  MembersOf(c)' = MembersOf(c) /\ BoundsDescribeMembers(c)' = BoundsDescribeMembers(c)
      <4>1. MembersOf(c)' = MembersOf(c)
        BY <2>3 DEF MembersOf
      <4>2. {alerts'[m].receivedAt : m \in MembersOf(c)} = {alerts[m].receivedAt : m \in MembersOf(c)}
        BY <2>3 DEF MembersOf
      <4> QED
        BY <4>1, <4>2, <2>3 DEF BoundsDescribeMembers
    <3> QED
      BY <3>1, <2>3 DEF ContextsConnected
  <2>4. ASSUME NEW kind \in Kinds, NEW d \in ClockSteps, Record(kind, d)
        PROVE  ContextsConnected'
    <3>1. /\ members' = members /\ contexts' = contexts
          /\ \E row : alerts' = Append(alerts, row)
      BY <2>4 DEF Record
    <3>2. alerts \in Seq(AlertRow) /\ DOMAIN members \subseteq 1..Len(alerts)
      BY DEF Inv, Rows, Recorded
    <3> QED
      BY <2>3, <3>1, <3>2
  <2>5. CASE FindNothing \/ Lose \/ UNCHANGED vars
    BY <2>5, <2>3 DEF FindNothing, Lose, vars
  <2> QED
    BY <2>1, <2>2, <2>4, <2>5 DEF Next
<1> QED
  BY <1>1, <1>2, SpecInv, SpecIds, PTL DEF Spec

-----------------------------------------------------------------------------
(* Replaying a log.  The library's theorems about recursive functions take *)
(* operators as parameters, so that Replayed satisfies its equation is     *)
(* shown here: for each n there is one function up to n that does, these   *)
(* agree with each other, and together they make the whole.                *)

\* A set of naturals that has 0 and, with each number, the next one, has all.
LEMMA AllNaturals ==
  ASSUME NEW S, 0 \in S, \A k \in Nat : k \in S => k + 1 \in S
  PROVE  Nat \subseteq S
<1>1. PICK R : R = OpToRel(<, Nat)
  OBVIOUS
<1>2. IsWellFoundedOn(R, Nat)
  BY <1>1, NatLessThanWellFounded
<1>3. \A y, z \in Nat : y < z => <<y, z>> \in R
  BY <1>1 DEF OpToRel
<1> SUFFICES ASSUME Nat \ S # {}
             PROVE  FALSE
  OBVIOUS
<1>4. PICK least \in Nat \ S : \A y \in Nat \ S : ~(<<y, least>> \in R)
  BY <1>2, WFMin
<1>5. least # 0 /\ least - 1 \in Nat /\ least - 1 < least
  BY <1>4
<1>6. least - 1 \in S
  BY <1>3, <1>4, <1>5
<1> QED
  BY <1>4, <1>5, <1>6

\* f follows the contexts of a through the first n rows of the log.
Follows(f, log, a, n) ==
  /\ DOMAIN f = 0..n
  /\ f[0] = NoContext
  /\ \A k \in 0..(n - 1) : f[k + 1] = After(a, log[k + 1], f[k])

LEMMA FollowsAgree ==
  ASSUME NEW a, NEW n \in Nat, NEW l \in Nat, NEW f, NEW g, NEW log,
         Follows(f, log, a, n), Follows(g, log, a, l)
  PROVE  \A k \in Nat : k <= n /\ k <= l => f[k] = g[k]
<1> DEFINE S == {k \in Nat : k <= n /\ k <= l => f[k] = g[k]}
<1>1. 0 \in S
  BY DEF Follows
<1>2. ASSUME NEW k \in Nat, k \in S
      PROVE  k + 1 \in S
  <2>1. CASE k + 1 <= n /\ k + 1 <= l
    <3>1. k \in 0..(n - 1) /\ k \in 0..(l - 1) /\ f[k] = g[k]
      BY <1>2, <2>1
    <3> QED BY <3>1 DEF Follows
  <2>2. CASE ~(k + 1 <= n /\ k + 1 <= l)
    BY <2>2
  <2> QED BY <2>1, <2>2
<1> HIDE DEF S
<1>3. Nat \subseteq S
  BY <1>1, <1>2, AllNaturals
<1> QED
  BY <1>3 DEF S

LEMMA FollowsExist ==
  ASSUME NEW log, NEW a
  PROVE  \A n \in Nat : \E f : Follows(f, log, a, n)
<1> DEFINE S == {n \in Nat : \E f : Follows(f, log, a, n)}
<1>1. 0 \in S
  <2>1. Follows([k \in 0..0 |-> NoContext], log, a, 0)
    BY DEF Follows
  <2> QED BY <2>1
<1>2. ASSUME NEW n \in Nat, n \in S
      PROVE  n + 1 \in S
  <2>1. PICK f : Follows(f, log, a, n)
    BY <1>2
  <2> DEFINE g == [k \in 0..(n + 1) |-> IF k = n + 1 THEN After(a, log[n + 1], f[n]) ELSE f[k]]
  <2>2. DOMAIN g = 0..(n + 1) /\ g[0] = NoContext
    BY <2>1 DEF Follows
  <2>3. ASSUME NEW k \in 0..n
        PROVE  g[k + 1] = After(a, log[k + 1], g[k])
    <3>1. CASE k = n
      BY <3>1
    <3>2. CASE k # n
      <4>1. k \in 0..(n - 1) /\ k + 1 # n + 1 /\ k # n + 1 /\ k + 1 \in 0..(n + 1)
        BY <3>2
      <4>2. f[k + 1] = After(a, log[k + 1], f[k])
        BY <2>1, <4>1 DEF Follows
      <4> QED BY <4>1, <4>2
    <3> QED BY <3>1, <3>2
  <2> HIDE DEF g
  <2>4. Follows(g, log, a, n + 1)
    BY <2>2, <2>3 DEF Follows
  <2> QED BY <2>4
<1> HIDE DEF S
<1>3. Nat \subseteq S
  BY <1>1, <1>2, AllNaturals
<1> QED
  BY <1>3 DEF S

LEMMA ReplayedFollows ==
  ASSUME NEW log, NEW a, Len(log) \in Nat
  PROVE  \E f : Follows(f, log, a, Len(log)) /\ Replayed(log, a) = f[Len(log)]
<1> DEFINE F(n) == CHOOSE f : Follows(f, log, a, n)
<1> DEFINE whole == [k \in Nat |-> F(k)[k]]
<1>1. \A n \in Nat : Follows(F(n), log, a, n)
  BY FollowsExist
<1> HIDE DEF F
<1>2. whole[0] = NoContext
  BY <1>1 DEF Follows
<1>3. \A k \in Nat : whole[k + 1] = After(a, log[k + 1], whole[k])
  <2> SUFFICES ASSUME NEW k \in Nat
               PROVE  whole[k + 1] = After(a, log[k + 1], whole[k])
    OBVIOUS
  <2>1. F(k)[k] = F(k + 1)[k]
    <3>1. Follows(F(k), log, a, k) /\ Follows(F(k + 1), log, a, k + 1)
      BY <1>1
    <3>2. PICK f, g : f = F(k) /\ g = F(k + 1)
      OBVIOUS
    <3>3. \A j \in Nat : j <= k /\ j <= k + 1 => f[j] = g[j]
      BY <3>1, <3>2, FollowsAgree
    <3> QED BY <3>2, <3>3
  <2>2. F(k + 1)[k + 1] = After(a, log[k + 1], F(k + 1)[k])
    <3>1. k \in 0..((k + 1) - 1) /\ Follows(F(k + 1), log, a, k + 1)
      BY <1>1
    <3> QED BY <3>1 DEF Follows
  <2> QED BY <2>1, <2>2
<1> DEFINE Equation(f) ==
             f = [k \in Nat |-> IF k = 0 THEN NoContext ELSE After(a, log[k], f[k - 1])]
<1>4. Equation(whole)
  <2>1. ASSUME NEW k \in Nat
        PROVE  whole[k] = IF k = 0 THEN NoContext ELSE After(a, log[k], whole[k - 1])
    <3>1. CASE k = 0
      BY <1>2, <3>1
    <3>2. CASE k # 0
      <4>1. k - 1 \in Nat /\ (k - 1) + 1 = k
        BY <3>2
      <4>2. whole[(k - 1) + 1] = After(a, log[(k - 1) + 1], whole[k - 1])
        BY <1>3, <4>1
      <4> HIDE DEF whole
      <4> QED BY <3>2, <4>1, <4>2
    <3> QED BY <3>1, <3>2
  <2>2. DOMAIN whole = Nat /\ whole = [k \in Nat |-> whole[k]]
    OBVIOUS
  <2> HIDE DEF whole
  <2> QED BY <2>1, <2>2
<1> HIDE DEF whole
<1>5. PICK replay : Equation(replay) /\ Replayed(log, a) = replay[Len(log)]
  <2>1. Equation(CHOOSE f : Equation(f))
    BY <1>4
  <2>2. Replayed(log, a) = (CHOOSE f : Equation(f))[Len(log)]
    BY DEF Replayed
  <2> QED BY <2>1, <2>2
<1>6. replay[0] = NoContext /\ \A k \in Nat : replay[k + 1] = After(a, log[k + 1], replay[k])
  <2>1. replay[0] = NoContext
    BY <1>5
  <2>2. ASSUME NEW k \in Nat
        PROVE  replay[k + 1] = After(a, log[k + 1], replay[k])
    <3>1. k + 1 \in Nat /\ k + 1 # 0 /\ (k + 1) - 1 = k
      OBVIOUS
    <3>2. replay[k + 1] = After(a, log[k + 1], replay[(k + 1) - 1])
      BY <1>5, <3>1
    <3> QED BY <3>1, <3>2
  <2> QED BY <2>1, <2>2
<1> DEFINE f == [k \in 0..Len(log) |-> replay[k]]
<1>7. Follows(f, log, a, Len(log)) /\ f[Len(log)] = replay[Len(log)]
  BY <1>6 DEF Follows
<1> QED
  BY <1>5, <1>7

\* A log that grew by a row.
LEMMA ReplayedOnto ==
  ASSUME NEW log, NEW longer, NEW a, NEW row, Len(log) \in Nat,
         Len(longer) = Len(log) + 1, longer[Len(log) + 1] = row,
         \A k \in 1..Len(log) : longer[k] = log[k]
  PROVE  Replayed(longer, a) = After(a, row, Replayed(log, a))
<1> DEFINE n == Len(log)
<1>1. PICK f : Follows(f, log, a, n) /\ Replayed(log, a) = f[n]
  BY ReplayedFollows
<1>2. PICK g : Follows(g, longer, a, n + 1) /\ Replayed(longer, a) = g[n + 1]
  BY ReplayedFollows
<1>3. Follows(f, longer, a, n)
  <2>1. \A k \in 0..(n - 1) : longer[k + 1] = log[k + 1]
    OBVIOUS
  <2> HIDE DEF n
  <2> QED BY <2>1, <1>1 DEF Follows
<1>4. n \in Nat /\ n + 1 \in Nat
  OBVIOUS
<1> HIDE DEF n
<1>5. f[n] = g[n]
  <2>1. \A k \in Nat : k <= n /\ k <= n + 1 => f[k] = g[k]
    BY <1>2, <1>3, <1>4, FollowsAgree
  <2> QED BY <1>4, <2>1
<1>6. g[n + 1] = After(a, longer[n + 1], g[n])
  <2>1. n \in 0..((n + 1) - 1)
    BY <1>4
  <2> QED BY <2>1, <1>2 DEF Follows
<1> QED
  BY <1>1, <1>2, <1>5, <1>6 DEF n
\* The log replays to the memberships, also for alerts yet to come.
LogTellsContexts ==
  /\ Len(audit) \in Nat /\ \E S : audit \in Seq(S)
  /\ \A a \in Nat :
       Replayed(audit, a) = IF a \in DOMAIN members THEN members[a].context ELSE NoContext

\* The last row of a correlation links its alerts to the target; what was
\* logged before it has taken them to a context that the link does not undo.
LEMMA LinkLogged ==
  ASSUME NEW log, NEW longer, NEW a, NEW target, NEW named, Len(log) \in Nat,
         Len(longer) = Len(log) + 1,
         longer[Len(log) + 1] = Row("linked", target, named, {}),
         \A k \in 1..Len(log) : longer[k] = log[k]
  PROVE  Replayed(longer, a) = IF a \in named THEN target ELSE Replayed(log, a)
<1>1. Replayed(longer, a) = After(a, Row("linked", target, named, {}), Replayed(log, a))
  BY ReplayedOnto
<1> QED
  BY <1>1 DEF After, Row

LEMMA FoundLogged ==
  ASSUME Inv, LogTellsContexts, NEW number \in 1..MaxAlerts, Found(number)
  PROVE  LogTellsContexts'
<1> DEFINE a == Len(alerts)
           peers == Qualifying(a)
<1>1. PICK target : /\ Links(target) /\ Involved(peers) = {}
                    /\ audit' = audit \o <<Row("created", target, peers \cup {a}, {}),
                                           Row("linked", target, peers \cup {a}, {})>>
  BY DEF Found, Links
<1>2. /\ DOMAIN members' = DOMAIN members \cup peers \cup {a}
      /\ \A m \in DOMAIN members : members'[m].context = members[m].context
      /\ \A m \in (peers \cup {a}) : members'[m].context = target
  BY <1>1, LinkedRows
<1>3. PICK created : created = Row("created", target, peers \cup {a}, {})
  OBVIOUS
<1>4. PICK linked : linked = Row("linked", target, peers \cup {a}, {})
  OBVIOUS
<1>5. PICK S : audit \in Seq(S)
  BY DEF LogTellsContexts
<1> DEFINE middle == Append(audit, created)
           T == S \cup {created, linked}
<1>6. /\ Len(audit) \in Nat /\ Len(middle) = Len(audit) + 1
      /\ middle[Len(audit) + 1] = created
      /\ \A k \in 1..Len(audit) : middle[k] = audit[k]
  BY <1>5
<1>7. /\ audit' \in Seq(T) /\ Len(audit') \in Nat
      /\ Len(audit') = Len(middle) + 1
      /\ audit'[Len(middle) + 1] = linked
      /\ \A k \in 1..Len(middle) : audit'[k] = middle[k]
  <2>1. audit' = audit \o <<created, linked>>
    BY <1>1, <1>3, <1>4
  <2>2. audit \in Seq(T) /\ <<created, linked>> \in Seq(T)
    BY <1>5
  <2>3. audit' \in Seq(T)
    BY <2>1, <2>2
  <2>4. /\ Len(audit') = Len(audit) + 2
        /\ audit'[Len(audit) + 1] = created /\ audit'[Len(audit) + 2] = linked
        /\ \A k \in 1..Len(audit) : audit'[k] = audit[k]
    BY <2>1, <2>2
  <2> QED
    BY <2>3, <2>4, <1>6
<1> HIDE DEF middle, T
<1>8. ASSUME NEW b \in Nat
      PROVE  Replayed(audit, b)' = IF b \in DOMAIN members' THEN members'[b].context ELSE NoContext
  <2>1. Replayed(middle, b) = Replayed(audit, b)
    <3>1. Replayed(middle, b) = After(b, created, Replayed(audit, b))
      BY <1>6, ReplayedOnto
    <3> QED
      BY <3>1, <1>3 DEF After, Row
  <2>2. Replayed(audit', b) = IF b \in peers \cup {a} THEN target ELSE Replayed(middle, b)
    <3>1. PICK named : named = peers \cup {a}
      OBVIOUS
    <3>2. Len(middle) \in Nat /\ audit'[Len(middle) + 1] = Row("linked", target, named, {})
      BY <1>4, <1>6, <1>7, <3>1
    <3>3. Replayed(audit', b) = IF b \in named THEN target ELSE Replayed(middle, b)
      BY <1>7, <3>2, LinkLogged
    <3> QED BY <3>1, <3>3
  <2>3. Replayed(audit, b) = IF b \in DOMAIN members THEN members[b].context ELSE NoContext
    BY DEF LogTellsContexts
  <2> HIDE DEF a, peers
  <2> QED
    BY <2>1, <2>2, <2>3, <1>2
<1> QED
  BY <1>7, <1>8 DEF LogTellsContexts

LEMMA JoinLogged ==
  ASSUME Inv, IdsInOrder, LogTellsContexts, NEW target \in DOMAIN contexts, Join(target)
  PROVE  LogTellsContexts'
<1> DEFINE a == Len(alerts)
           peers == Qualifying(a)
           involved == Involved(peers)
           merges == MergeRows(target, involved \ {target})
           added == (peers \cup {a}) \ DOMAIN members
<1>1. /\ Links(target) /\ target \in involved
      /\ audit' = audit \o merges \o <<Row("linked", target, added, {})>>
  BY JoinLinks DEF Join
<1>2. /\ DOMAIN members' = DOMAIN members \cup peers \cup {a}
      /\ \A m \in DOMAIN members :
           members'[m].context = IF members[m].context \in involved
                                 THEN target ELSE members[m].context
      /\ \A m \in (peers \cup {a}) : members'[m].context = target
  BY <1>1, LinkedRows
<1>3. NoContext \notin involved
  <2>1. involved \subseteq ContextId
    BY DEF Involved, IdsInOrder
  <2> QED
    BY <2>1 DEF ContextId, NoContext
<1>4. PICK linked : linked = Row("linked", target, added, {})
  OBVIOUS
<1>5. PICK merge : merge = Row("merged", target, {}, involved \ {target})
  OBVIOUS
<1>6. PICK S : audit \in Seq(S)
  BY DEF LogTellsContexts
<1> DEFINE middle == audit \o merges
           T == S \cup {merge, linked}
<1>7. merges = IF involved \ {target} = {} THEN <<>> ELSE <<merge>>
  BY <1>5 DEF MergeRows
<1> HIDE DEF merges, involved, added, T
<1>8. middle \in Seq(T) /\ Len(middle) \in Nat
  <2>1. audit \in Seq(T)
    BY <1>6 DEF T
  <2>2. <<>> \in Seq(T)
    OBVIOUS
  <2>3. <<merge>> \in Seq(T)
    BY DEF T
  <2>4. merges \in Seq(T)
    BY <1>7, <2>2, <2>3
  <2> QED
    BY <2>1, <2>4
<1>9. ASSUME NEW b \in Nat
      PROVE  Replayed(middle, b) = IF Replayed(audit, b) \in involved
                                   THEN target ELSE Replayed(audit, b)
  <2>1. CASE involved \ {target} = {}
    <3>1. middle = audit
      BY <1>6, <1>7, <2>1
    <3> HIDE DEF middle
    <3> QED
      BY <3>1, <2>1
  <2>2. CASE involved \ {target} # {}
    <3>1. middle = Append(audit, merge)
      BY <1>6, <1>7, <2>2
    <3>2. /\ Len(audit) \in Nat /\ Len(middle) = Len(audit) + 1
          /\ middle[Len(audit) + 1] = merge
          /\ \A k \in 1..Len(audit) : middle[k] = audit[k]
      BY <3>1, <1>6
    <3> HIDE DEF middle
    <3>3. Replayed(middle, b) = After(b, merge, Replayed(audit, b))
      BY <3>2, ReplayedOnto
    <3>4. After(b, merge, Replayed(audit, b)) =
            IF Replayed(audit, b) \in involved \ {target} THEN target ELSE Replayed(audit, b)
      BY <1>5 DEF After, Row
    <3> QED
      BY <3>3, <3>4
  <2> QED
    BY <2>1, <2>2
<1>10. /\ audit' \in Seq(T) /\ Len(audit') \in Nat
       /\ Len(audit') = Len(middle) + 1
       /\ audit'[Len(middle) + 1] = linked
       /\ \A k \in 1..Len(middle) : audit'[k] = middle[k]
  <2>1. audit' = middle \o <<linked>>
    BY <1>1, <1>4
  <2> HIDE DEF middle
  <2>2. <<linked>> \in Seq(T)
    BY DEF T
  <2> QED
    BY <2>1, <2>2, <1>8
<1> HIDE DEF middle
<1>11. ASSUME NEW b \in Nat
       PROVE  Replayed(audit, b)' = IF b \in DOMAIN members' THEN members'[b].context ELSE NoContext
  <2>1. Replayed(audit', b) = IF b \in added THEN target ELSE Replayed(middle, b)
    BY <1>4, <1>8, <1>10, LinkLogged
  <2>2. Replayed(audit, b) = IF b \in DOMAIN members THEN members[b].context ELSE NoContext
    BY DEF LogTellsContexts
  <2>3. CASE b \in DOMAIN members
    BY <2>1, <2>2, <2>3, <1>2, <1>9 DEF added
  <2>4. CASE b \in added
    BY <2>1, <2>4, <1>2 DEF added
  <2>5. CASE b \notin DOMAIN members /\ b \notin added
    BY <2>1, <2>2, <2>5, <1>2, <1>3, <1>9 DEF added
  <2> QED
    BY <2>3, <2>4, <2>5
<1> QED
  BY <1>10, <1>11 DEF LogTellsContexts

(* Following an alert's rows in the order of the log ends at the context   *)
(* it is in, even if an id on the way was given to a second context        *)
(* (CorrelationService.correlate).                                         *)
THEOREM LogTellsHistory == Spec => []HistoryReconstructable
<1>1. Init => LogTellsContexts
  <2> SUFFICES ASSUME Init
               PROVE  LogTellsContexts
    OBVIOUS
  <2>1. audit = <<>> /\ Len(audit) = 0 /\ DOMAIN members = {}
    BY DEF Init
  <2>2. <<>> \in Seq({})
    OBVIOUS
  <2>3. ASSUME NEW a \in Nat
        PROVE  Replayed(audit, a) = NoContext
    <3>1. PICK f : Follows(f, audit, a, 0) /\ Replayed(audit, a) = f[0]
      BY <2>1, ReplayedFollows
    <3> QED
      BY <3>1 DEF Follows
  <2> QED
    BY <2>1, <2>2, <2>3 DEF LogTellsContexts
<1>2. Inv /\ IdsInOrder /\ LogTellsContexts /\ [Next]_vars => LogTellsContexts'
  <2> SUFFICES ASSUME Inv, IdsInOrder, LogTellsContexts, [Next]_vars
               PROVE  LogTellsContexts'
    OBVIOUS
  <2>1. ASSUME NEW number \in 1..MaxAlerts, Found(number)
        PROVE  LogTellsContexts'
    BY <2>1, FoundLogged
  <2>2. ASSUME NEW target \in DOMAIN contexts, Join(target)
        PROVE  LogTellsContexts'
    BY <2>2, JoinLogged
  <2>3. CASE FindNothing \/ Lose \/ UNCHANGED vars \/ \E kind \in Kinds, d \in ClockSteps : Record(kind, d)
    <3>1. audit' = audit /\ members' = members
      BY <2>3 DEF FindNothing, Lose, Record, vars
    <3> QED
      BY <3>1 DEF LogTellsContexts
  <2> QED
    BY <2>1, <2>2, <2>3 DEF Next
<1>3. Inv /\ LogTellsContexts => HistoryReconstructable
  BY DEF Inv, Rows, Recorded, LogTellsContexts, HistoryReconstructable
<1> QED
  BY <1>1, <1>2, <1>3, SpecInv, SpecIds, PTL DEF Spec
=============================================================================
