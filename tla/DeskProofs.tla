----------------------------- MODULE DeskProofs -----------------------------
(***************************************************************************)
(* Proofs about Desk, for every set of indicators and analysts, every base *)
(* and padding of the numbers, every page size and every bound: numbers    *)
(* that fit their padding stay fresh, exports agree on one case which is   *)
(* the incident's own, cases are accounted for by the lookups that missed  *)
(* one, recorded counts are true, and assignments take effect.             *)
(***************************************************************************)
EXTENDS Desk, FiniteSetTheorems, WellFoundedInduction, TLAPS

-----------------------------------------------------------------------------
(* Induction: a set of naturals that is not empty has a least element.     *)

LEMMA LeastOf ==
  ASSUME NEW S \in SUBSET Nat, S # {}
  PROVE  \E x \in S : \A y \in S : x <= y
<1>0. PICK R : R = OpToRel(<, Nat)
  OBVIOUS
<1>1. IsWellFoundedOn(R, Nat)
  BY <1>0, NatLessThanWellFounded
<1>2. PICK x \in S : \A y \in S : ~(<<y, x>> \in R)
  BY <1>1, WFMin
<1>3. \A y, z \in Nat : y < z => <<y, z>> \in R
  BY <1>0 DEF OpToRel
<1>4. \A y \in S : x \in Nat /\ y \in Nat /\ ~(y < x)
  BY <1>2, <1>3
<1> QED BY <1>4

LEMMA MinOf ==
  ASSUME NEW S \in SUBSET Nat, S # {}
  PROVE  Min(S) \in S /\ \A y \in S : Min(S) <= y
BY LeastOf DEF Min

-----------------------------------------------------------------------------
(* Numbers that fit the padding are all written with as many digits, so    *)
(* their strings are in the order of the numbers.                          *)

LEMMA SizeThatFits ==
  ASSUME NEW n \in Nat, Fits(n)
  PROVE  Size(n) = Width
<1> DEFINE sizes == {k \in Width..(Width + n) : n < Base^k}
<1>1. Width \in sizes /\ \A k \in sizes : k \in Nat /\ Width <= k
  BY DigitsAssumption DEF Fits
<1>2. Size(n) = CHOOSE k \in sizes : \A l \in sizes : k <= l
  BY DEF Size, Min
<1> HIDE DEF sizes
<1>3. PICK size : size = CHOOSE k \in sizes : \A l \in sizes : k <= l
  OBVIOUS
<1>4. size \in sizes /\ size <= Width
  BY <1>1, <1>3
<1> QED
  BY <1>1, <1>2, <1>3, <1>4, DigitsAssumption

LEMMA BelowIsLess ==
  ASSUME NEW n \in Nat, NEW m \in Nat, Fits(n), Fits(m)
  PROVE  Below(n, m) <=> n < m
<1>1. Size(n) = Width /\ Size(m) = Width
  BY SizeThatFits
<1> QED
  BY <1>1, DigitsAssumption DEF Below

\* Of two numbers that fit the padding neither begins the other.
LEMMA BeginsTells ==
  ASSUME NEW n \in Nat, NEW m \in Nat, Fits(n), Fits(m), Begins(n, m)
  PROVE  n = m
<1>1. Size(n) = Width /\ Size(m) = Width
  BY SizeThatFits
<1> QED
  BY <1>1, DigitsAssumption DEF Begins

-----------------------------------------------------------------------------
(* Numbering: while they fit, the numbers of a day are 1 to their count.   *)

AllFit == \A n \in incidents : Fits(n)

Consecutive == AllFit => \E N \in Nat : incidents = 1..N

LEMMA NextIsOneMore ==
  ASSUME NEW N \in Nat, incidents = 1..N, AllFit
  PROVE  NextNumber = N + 1
<1>1. CASE N = 0
  <2>1. incidents = {}
    BY <1>1
  <2> QED BY <1>1, <2>1 DEF NextNumber
<1>2. CASE N # 0
  <2>1. N \in incidents
    BY <1>2
  <2>2. \A n, m \in incidents : /\ n \in Nat /\ m \in Nat
                                /\ Below(n, m) <=> n < m
    BY BelowIsLess DEF AllFit
  <2>3. \A m \in incidents : ~Below(N, m)
    BY <2>1, <2>2
  <2>4. PICK last : last = CHOOSE n \in incidents : IsLast(n, incidents)
    OBVIOUS
  <2>5. last \in incidents /\ \A m \in incidents : ~Below(last, m)
    BY <2>1, <2>3, <2>4 DEF IsLast
  <2>6. ~(last < N)
    BY <2>1, <2>2, <2>5
  <2>7. last = N
    BY <2>5, <2>6
  <2>8. NextNumber = 1 + last
    BY <2>1, <2>4 DEF NextNumber
  <2> QED BY <2>7, <2>8
<1> QED
  BY <1>1, <1>2

-----------------------------------------------------------------------------
(* The inductive invariants.                                               *)

Exports == [stage : {"none", "lookup", "create", "observables"},
            incident : incidents \cup {0},
            todo : SUBSET Indicators, sent : SUBSET Indicators,
            case : Nat, missed : BOOLEAN]

TypeOK ==
  /\ now \in Int
  /\ evidence \in [incidents -> SUBSET Indicators]
  /\ blind \in [incidents -> Nat]
  /\ wanted \in [incidents -> Analysts \cup {Nobody}]
  /\ cases \in Seq([incident : incidents, observables : SUBSET Indicators])
  /\ export \in Exports
  /\ export.stage = "none" => export = NoExport
  /\ export.stage # "none" => export.incident \in incidents
  /\ \E S : audit \in Seq(S)
  /\ \A k \in DOMAIN audit : audit[k].incident \in incidents /\ audit[k].at \in Int

\* An export that is to create a case knows whether its lookup missed one.
MissesAreKnown == export.stage = "create" => export.missed = (CasesOf(export.incident) # {})

Exported(k) == k \in DOMAIN audit /\ audit[k].action = "exported"

\* One row per incident exported, about a case that is the incident's own.
OneRowEach == \A k, l : Exported(k) /\ Exported(l) /\ audit[k].incident = audit[l].incident
                        => k = l

RowsHaveCases ==
  \A k : Exported(k) => /\ audit[k].value.case \in DOMAIN cases
                        /\ AllFit => cases[audit[k].value.case].incident = audit[k].incident

\* An export is in progress for an incident without a row; its case is its own.
NotYetOnRecord ==
  export.stage # "none" => \A k : Exported(k) => audit[k].incident # export.incident

CaseInHand ==
  export.stage = "observables" => /\ export.case \in DOMAIN cases
                                  /\ cases[export.case].incident = export.incident

AnswersOnRecord ==
  \A x \in answers : \E k : Exported(k) /\ x = <<audit[k].incident, audit[k].value.case>>

Recorded == OneRowEach /\ RowsHaveCases /\ NotYetOnRecord /\ AnswersOnRecord

\* Nothing is sent before there is a case; the case in hand holds what was sent,
\* and is on no row.
SentIsHeld ==
  /\ export.stage # "observables" => export.sent = {}
  /\ export.stage = "observables" =>
       /\ cases[export.case].observables = export.sent
       /\ \A k : Exported(k) => audit[k].value.case # export.case

-----------------------------------------------------------------------------
LEMMA Appended ==
  ASSUME NEW s, NEW e, \E S : s \in Seq(S)
  PROVE  /\ \E S : Append(s, e) \in Seq(S)
         /\ Len(s) \in Nat /\ DOMAIN s = 1..Len(s)
         /\ Len(Append(s, e)) = Len(s) + 1
         /\ DOMAIN Append(s, e) = 1..(Len(s) + 1)
         /\ \A k \in 1..Len(s) : Append(s, e)[k] = s[k]
         /\ Append(s, e)[Len(s) + 1] = e
<1>1. PICK S : s \in Seq(S)
  OBVIOUS
<1>2. s \in Seq(S \cup {e}) /\ e \in S \cup {e}
  BY <1>1
<1>3. Append(s, e) \in Seq(S \cup {e})
  BY <1>2
<1> QED
  BY <1>2, <1>3

\* The rows' part of TypeOK, for a row about an incident, written now.
LEMMA RowAppended ==
  ASSUME NEW s, NEW row, NEW I, row.incident \in I, row.at \in Int,
         \E S : s \in Seq(S), \A k \in DOMAIN s : s[k].incident \in I /\ s[k].at \in Int
  PROVE  /\ \E S : Append(s, row) \in Seq(S)
         /\ \A k \in DOMAIN Append(s, row) : /\ Append(s, row)[k].incident \in I
                                             /\ Append(s, row)[k].at \in Int
<1>1. /\ \E S : Append(s, row) \in Seq(S)
      /\ Len(s) \in Nat /\ DOMAIN s = 1..Len(s)
      /\ Len(Append(s, row)) = Len(s) + 1
      /\ DOMAIN Append(s, row) = 1..(Len(s) + 1)
      /\ \A k \in 1..Len(s) : Append(s, row)[k] = s[k]
      /\ Append(s, row)[Len(s) + 1] = row
  BY Appended
<1>2. ASSUME NEW k \in 1..(Len(s) + 1)
      PROVE  Append(s, row)[k].incident \in I /\ Append(s, row)[k].at \in Int
  <2>1. CASE k \in 1..Len(s)
    BY <1>1, <2>1
  <2>2. CASE k = Len(s) + 1
    BY <1>1, <2>2
  <2> QED BY <1>1, <2>1, <2>2
<1> QED
  BY <1>1, <1>2

LEMMA TypeInit == Init => TypeOK
<1> SUFFICES ASSUME Init
             PROVE  TypeOK
  OBVIOUS
<1>1. \E S : audit \in Seq(S)
  <2>1. <<>> \in Seq({})
    OBVIOUS
  <2> QED BY <2>1 DEF Init
<1>2. cases \in Seq([incident : incidents, observables : SUBSET Indicators])
  BY DEF Init
<1>3. \A k \in DOMAIN audit : audit[k].incident \in incidents /\ audit[k].at \in Int
  BY DEF Init
<1> QED
  BY <1>1, <1>2, <1>3 DEF Init, TypeOK, Exports, NoExport

LEMMA TypeStep == TypeOK /\ [Next]_vars => TypeOK'
<1> SUFFICES ASSUME TypeOK, [Next]_vars
             PROVE  TypeOK'
  OBVIOUS
<1> USE DEF TypeOK
<1>1. ASSUME OpenIncident
      PROVE  TypeOK'
  <2>1. incidents \subseteq incidents' /\ UNCHANGED <<now, audit, cases, export>>
    BY <1>1 DEF OpenIncident
  <2>2. /\ evidence' \in [incidents' -> SUBSET Indicators]
        /\ blind' \in [incidents' -> Nat]
        /\ wanted' \in [incidents' -> Analysts \cup {Nobody}]
    BY <1>1 DEF OpenIncident
  <2>3. cases' \in Seq([incident : incidents', observables : SUBSET Indicators])
    <3>1. PICK A, B : /\ A = [incident : incidents, observables : SUBSET Indicators]
                      /\ B = [incident : incidents', observables : SUBSET Indicators]
      OBVIOUS
    <3>2. A \subseteq B
      BY <2>1, <3>1
    <3>3. cases \in Seq(A)
      BY <3>1
    <3> HIDE DEF TypeOK
    <3>4. cases \in Seq(B)
      BY <3>2, <3>3
    <3> QED BY <2>1, <3>1, <3>4
  <2>4. export' \in Exports'
    BY <2>1 DEF Exports
  <2> QED BY <2>1, <2>2, <2>3, <2>4 DEF NoExport
<1>2. ASSUME NEW i \in incidents, NEW ioc \in Indicators, Link(i, ioc)
      PROVE  TypeOK'
  BY <1>2 DEF Link, Exports, NoExport
<1>3. ASSUME NEW i \in incidents, NEW a \in Analysts \cup {Nobody}, Assign(i, a)
      PROVE  TypeOK'
  <2>1. /\ UNCHANGED <<now, incidents, evidence, cases, export, blind>>
        /\ wanted' \in [incidents -> Analysts \cup {Nobody}]
    BY <1>3 DEF Assign
  <2>2. /\ \E S : audit' \in Seq(S)
        /\ \A k \in DOMAIN audit' : audit'[k].incident \in incidents /\ audit'[k].at \in Int
    <3>1. CASE CurrentAssignment(i) # a
      <4>1. PICK row : row = Row(i, "assigned", a, now)
        OBVIOUS
      <4>2. row.incident \in incidents /\ row.at \in Int
        BY <4>1 DEF Row
      <4>3. audit' = Append(audit, row)
        BY <1>3, <3>1, <4>1 DEF Assign
      <4> QED BY <4>2, <4>3, RowAppended
    <3>2. CASE CurrentAssignment(i) = a
      BY <1>3, <3>2 DEF Assign
    <3> QED BY <3>1, <3>2
  <2> QED BY <2>1, <2>2 DEF Exports, NoExport
<1>4. ASSUME NEW i \in incidents, AddNote(i)
      PROVE  TypeOK'
  <2>1. UNCHANGED <<now, incidents, evidence, cases, export, blind, wanted>>
    BY <1>4 DEF AddNote
  <2>2. PICK row : row = Row(i, "note", 0, now)
    OBVIOUS
  <2>3. row.incident \in incidents /\ row.at \in Int
    BY <2>2 DEF Row
  <2>4. audit' = Append(audit, row)
    BY <1>4, <2>2 DEF AddNote
  <2>5. /\ \E S : audit' \in Seq(S)
        /\ \A k \in DOMAIN audit' : audit'[k].incident \in incidents /\ audit'[k].at \in Int
    BY <2>3, <2>4, RowAppended
  <2> QED BY <2>1, <2>5 DEF Exports, NoExport
<1>5. ASSUME NEW i \in incidents, ExportAgain(i)
      PROVE  TypeOK'
  BY <1>5 DEF ExportAgain, Exports, NoExport
<1>6. ASSUME NEW i \in incidents, BeginExport(i)
      PROVE  TypeOK'
  <2>1. UNCHANGED <<now, incidents, evidence, audit, cases, blind, wanted>>
    BY <1>6 DEF BeginExport
  <2>2. export' = [stage |-> "lookup", incident |-> i, todo |-> evidence[i], sent |-> {},
                   case |-> 0, missed |-> FALSE]
    BY <1>6 DEF BeginExport, NoExport, Observables
  <2>3. export' \in Exports' /\ export'.stage = "lookup" /\ export'.incident \in incidents'
    BY <2>1, <2>2 DEF Exports
  <2> QED BY <2>1, <2>3
<1>7. ASSUME Recover
      PROVE  TypeOK'
  <2>1. UNCHANGED <<now, incidents, evidence, cases, blind, wanted>> /\ export' = NoExport
    BY <1>7 DEF Recover
  <2>2. export.incident \in incidents
    BY <1>7 DEF Recover, AtStage
  <2>3. PICK page : \/ \E value : audit' = Append(audit, Row(export.incident, "exported", value, now))
                    \/ UNCHANGED audit
    BY <1>7 DEF Recover
  <2>4. /\ \E S : audit' \in Seq(S)
        /\ \A k \in DOMAIN audit' : audit'[k].incident \in incidents /\ audit'[k].at \in Int
    <3>1. CASE UNCHANGED audit
      BY <3>1
    <3>2. CASE \E value : audit' = Append(audit, Row(export.incident, "exported", value, now))
      <4>1. PICK value : audit' = Append(audit, Row(export.incident, "exported", value, now))
        BY <3>2
      <4>2. PICK row : row = Row(export.incident, "exported", value, now)
        OBVIOUS
      <4>3. row.incident \in incidents /\ row.at \in Int
        BY <2>2, <4>2 DEF Row
      <4> QED BY <4>1, <4>2, <4>3, RowAppended
    <3> QED BY <2>3, <3>1, <3>2
  <2> QED BY <2>1, <2>4 DEF Exports, NoExport
<1>8. ASSUME FindNothing
      PROVE  TypeOK'
  <2>1. UNCHANGED <<now, incidents, evidence, audit, cases, blind, wanted>>
    BY <1>8 DEF FindNothing
  <2>2. PICK missed \in BOOLEAN : missed = (CasesOf(export.incident) # {})
    OBVIOUS
  <2>3. export.stage = "lookup" /\ export' = [export EXCEPT !.stage = "create", !.missed = missed]
    BY <1>8, <2>2 DEF FindNothing, AtStage
  <2>4. export' \in Exports' /\ export'.stage = "create" /\ export'.incident \in incidents'
    BY <2>1, <2>3 DEF Exports
  <2> QED BY <2>1, <2>4
<1>9. ASSUME CreateCase
      PROVE  TypeOK'
  <2>1. /\ UNCHANGED <<now, incidents, evidence, audit, wanted>>
        /\ export.stage = "create" /\ export.incident \in incidents
    BY <1>9 DEF CreateCase, AtStage
  <2>2. cases' \in Seq([incident : incidents, observables : SUBSET Indicators])
    BY <1>9, <2>1 DEF CreateCase
  <2>3. blind' \in [incidents -> Nat]
    BY <1>9, <2>1 DEF CreateCase
  <2>4. PICK n \in Nat : n = Len(cases) + 1
    OBVIOUS
  <2>5. \/ export' = [export EXCEPT !.stage = "observables", !.case = n]
        \/ export' = NoExport
    BY <1>9, <2>4 DEF CreateCase
  <2>6. CASE export' = [export EXCEPT !.stage = "observables", !.case = n]
    <3>1. export' \in Exports' /\ export'.stage = "observables" /\ export'.incident \in incidents'
      BY <2>1, <2>6 DEF Exports
    <3> QED BY <2>1, <2>2, <2>3, <3>1
  <2>7. CASE export' = NoExport
    BY <2>1, <2>2, <2>3, <2>7 DEF Exports, NoExport
  <2> QED BY <2>5, <2>6, <2>7
<1>10. ASSUME AddObservable
       PROVE  TypeOK'
  <2>1. /\ UNCHANGED <<now, incidents, evidence, audit, blind, wanted>>
        /\ export.stage = "observables" /\ export.incident \in incidents
    BY <1>10 DEF AddObservable, AtStage
  <2>2. PICK ioc \in export.todo :
          /\ cases' = [cases EXCEPT ![export.case].observables = @ \cup {ioc}]
          /\ export' \in {[export EXCEPT !.todo = @ \ {ioc}, !.sent = @ \cup {ioc}], NoExport}
    BY <1>10 DEF AddObservable
  <2>3. ioc \in Indicators
    BY DEF Exports
  <2>4. cases' \in Seq([incident : incidents, observables : SUBSET Indicators])
    <3>1. PICK C : C = [incident : incidents, observables : SUBSET Indicators]
      OBVIOUS
    <3>2. PICK c : c = export.case
      OBVIOUS
    <3>3. cases \in Seq(C)
      BY <3>1
    <3> HIDE DEF TypeOK
    <3>4. Len(cases) \in Nat /\ cases \in [1..Len(cases) -> C]
      BY <3>3
    <3>5. cases' = [k \in 1..Len(cases) |->
                      IF k = c THEN [cases[k] EXCEPT !.observables = @ \cup {ioc}]
                               ELSE cases[k]]
      BY <2>2, <3>2, <3>4
    <3>6. \A k \in 1..Len(cases) : [cases[k] EXCEPT !.observables = @ \cup {ioc}] \in C
      BY <2>3, <3>1, <3>4
    <3>7. cases' \in [1..Len(cases) -> C]
      BY <3>4, <3>5, <3>6
    <3>8. cases' \in Seq(C)
      BY <3>4, <3>7
    <3> QED BY <3>1, <3>8
  <2>5. CASE export' = [export EXCEPT !.todo = @ \ {ioc}, !.sent = @ \cup {ioc}]
    <3>1. PICK todo \in SUBSET Indicators, sent \in SUBSET Indicators :
            todo = export.todo \ {ioc} /\ sent = export.sent \cup {ioc}
      BY <2>3 DEF Exports
    <3>2. export' = [export EXCEPT !.todo = todo, !.sent = sent]
      BY <2>5, <3>1 DEF Exports
    <3>3. export' \in Exports' /\ export'.stage = "observables" /\ export'.incident \in incidents'
      BY <2>1, <3>2 DEF Exports
    <3> QED BY <2>1, <2>4, <3>3
  <2>6. CASE export' = NoExport
    BY <2>1, <2>4, <2>6 DEF Exports, NoExport
  <2> QED BY <2>2, <2>5, <2>6
<1>11. ASSUME CommitExport
       PROVE  TypeOK'
  <2>1. /\ UNCHANGED <<now, incidents, evidence, cases, blind, wanted>> /\ export' = NoExport
        /\ export.incident \in incidents
    BY <1>11 DEF CommitExport, AtStage
  <2>2. PICK value : audit' = Append(audit, Row(export.incident, "exported", value, now))
    BY <1>11 DEF CommitExport
  <2>3. PICK row : row = Row(export.incident, "exported", value, now)
    OBVIOUS
  <2>4. row.incident \in incidents /\ row.at \in Int
    BY <2>1, <2>3 DEF Row
  <2>5. /\ \E S : audit' \in Seq(S)
        /\ \A k \in DOMAIN audit' : audit'[k].incident \in incidents /\ audit'[k].at \in Int
    BY <2>2, <2>3, <2>4, RowAppended
  <2> QED BY <2>1, <2>5 DEF Exports, NoExport
<1>12. ASSUME AbandonExport
       PROVE  TypeOK'
  BY <1>12 DEF AbandonExport, Exports, NoExport
<1>13. ASSUME Tick
       PROVE  TypeOK'
  <2>1. now' \in Int
    <3>1. PICK d : now + d \in 0..(MaxTime - 1) /\ now' = now + d
      BY <1>13 DEF Tick
    <3> QED BY <3>1, BoundsAssumption
  <2> QED BY <1>13, <2>1 DEF Tick, Exports, NoExport
<1>14. ASSUME UNCHANGED vars
       PROVE  TypeOK'
  BY <1>14 DEF vars, Exports, NoExport
<1> QED
  BY <1>1, <1>2, <1>3, <1>4, <1>5, <1>6, <1>7, <1>8, <1>9, <1>10, <1>11, <1>12, <1>13, <1>14
     DEF Next, Exporting

\* The audit log names incidents, TheHive's cases name incidents, and an export
\* in progress is for an incident.
THEOREM TypeCorrect == Spec => []TypeOK
<1>1. Init => TypeOK
  BY TypeInit
<1>2. TypeOK /\ [Next]_vars => TypeOK'
  BY TypeStep
<1> QED
  BY <1>1, <1>2, PTL DEF Spec

-----------------------------------------------------------------------------
LEMMA NumberingInit == Init => Consecutive
<1>1. {} = 1..0
  OBVIOUS
<1> QED BY <1>1 DEF Init, Consecutive

LEMMA NumberingStep == Consecutive /\ [Next]_vars => Consecutive'
<1> SUFFICES ASSUME Consecutive, [Next]_vars, AllFit'
             PROVE  \E N \in Nat : incidents' = 1..N
  BY DEF Consecutive
<1>1. ASSUME OpenIncident
      PROVE  \E N \in Nat : incidents' = 1..N
  <2>1. incidents' = incidents \cup {NextNumber}
    BY <1>1 DEF OpenIncident
  <2>2. AllFit
    BY <2>1 DEF AllFit
  <2>3. PICK N \in Nat : incidents = 1..N
    BY <2>2 DEF Consecutive
  <2>4. NextNumber = N + 1
    BY <2>2, <2>3, NextIsOneMore
  <2>5. incidents' = 1..(N + 1)
    BY <2>1, <2>3, <2>4
  <2> QED BY <2>5
<1>2. ASSUME UNCHANGED incidents
      PROVE  \E N \in Nat : incidents' = 1..N
  BY <1>2 DEF Consecutive, AllFit
<1>3. OpenIncident \/ UNCHANGED incidents
  BY DEF Next, vars, Link, Assign, AddNote, ExportAgain, BeginExport, Exporting, Recover,
         FindNothing, CreateCase, AddObservable, CommitExport, AbandonExport, Tick
<1> QED BY <1>1, <1>2, <1>3

\* Until the numbers outgrow their padding, opening an incident never meets a
\* number that is taken: the number found by the order of the strings is one more
\* than all of the day's (IncidentRepository._next_id).
THEOREM NumbersAreFresh == Spec => []NumbersStayFresh
<1>1. Consecutive => NumbersStayFresh
  <2> SUFFICES ASSUME Consecutive, AllFit
               PROVE  NextNumber \notin incidents
    BY DEF NumbersStayFresh, AllFit
  <2>1. PICK N \in Nat : incidents = 1..N
    BY DEF Consecutive
  <2>2. NextNumber = N + 1
    BY <2>1, NextIsOneMore
  <2> QED BY <2>1, <2>2
<1> QED
  BY <1>1, NumberingInit, NumberingStep, PTL DEF Spec

-----------------------------------------------------------------------------
(* Cases *)

LEMMA CasesAreTyped ==
  ASSUME TypeOK, NEW c \in DOMAIN cases
  PROVE  cases[c] \in [incident : incidents, observables : SUBSET Indicators]
<1>1. PICK C : C = [incident : incidents, observables : SUBSET Indicators]
  OBVIOUS
<1>2. cases \in Seq(C)
  BY <1>1 DEF TypeOK
<1>3. cases[c] \in C
  BY <1>2
<1> QED
  BY <1>1, <1>3

\* An observable changes nothing of a case but its observables, and no other case.
LEMMA ObservableAdded ==
  ASSUME TypeOK, NEW c \in DOMAIN cases, NEW ioc,
         cases' = [cases EXCEPT ![c].observables = @ \cup {ioc}]
  PROVE  /\ DOMAIN cases' = DOMAIN cases
         /\ \A d \in DOMAIN cases : cases'[d].incident = cases[d].incident
         /\ \A d \in DOMAIN cases : d # c => cases'[d] = cases[d]
         /\ cases'[c].observables = cases[c].observables \cup {ioc}
<1>1. cases \in Seq([incident : incidents, observables : SUBSET Indicators])
  BY DEF TypeOK
<1>2. \A d \in DOMAIN cases : cases[d] \in [incident : incidents, observables : SUBSET Indicators]
  BY CasesAreTyped
<1>3. DOMAIN cases' = DOMAIN cases /\ \A d \in DOMAIN cases : d # c => cases'[d] = cases[d]
  BY <1>1
<1>4. cases'[c] = [cases[c] EXCEPT !.observables = @ \cup {ioc}]
  BY <1>1
<1>5. cases'[c].incident = cases[c].incident
  BY <1>2, <1>4
<1>6. cases'[c].observables = cases[c].observables \cup {ioc}
  BY <1>2, <1>4
<1> QED
  BY <1>3, <1>5, <1>6

LEMMA CaseCreated ==
  ASSUME TypeOK, NEW i \in incidents,
         cases' = Append(cases, [incident |-> i, observables |-> {}])
  PROVE  /\ Len(cases) \in Nat
         /\ DOMAIN cases = 1..Len(cases) /\ DOMAIN cases' = 1..(Len(cases) + 1)
         /\ \A d \in DOMAIN cases : cases'[d] = cases[d]
         /\ cases'[Len(cases) + 1].incident = i
         /\ cases'[Len(cases) + 1].observables = {}
<1>1. PICK new : new = [incident |-> i, observables |-> {}]
  OBVIOUS
<1>2. \E S : cases \in Seq(S)
  BY DEF TypeOK
<1>3. cases' = Append(cases, new)
  BY <1>1
<1>4. /\ Len(cases) \in Nat /\ DOMAIN cases = 1..Len(cases)
      /\ DOMAIN cases' = 1..(Len(cases) + 1)
      /\ \A d \in 1..Len(cases) : cases'[d] = cases[d]
      /\ cases'[Len(cases) + 1] = new
  BY <1>2, <1>3, Appended
<1> QED
  BY <1>1, <1>4

LEMMA CasesAreFinite ==
  ASSUME TypeOK, NEW i
  PROVE  IsFiniteSet(CasesOf(i)) /\ Cardinality(CasesOf(i)) \in Nat
<1>1. PICK n \in Nat : DOMAIN cases = 1..n
  BY DEF TypeOK
<1>2. IsFiniteSet(1..n)
  BY FS_Interval
<1>3. PICK C : C = CasesOf(i)
  OBVIOUS
<1>4. C \in SUBSET (1..n)
  BY <1>1, <1>3 DEF CasesOf
<1>5. IsFiniteSet(C)
  BY <1>2, <1>4, FS_Subset
<1>6. Cardinality(C) \in Nat
  BY <1>5, FS_CardinalityType
<1> QED
  BY <1>3, <1>5, <1>6

CasesCounted == TypeOK /\ MissesAreKnown /\ CaseInHand /\ CasesAccountedFor

LEMMA CasesStep ==
  CasesCounted /\ [Next]_vars => MissesAreKnown' /\ CaseInHand' /\ CasesAccountedFor'
<1> SUFFICES ASSUME TypeOK, MissesAreKnown, CaseInHand, CasesAccountedFor, [Next]_vars
             PROVE  MissesAreKnown' /\ CaseInHand' /\ CasesAccountedFor'
  BY DEF CasesCounted
<1> DEFINE Same == UNCHANGED <<incidents, cases, blind>>
<1>1. ASSUME Same
      PROVE  CasesAccountedFor' /\ \A i : CasesOf(i)' = CasesOf(i)
  BY <1>1 DEF CasesAccountedFor, CasesOf
<1>2. ASSUME Same, UNCHANGED export \/ export'.stage \notin {"create", "observables"}
      PROVE  MissesAreKnown' /\ CaseInHand' /\ CasesAccountedFor'
  BY <1>1, <1>2 DEF MissesAreKnown, CaseInHand
<1>3. ASSUME OpenIncident
      PROVE  MissesAreKnown' /\ CaseInHand' /\ CasesAccountedFor'
  <2>1. UNCHANGED <<cases, export>>
    BY <1>3 DEF OpenIncident
  <2>2. MissesAreKnown' /\ CaseInHand'
    BY <2>1 DEF MissesAreKnown, CaseInHand, CasesOf
  <2>3. ASSUME NEW i \in incidents'
        PROVE  Cardinality(CasesOf(i)') <= 1 + blind'[i]
    <3>1. CasesOf(i)' = CasesOf(i)
      BY <2>1 DEF CasesOf
    <3>2. CASE i \in incidents
      <4>1. blind'[i] = blind[i]
        BY <1>3, <3>2 DEF OpenIncident
      <4> QED BY <3>1, <3>2, <4>1 DEF CasesAccountedFor
    <3>3. CASE i \notin incidents
      <4>1. blind'[i] = 0
        BY <1>3, <3>3 DEF OpenIncident
      <4>2. \A c \in DOMAIN cases : cases[c].incident \in incidents
        BY CasesAreTyped
      <4>3. CasesOf(i) = {}
        BY <3>3, <4>2 DEF CasesOf
      <4> QED BY <3>1, <4>1, <4>3, FS_EmptySet
    <3> QED BY <3>2, <3>3
  <2> QED BY <2>2, <2>3 DEF CasesAccountedFor
<1>4. ASSUME FindNothing
      PROVE  MissesAreKnown' /\ CaseInHand' /\ CasesAccountedFor'
  <2>1. Same
    BY <1>4 DEF FindNothing
  <2>2. PICK C, missed : C = CasesOf(export.incident) /\ missed = (C # {})
    OBVIOUS
  <2>3. export' = [export EXCEPT !.stage = "create", !.missed = missed]
    BY <1>4, <2>2 DEF FindNothing
  <2>4. /\ export'.missed = missed /\ export'.incident = export.incident
        /\ export'.stage = "create"
    BY <2>3 DEF TypeOK, Exports
  <2>5. CasesOf(export.incident)' = C
    BY <2>1, <2>2, <2>4 DEF CasesOf
  <2> QED BY <1>1, <2>1, <2>2, <2>4, <2>5 DEF MissesAreKnown, CaseInHand
<1>5. ASSUME CreateCase
      PROVE  MissesAreKnown' /\ CaseInHand' /\ CasesAccountedFor'
  <2>1. PICK i \in incidents, n \in Nat : i = export.incident /\ n = Len(cases) + 1
    BY <1>5 DEF CreateCase, AtStage, TypeOK
  <2>2. /\ UNCHANGED incidents
        /\ cases' = Append(cases, [incident |-> i, observables |-> {}])
        /\ blind' = [blind EXCEPT ![i] = @ + (IF export.missed THEN 1 ELSE 0)]
        /\ export.stage = "create"
    BY <1>5, <2>1 DEF CreateCase, AtStage
  <2>3. /\ DOMAIN cases = 1..(n - 1) /\ DOMAIN cases' = 1..n
        /\ \A d \in DOMAIN cases : cases'[d] = cases[d]
        /\ cases'[n].incident = i
    BY <2>1, <2>2, CaseCreated
  <2>4. MissesAreKnown' /\ CaseInHand'
    <3>1. CASE export' = [export EXCEPT !.stage = "observables", !.case = n]
      <4>1. export'.stage = "observables" /\ export'.case = n /\ export'.incident = i
        BY <2>1, <3>1 DEF TypeOK, Exports
      <4>2. n \in 1..n
        BY <2>1, <2>3
      <4> QED BY <2>3, <4>1, <4>2 DEF MissesAreKnown, CaseInHand
    <3>2. CASE export' = NoExport
      BY <3>2 DEF MissesAreKnown, CaseInHand, NoExport
    <3> QED BY <1>5, <2>1, <3>1, <3>2 DEF CreateCase
  <2>5. ASSUME NEW j \in incidents'
        PROVE  Cardinality(CasesOf(j)') <= 1 + blind'[j]
    <3>1. j \in incidents /\ blind[j] \in Nat /\ blind[i] \in Nat
      BY <2>2 DEF TypeOK
    <3>2. Cardinality(CasesOf(j)) <= 1 + blind[j]
      BY <3>1 DEF CasesAccountedFor
    <3>3. CASE j # i
      <4>1. blind'[j] = blind[j]
        BY <2>2, <3>1, <3>3 DEF TypeOK
      <4>2. CasesOf(j)' = CasesOf(j)
        BY <2>1, <2>3, <3>3 DEF CasesOf
      <4> QED BY <3>2, <4>1, <4>2
    <3>4. CASE j = i
      <4>1. PICK C : C = CasesOf(i)
        OBVIOUS
      <4>2. n \notin C /\ CasesOf(i)' = C \cup {n}
        BY <2>1, <2>3, <4>1 DEF CasesOf
      <4>3. IsFiniteSet(C) /\ Cardinality(C) \in Nat
        BY <4>1, CasesAreFinite
      <4>4. Cardinality(C \cup {n}) = Cardinality(C) + 1
        BY <4>2, <4>3, FS_AddElement
      <4>5. export.missed = (C # {})
        BY <2>1, <2>2, <4>1 DEF MissesAreKnown
      <4>6. blind'[i] = blind[i] + (IF C # {} THEN 1 ELSE 0)
        BY <2>2, <3>1, <4>5 DEF TypeOK
      <4>7. CASE C = {}
        <5>1. Cardinality(C) = 0 /\ blind'[i] = blind[i]
          BY <3>1, <4>6, <4>7, FS_EmptySet
        <5> QED BY <3>1, <3>4, <4>2, <4>4, <5>1
      <4>8. CASE C # {}
        <5>1. blind'[i] = blind[i] + 1
          BY <4>6, <4>8
        <5> QED BY <3>1, <3>2, <3>4, <4>1, <4>2, <4>3, <4>4, <5>1
      <4> QED BY <4>7, <4>8
    <3> QED BY <3>3, <3>4
  <2> QED BY <2>4, <2>5 DEF CasesAccountedFor
<1>6. ASSUME AddObservable
      PROVE  MissesAreKnown' /\ CaseInHand' /\ CasesAccountedFor'
  <2>1. PICK ioc \in export.todo :
          /\ cases' = [cases EXCEPT ![export.case].observables = @ \cup {ioc}]
          /\ export' \in {[export EXCEPT !.todo = @ \ {ioc}, !.sent = @ \cup {ioc}], NoExport}
    BY <1>6 DEF AddObservable
  <2>2. export.stage = "observables" /\ UNCHANGED <<incidents, blind>>
    BY <1>6 DEF AddObservable, AtStage
  <2>3. PICK c \in DOMAIN cases : c = export.case /\ cases[c].incident = export.incident
    BY <2>2 DEF CaseInHand
  <2>4. /\ DOMAIN cases' = DOMAIN cases
        /\ \A d \in DOMAIN cases : cases'[d].incident = cases[d].incident
    BY <2>1, <2>3, ObservableAdded
  <2>5. \A i : CasesOf(i)' = CasesOf(i)
    BY <2>4 DEF CasesOf
  <2>6. /\ export'.stage \in {"observables", "none"}
        /\ export'.stage = "observables" => /\ export'.case = c
                                            /\ export'.incident = export.incident
    <3>1. CASE export' = [export EXCEPT !.todo = @ \ {ioc}, !.sent = @ \cup {ioc}]
      <4>1. PICK todo, sent : todo = export.todo \ {ioc} /\ sent = export.sent \cup {ioc}
        OBVIOUS
      <4>2. export' = [export EXCEPT !.todo = todo, !.sent = sent]
        BY <3>1, <4>1 DEF TypeOK, Exports
      <4> QED BY <2>2, <2>3, <4>2 DEF TypeOK, Exports
    <3>2. CASE export' = NoExport
      BY <3>2 DEF NoExport
    <3> QED BY <2>1, <3>1, <3>2
  <2>7. MissesAreKnown' /\ CaseInHand'
    BY <2>3, <2>4, <2>6 DEF MissesAreKnown, CaseInHand
  <2> QED BY <2>2, <2>5, <2>7 DEF CasesAccountedFor
<1>7. ASSUME NEW i \in incidents, BeginExport(i)
      PROVE  MissesAreKnown' /\ CaseInHand' /\ CasesAccountedFor'
  <2>1. Same /\ export'.stage = "lookup"
    BY <1>7 DEF BeginExport, NoExport
  <2> QED BY <1>2, <2>1
<1>8. ASSUME Recover \/ CommitExport \/ AbandonExport
      PROVE  MissesAreKnown' /\ CaseInHand' /\ CasesAccountedFor'
  <2>1. Same /\ export' = NoExport
    BY <1>8 DEF Recover, CommitExport, AbandonExport
  <2>2. export'.stage = "none"
    BY <2>1 DEF NoExport
  <2> QED BY <1>2, <2>1, <2>2
<1>9. ASSUME NEW i \in incidents, NEW ioc, NEW a,
             Link(i, ioc) \/ Assign(i, a) \/ AddNote(i) \/ ExportAgain(i)
      PROVE  MissesAreKnown' /\ CaseInHand' /\ CasesAccountedFor'
  <2>1. Same /\ UNCHANGED export
    BY <1>9 DEF Link, Assign, AddNote, ExportAgain
  <2> QED BY <1>2, <2>1
<1>10. ASSUME Tick \/ UNCHANGED vars
       PROVE  MissesAreKnown' /\ CaseInHand' /\ CasesAccountedFor'
  <2>1. Same /\ UNCHANGED export
    BY <1>10 DEF Tick, vars
  <2> QED BY <1>2, <2>1
<1> QED
  BY <1>3, <1>4, <1>5, <1>6, <1>7, <1>8, <1>9, <1>10 DEF Next, Exporting

LEMMA CasesInit == Init => CasesCounted
<1> SUFFICES ASSUME Init
             PROVE  MissesAreKnown /\ CaseInHand /\ CasesAccountedFor
  BY TypeInit DEF CasesCounted
<1>1. export.stage = "none" /\ incidents = {}
  BY DEF Init, NoExport
<1> QED BY <1>1 DEF MissesAreKnown, CaseInHand, CasesAccountedFor

\* However often an export fails and is repeated, an incident has one case in
\* TheHive, and one more for each lookup that did not see the cases it had
\* (export_incident_to_thehive, _find_existing_case).
THEOREM CasesAreAccountedFor == Spec => []CasesAccountedFor
<1>1. CasesCounted /\ [Next]_vars => CasesCounted'
  BY TypeStep, CasesStep DEF CasesCounted
<1>2. CasesCounted => CasesAccountedFor
  BY DEF CasesCounted
<1> QED
  BY <1>1, <1>2, CasesInit, PTL DEF Spec

-----------------------------------------------------------------------------
(* Rows of exports *)

\* The rows of exports stay what they are.
SameRows == \A k : /\ Exported(k)' <=> Exported(k)
                   /\ Exported(k) => audit'[k] = audit[k]

LEMMA OtherRow ==
  ASSUME TypeOK, NEW row, row.action # "exported", audit' = Append(audit, row)
  PROVE  SameRows
<1>1. /\ Len(audit) \in Nat /\ DOMAIN audit = 1..Len(audit)
      /\ DOMAIN audit' = 1..(Len(audit) + 1)
      /\ \A k \in 1..Len(audit) : audit'[k] = audit[k]
      /\ audit'[Len(audit) + 1] = row
  <2>1. \E S : audit \in Seq(S)
    BY DEF TypeOK
  <2> QED BY <2>1, Appended
<1> SUFFICES ASSUME NEW k
             PROVE  /\ Exported(k)' <=> Exported(k)
                    /\ Exported(k) => audit'[k] = audit[k]
  BY DEF SameRows
<1>2. k \in DOMAIN audit' <=> k \in DOMAIN audit \/ k = Len(audit) + 1
  BY <1>1
<1> QED
  BY <1>1, <1>2 DEF Exported

\* One row more, the last, is about an export.
LEMMA ExportedRow ==
  ASSUME TypeOK, NEW row, row.action = "exported", audit' = Append(audit, row)
  PROVE  /\ ~Exported(Len(audit) + 1)
         /\ audit'[Len(audit) + 1] = row
         /\ \A k : Exported(k)' <=> Exported(k) \/ k = Len(audit) + 1
         /\ \A k : Exported(k) => audit'[k] = audit[k]
<1>1. /\ Len(audit) \in Nat /\ DOMAIN audit = 1..Len(audit)
      /\ DOMAIN audit' = 1..(Len(audit) + 1)
      /\ \A k \in 1..Len(audit) : audit'[k] = audit[k]
      /\ audit'[Len(audit) + 1] = row
  <2>1. \E S : audit \in Seq(S)
    BY DEF TypeOK
  <2> QED BY <2>1, Appended
<1>2. \A k : k \in DOMAIN audit' <=> k \in DOMAIN audit \/ k = Len(audit) + 1
  BY <1>1
<1> QED
  BY <1>1, <1>2 DEF Exported

\* The case on record for an incident is its row's, and 0 when it has no row.
LEMMA MappingIsRow ==
  ASSUME TypeOK, OneRowEach, RowsHaveCases, NEW i
  PROVE  /\ (\A k : Exported(k) => audit[k].incident # i) => Mapping(i) = 0
         /\ \A k : Exported(k) /\ audit[k].incident = i
                     => Mapping(i) = audit[k].value.case /\ Mapping(i) # 0
<1>1. RowsOf(i, "exported") = {k \in DOMAIN audit : Exported(k) /\ audit[k].incident = i}
  BY DEF RowsOf, Exported
<1>2. ASSUME \A k : Exported(k) => audit[k].incident # i
      PROVE  Mapping(i) = 0
  <2>1. RowsOf(i, "exported") = {}
    BY <1>1, <1>2
  <2> QED BY <2>1 DEF Mapping, LastValue, NoCase
<1>3. ASSUME NEW k, Exported(k), audit[k].incident = i
      PROVE  Mapping(i) = audit[k].value.case /\ Mapping(i) # 0
  <2>1. RowsOf(i, "exported") = {k}
    BY <1>1, <1>3 DEF OneRowEach, Exported
  <2>2. UpTo(k, k)
    <3>1. k \in Nat
      BY <1>3 DEF Exported, TypeOK
    <3> QED BY <3>1 DEF UpTo
  <2>3. PICK last : last = CHOOSE l \in {k} : \A j \in {k} : UpTo(j, l)
    OBVIOUS
  <2>4. last = k
    BY <2>2, <2>3
  <2>5. Mapping(i) = audit[last].value.case
    BY <2>1, <2>3 DEF Mapping, LastValue
  <2>6. audit[k].value.case # 0
    <3>1. 0 \notin DOMAIN cases
      BY DEF TypeOK
    <3> QED BY <1>3, <3>1 DEF RowsHaveCases
  <2> QED BY <2>4, <2>5, <2>6
<1> QED
  BY <1>2, <1>3

\* Rows that stay what they are agree with cases that stay whose they are.
LEMMA RowsStayGood ==
  ASSUME OneRowEach, RowsHaveCases, SameRows, incidents \subseteq incidents',
         DOMAIN cases \subseteq DOMAIN cases',
         \A c \in DOMAIN cases : cases'[c].incident = cases[c].incident
  PROVE  OneRowEach' /\ RowsHaveCases'
<1>1. AllFit' => AllFit
  BY DEF AllFit
<1>2. OneRowEach'
  BY DEF OneRowEach, SameRows
<1>3. RowsHaveCases'
  BY <1>1 DEF RowsHaveCases, SameRows
<1> QED
  BY <1>2, <1>3

LEMMA AnswersStayGood ==
  ASSUME AnswersOnRecord, SameRows, UNCHANGED answers
  PROVE  AnswersOnRecord'
BY DEF AnswersOnRecord, SameRows

\* A step that writes no row of an export and begins none.
LEMMA RecordedStays ==
  ASSUME Recorded, SameRows, incidents \subseteq incidents', UNCHANGED answers,
         DOMAIN cases \subseteq DOMAIN cases',
         \A c \in DOMAIN cases : cases'[c].incident = cases[c].incident,
         export'.stage # "none" => export.stage # "none" /\ export'.incident = export.incident
  PROVE  Recorded'
<1>1. OneRowEach' /\ RowsHaveCases' /\ AnswersOnRecord'
  BY RowsStayGood, AnswersStayGood DEF Recorded
<1>2. NotYetOnRecord'
  BY DEF Recorded, NotYetOnRecord, SameRows
<1> QED
  BY <1>1, <1>2 DEF Recorded

\* A step that puts the case of the export in progress on record.
LEMMA RecordedGrows ==
  ASSUME TypeOK, Recorded, NEW row, row.action = "exported", audit' = Append(audit, row),
         export.stage # "none", row.incident = export.incident,
         row.value.case \in DOMAIN cases,
         AllFit => cases[row.value.case].incident = row.incident,
         export' = NoExport, UNCHANGED <<incidents, cases>>,
         answers' = answers \cup {<<row.incident, row.value.case>>}
  PROVE  Recorded'
<1>1. PICK n : n = Len(audit) + 1
  OBVIOUS
<1>2. /\ ~Exported(n) /\ audit'[n] = row
      /\ \A k : Exported(k)' <=> Exported(k) \/ k = n
      /\ \A k : Exported(k) => audit'[k] = audit[k]
  BY <1>1, ExportedRow
<1>3. \A k : Exported(k) => audit[k].incident # row.incident
  BY DEF Recorded, NotYetOnRecord
<1>4. OneRowEach'
  <2> SUFFICES ASSUME NEW k, NEW l, Exported(k)', Exported(l)',
                      audit'[k].incident = audit'[l].incident
               PROVE  k = l
    BY DEF OneRowEach
  <2>1. CASE Exported(k) /\ Exported(l)
    <3>1. audit[k].incident = audit[l].incident
      BY <1>2, <2>1
    <3> QED BY <2>1, <3>1 DEF Recorded, OneRowEach
  <2>2. CASE Exported(k) /\ ~Exported(l)
    <3>1. l = n /\ audit'[l].incident = row.incident /\ audit'[k].incident = audit[k].incident
      BY <1>2, <2>2
    <3> QED BY <1>3, <2>2, <3>1
  <2>3. CASE ~Exported(k) /\ Exported(l)
    <3>1. k = n /\ audit'[k].incident = row.incident /\ audit'[l].incident = audit[l].incident
      BY <1>2, <2>3
    <3> QED BY <1>3, <2>3, <3>1
  <2>4. CASE ~Exported(k) /\ ~Exported(l)
    BY <1>2, <2>4
  <2> QED BY <2>1, <2>2, <2>3, <2>4
<1>5. RowsHaveCases'
  <2>1. AllFit' <=> AllFit
    BY DEF AllFit
  <2> QED BY <1>2, <2>1 DEF Recorded, RowsHaveCases
<1>6. NotYetOnRecord'
  BY DEF NotYetOnRecord, NoExport
<1>7. AnswersOnRecord'
  <2> SUFFICES ASSUME NEW x \in answers'
               PROVE  \E k : Exported(k)' /\ x = <<audit'[k].incident, audit'[k].value.case>>
    BY DEF AnswersOnRecord
  <2>1. CASE x \in answers
    <3>1. PICK k : Exported(k) /\ x = <<audit[k].incident, audit[k].value.case>>
      BY <2>1 DEF Recorded, AnswersOnRecord
    <3>2. Exported(k)' /\ audit'[k] = audit[k]
      BY <1>2, <3>1
    <3> QED BY <3>1, <3>2
  <2>2. CASE x = <<row.incident, row.value.case>>
    <3>1. Exported(n)' /\ audit'[n] = row
      BY <1>2
    <3> QED BY <2>2, <3>1
  <2> QED BY <2>1, <2>2
<1> QED
  BY <1>4, <1>5, <1>6, <1>7 DEF Recorded

\* A case found by the lookup is the incident's, while the numbers fit: a number is
\* the prefix of no other.
LEMMA FoundIsOwn ==
  ASSUME TypeOK, Consecutive, NEW i \in incidents, NEW page \in SUBSET DOMAIN cases,
         Matches(page, i) # {}
  PROVE  /\ Min(Matches(page, i)) \in DOMAIN cases
         /\ AllFit => cases[Min(Matches(page, i))].incident = i
<1>1. PICK found : found = Matches(page, i)
  OBVIOUS
<1>2. found \in SUBSET DOMAIN cases /\ DOMAIN cases \in SUBSET Nat
  BY <1>1 DEF Matches, TypeOK
<1>3. Min(found) \in found
  BY <1>1, <1>2, MinOf
<1>4. PICK c : c = Min(found)
  OBVIOUS
<1>5. c \in DOMAIN cases /\ Begins(i, cases[c].incident)
  BY <1>1, <1>3, <1>4 DEF Matches
<1>6. ASSUME AllFit
      PROVE  cases[c].incident = i
  <2>1. PICK N \in Nat : incidents = 1..N
    BY <1>6 DEF Consecutive
  <2>2. PICK j \in incidents : j = cases[c].incident
    BY <1>5, CasesAreTyped
  <2>3. i \in Nat /\ j \in Nat /\ Fits(i) /\ Fits(j)
    BY <1>6, <2>1 DEF AllFit
  <2> QED BY <1>5, <2>2, <2>3, BeginsTells
<1> QED
  BY <1>1, <1>4, <1>5, <1>6

LEMMA RecordedStep ==
  TypeOK /\ CaseInHand /\ Consecutive /\ Recorded /\ [Next]_vars => Recorded'
<1> SUFFICES ASSUME TypeOK, CaseInHand, Consecutive, Recorded, [Next]_vars
             PROVE  Recorded'
  OBVIOUS
<1> DEFINE SameCases == /\ DOMAIN cases \subseteq DOMAIN cases'
                        /\ \A c \in DOMAIN cases : cases'[c].incident = cases[c].incident
           SameExport == export'.stage # "none" =>
                           export.stage # "none" /\ export'.incident = export.incident
<1>1. UNCHANGED audit => SameRows
  BY DEF SameRows, Exported
<1>2. UNCHANGED cases => SameCases
  OBVIOUS
<1>3. UNCHANGED export \/ export' = NoExport => SameExport
  BY DEF NoExport
<1>4. ASSUME SameRows, SameCases, SameExport, incidents \subseteq incidents', UNCHANGED answers
      PROVE  Recorded'
  BY <1>4, RecordedStays
<1> HIDE DEF SameCases, SameExport
<1>5. ASSUME NEW i \in incidents, NEW ioc, Link(i, ioc)
      PROVE  Recorded'
  <2>1. UNCHANGED <<incidents, audit, cases, answers, export>>
    BY <1>5 DEF Link
  <2> QED BY <1>1, <1>2, <1>3, <1>4, <2>1
<1>6. ASSUME OpenIncident \/ AbandonExport \/ Tick \/ UNCHANGED vars
      PROVE  Recorded'
  <2>1. /\ UNCHANGED <<audit, cases, answers>> /\ incidents \subseteq incidents'
        /\ UNCHANGED export \/ export' = NoExport
    BY <1>6 DEF OpenIncident, AbandonExport, Tick, vars
  <2> QED BY <1>1, <1>2, <1>3, <1>4, <2>1
<1>7. ASSUME NEW i \in incidents, NEW a, Assign(i, a)
      PROVE  Recorded'
  <2>1. UNCHANGED <<incidents, cases, answers, export>>
    BY <1>7 DEF Assign
  <2>2. PICK row : row = Row(i, "assigned", a, now)
    OBVIOUS
  <2>3. row.action # "exported"
    BY <2>2 DEF Row
  <2>4. UNCHANGED audit \/ audit' = Append(audit, row)
    BY <1>7, <2>2 DEF Assign
  <2>5. SameRows
    BY <1>1, <2>3, <2>4, OtherRow
  <2> QED BY <1>2, <1>3, <1>4, <2>1, <2>5
<1>8. ASSUME NEW i \in incidents, AddNote(i)
      PROVE  Recorded'
  <2>1. UNCHANGED <<incidents, cases, answers, export>>
    BY <1>8 DEF AddNote
  <2>2. PICK row : row = Row(i, "note", 0, now)
    OBVIOUS
  <2>3. row.action # "exported"
    BY <2>2 DEF Row
  <2>4. audit' = Append(audit, row)
    BY <1>8, <2>2 DEF AddNote
  <2>5. SameRows
    BY <2>3, <2>4, OtherRow
  <2> QED BY <1>2, <1>3, <1>4, <2>1, <2>5
<1>9. ASSUME NEW i \in incidents, ExportAgain(i)
      PROVE  Recorded'
  <2>1. UNCHANGED <<incidents, audit, cases, export>>
    BY <1>9 DEF ExportAgain
  <2>2. PICK case : case = Mapping(i) /\ case # 0
    BY <1>9 DEF ExportAgain
  <2>3. answers' = answers \cup {<<i, case>>}
    BY <1>9, <2>2 DEF ExportAgain
  <2>4. PICK k : Exported(k) /\ audit[k].incident = i
    BY <2>2, MappingIsRow DEF Recorded
  <2>5. case = audit[k].value.case
    BY <2>2, <2>4, MappingIsRow DEF Recorded
  <2>6. AnswersOnRecord'
    BY <2>1, <2>3, <2>4, <2>5 DEF Recorded, AnswersOnRecord, Exported
  <2>7. OneRowEach' /\ RowsHaveCases' /\ NotYetOnRecord'
    BY <2>1 DEF Recorded, OneRowEach, RowsHaveCases, NotYetOnRecord, Exported, AllFit
  <2> QED BY <2>6, <2>7 DEF Recorded
<1>10. ASSUME NEW i \in incidents, BeginExport(i)
       PROVE  Recorded'
  <2>1. UNCHANGED <<incidents, audit, cases, answers>> /\ Mapping(i) = 0
    BY <1>10 DEF BeginExport
  <2>2. export'.incident = i
    BY <1>10 DEF BeginExport, NoExport
  <2>3. \A k : Exported(k) => audit[k].incident # i
    BY <2>1, MappingIsRow DEF Recorded
  <2>4. NotYetOnRecord'
    BY <2>1, <2>2, <2>3 DEF NotYetOnRecord, Exported
  <2>5. OneRowEach' /\ RowsHaveCases' /\ AnswersOnRecord'
    BY <2>1 DEF Recorded, OneRowEach, RowsHaveCases, AnswersOnRecord, Exported, AllFit
  <2> QED BY <2>4, <2>5 DEF Recorded
<1>11. ASSUME Recover
       PROVE  Recorded'
  <2>1. /\ UNCHANGED <<incidents, cases>> /\ export' = NoExport
        /\ export.stage = "lookup"
    BY <1>11 DEF Recover, AtStage
  <2>2. PICK i \in incidents : i = export.incident
    BY <2>1 DEF TypeOK
  <2>3. PICK page \in Pages :
          /\ Matches(page, i) # {}
          /\ \/ /\ audit' = Append(audit, Row(i, "exported",
                              [case |-> Min(Matches(page, i)), count |-> 0, recovered |-> TRUE],
                              now))
                /\ answers' = answers \cup {<<i, Min(Matches(page, i))>>}
             \/ UNCHANGED <<audit, answers>>
    BY <1>11, <2>2 DEF Recover
  <2>4. CASE UNCHANGED <<audit, answers>>
    BY <1>1, <1>2, <1>3, <1>4, <2>1, <2>4
  <2>5. CASE ~UNCHANGED <<audit, answers>>
    <3>1. PICK case : case = Min(Matches(page, i))
      OBVIOUS
    <3>2. page \in SUBSET DOMAIN cases
      BY DEF Pages
    <3>3. case \in DOMAIN cases /\ (AllFit => cases[case].incident = i)
      BY <2>3, <3>1, <3>2, FoundIsOwn
    <3>4. PICK row : row = Row(i, "exported", [case |-> case, count |-> 0, recovered |-> TRUE], now)
      OBVIOUS
    <3>5. row.action = "exported" /\ row.incident = i /\ row.value.case = case
      BY <3>4 DEF Row
    <3>6. audit' = Append(audit, row) /\ answers' = answers \cup {<<i, case>>}
      BY <2>3, <2>5, <3>1, <3>4
    <3> QED BY <2>1, <2>2, <3>3, <3>5, <3>6, RecordedGrows
  <2> QED BY <2>4, <2>5
<1>12. ASSUME FindNothing
       PROVE  Recorded'
  <2>1. UNCHANGED <<incidents, audit, cases, answers>> /\ export.stage = "lookup"
    BY <1>12 DEF FindNothing, AtStage
  <2>2. export'.incident = export.incident
    BY <1>12 DEF FindNothing, TypeOK, Exports
  <2>3. SameExport
    BY <2>1, <2>2 DEF SameExport
  <2> QED BY <1>1, <1>2, <1>4, <2>1, <2>3
<1>13. ASSUME CreateCase
       PROVE  Recorded'
  <2>1. UNCHANGED <<incidents, audit, answers>> /\ export.stage = "create"
    BY <1>13 DEF CreateCase, AtStage
  <2>2. PICK i \in incidents, n \in Nat : i = export.incident /\ n = Len(cases) + 1
    BY <2>1 DEF TypeOK
  <2>3. cases' = Append(cases, [incident |-> i, observables |-> {}])
    BY <1>13, <2>2 DEF CreateCase
  <2>4. /\ Len(cases) \in Nat
        /\ DOMAIN cases = 1..Len(cases) /\ DOMAIN cases' = 1..(Len(cases) + 1)
        /\ \A d \in DOMAIN cases : cases'[d] = cases[d]
    BY <2>3, CaseCreated
  <2>5. SameCases
    BY <2>4 DEF SameCases
  <2>6. \/ export' = [export EXCEPT !.stage = "observables", !.case = n]
        \/ export' = NoExport
    BY <1>13, <2>2 DEF CreateCase
  <2>7. CASE export' = [export EXCEPT !.stage = "observables", !.case = n]
    <3>1. export'.incident = export.incident
      BY <2>7 DEF TypeOK, Exports
    <3> QED BY <1>1, <1>4, <2>1, <2>5, <3>1 DEF SameExport
  <2>8. CASE export' = NoExport
    BY <1>1, <1>3, <1>4, <2>1, <2>5, <2>8
  <2> QED BY <2>6, <2>7, <2>8
<1>14. ASSUME AddObservable
       PROVE  Recorded'
  <2>1. UNCHANGED <<incidents, audit, answers>> /\ export.stage = "observables"
    BY <1>14 DEF AddObservable, AtStage
  <2>2. PICK ioc \in export.todo :
          /\ cases' = [cases EXCEPT ![export.case].observables = @ \cup {ioc}]
          /\ export' \in {[export EXCEPT !.todo = @ \ {ioc}, !.sent = @ \cup {ioc}], NoExport}
    BY <1>14 DEF AddObservable
  <2>3. PICK c \in DOMAIN cases : c = export.case
    BY <2>1 DEF CaseInHand
  <2>4. SameCases
    BY <2>2, <2>3, ObservableAdded DEF SameCases
  <2>5. CASE export' = [export EXCEPT !.todo = @ \ {ioc}, !.sent = @ \cup {ioc}]
    <3>1. PICK todo, sent : todo = export.todo \ {ioc} /\ sent = export.sent \cup {ioc}
      OBVIOUS
    <3>2. export' = [export EXCEPT !.todo = todo, !.sent = sent]
      BY <2>5, <3>1 DEF TypeOK, Exports
    <3>3. export'.incident = export.incident
      BY <3>2 DEF TypeOK, Exports
    <3> QED BY <1>1, <1>4, <2>1, <2>4, <3>3 DEF SameExport
  <2>6. CASE export' = NoExport
    BY <1>1, <1>3, <1>4, <2>1, <2>4, <2>6
  <2> QED BY <2>2, <2>5, <2>6
<1>15. ASSUME CommitExport
       PROVE  Recorded'
  <2>1. UNCHANGED <<incidents, cases>> /\ export' = NoExport /\ export.stage = "observables"
    BY <1>15 DEF CommitExport, AtStage
  <2>2. PICK i, case, value : /\ i = export.incident /\ case = export.case
                              /\ value = [case |-> case, count |-> Cardinality(export.sent),
                                          recovered |-> FALSE]
    OBVIOUS
  <2>3. PICK row : row = Row(i, "exported", value, now)
    OBVIOUS
  <2>4. row.action = "exported" /\ row.incident = i /\ row.value.case = case
    BY <2>2, <2>3 DEF Row
  <2>5. audit' = Append(audit, row) /\ answers' = answers \cup {<<i, case>>}
    BY <1>15, <2>2, <2>3 DEF CommitExport
  <2>6. case \in DOMAIN cases /\ cases[case].incident = i
    BY <2>1, <2>2 DEF CaseInHand
  <2> QED BY <2>1, <2>2, <2>4, <2>5, <2>6, RecordedGrows
<1> QED
  BY <1>5, <1>6, <1>7, <1>8, <1>9, <1>10, <1>11, <1>12, <1>13, <1>14, <1>15 DEF Next, Exporting

Kept == CasesCounted /\ Consecutive /\ Recorded

LEMMA KeptInit == Init => Kept
<1> SUFFICES ASSUME Init
             PROVE  Kept
  OBVIOUS
<1>1. CasesCounted
  BY CasesInit
<1>2. Consecutive
  BY NumberingInit
<1>3. \A k : ~Exported(k)
  BY DEF Init, Exported
<1>4. Recorded
  BY <1>3 DEF Init, Recorded, OneRowEach, RowsHaveCases, NotYetOnRecord, AnswersOnRecord
<1> QED
  BY <1>1, <1>2, <1>4 DEF Kept

LEMMA KeptStep == Kept /\ [Next]_vars => Kept'
BY TypeStep, CasesStep, NumberingStep, RecordedStep DEF Kept, CasesCounted

\* Every export of an incident that answers with a case answers with the same
\* one, although lookups see different pages and exports fail half way; the
\* case is the incident's own while the numbers fit their padding
\* (_existing_case_mapping, find_case_by_incident).
THEOREM ExportsAgreeOnACase == Spec => []ExportsAgree
<1>1. Kept => ExportsAgree
  <2> SUFFICES ASSUME Kept
               PROVE  ExportsAgree
    OBVIOUS
  <2>1. ASSUME NEW x \in answers, NEW y \in answers, x[1] = y[1]
        PROVE  x = y
    <3>1. PICK k : Exported(k) /\ x = <<audit[k].incident, audit[k].value.case>>
      BY DEF Kept, Recorded, AnswersOnRecord
    <3>2. PICK l : Exported(l) /\ y = <<audit[l].incident, audit[l].value.case>>
      BY DEF Kept, Recorded, AnswersOnRecord
    <3>3. k = l
      BY <2>1, <3>1, <3>2 DEF Kept, Recorded, OneRowEach
    <3> QED BY <3>1, <3>2, <3>3
  <2>2. ASSUME AllFit, NEW x \in answers
        PROVE  cases[x[2]].incident = x[1]
    <3>1. PICK k : Exported(k) /\ x = <<audit[k].incident, audit[k].value.case>>
      BY DEF Kept, Recorded, AnswersOnRecord
    <3> QED BY <2>2, <3>1 DEF Kept, Recorded, RowsHaveCases
  <2> QED BY <2>1, <2>2 DEF ExportsAgree, AllFit
<1> QED
  BY <1>1, KeptInit, KeptStep, PTL DEF Spec

-----------------------------------------------------------------------------
(* Counts *)

LEMMA CountsStep ==
  TypeOK /\ CaseInHand /\ Recorded /\ SentIsHeld /\ CountsAreTrue /\ [Next]_vars
    => SentIsHeld' /\ CountsAreTrue'
<1> SUFFICES ASSUME TypeOK, CaseInHand, Recorded, SentIsHeld, CountsAreTrue, [Next]_vars
             PROVE  SentIsHeld' /\ CountsAreTrue'
  OBVIOUS
<1> DEFINE SameExport == \/ export'.stage # "observables" /\ export'.sent = {}
                         \/ UNCHANGED export
<1>1. UNCHANGED audit => SameRows
  BY DEF SameRows, Exported
<1>2. ASSUME SameRows, \A c \in DOMAIN cases : cases'[c] = cases[c]
      PROVE  CountsAreTrue'
  <2> SUFFICES ASSUME NEW k, Exported(k)', ~audit'[k].value.recovered
               PROVE  Cardinality(cases'[audit'[k].value.case].observables) = audit'[k].value.count
    BY DEF CountsAreTrue, Exported
  <2>1. Exported(k) /\ audit'[k] = audit[k]
    BY <1>2 DEF SameRows
  <2>2. audit[k].value.case \in DOMAIN cases
    BY <2>1 DEF Recorded, RowsHaveCases
  <2>3. Cardinality(cases[audit[k].value.case].observables) = audit[k].value.count
    BY <2>1 DEF CountsAreTrue, Exported
  <2> QED BY <1>2, <2>1, <2>2, <2>3
<1>3. ASSUME SameRows, UNCHANGED cases, SameExport
      PROVE  SentIsHeld' /\ CountsAreTrue'
  <2>1. SentIsHeld'
    BY <1>3 DEF SentIsHeld, SameRows
  <2> QED BY <1>2, <1>3, <2>1
<1>4. ASSUME NEW i \in incidents, NEW ioc, Link(i, ioc) \/ ExportAgain(i)
      PROVE  SentIsHeld' /\ CountsAreTrue'
  <2>1. UNCHANGED <<audit, cases, export>>
    BY <1>4 DEF Link, ExportAgain
  <2> QED BY <1>1, <1>3, <2>1
<1>5. ASSUME OpenIncident \/ Tick \/ UNCHANGED vars
      PROVE  SentIsHeld' /\ CountsAreTrue'
  <2>1. UNCHANGED <<audit, cases, export>>
    BY <1>5 DEF OpenIncident, Tick, vars
  <2> QED BY <1>1, <1>3, <2>1
<1>6. ASSUME NEW i \in incidents, NEW a, Assign(i, a)
      PROVE  SentIsHeld' /\ CountsAreTrue'
  <2>1. UNCHANGED <<cases, export>>
    BY <1>6 DEF Assign
  <2>2. PICK row : row = Row(i, "assigned", a, now)
    OBVIOUS
  <2>3. row.action # "exported"
    BY <2>2 DEF Row
  <2>4. UNCHANGED audit \/ audit' = Append(audit, row)
    BY <1>6, <2>2 DEF Assign
  <2>5. SameRows
    BY <1>1, <2>3, <2>4, OtherRow
  <2> QED BY <1>3, <2>1, <2>5
<1>7. ASSUME NEW i \in incidents, AddNote(i)
      PROVE  SentIsHeld' /\ CountsAreTrue'
  <2>1. UNCHANGED <<cases, export>>
    BY <1>7 DEF AddNote
  <2>2. PICK row : row = Row(i, "note", 0, now)
    OBVIOUS
  <2>3. row.action # "exported"
    BY <2>2 DEF Row
  <2>4. audit' = Append(audit, row)
    BY <1>7, <2>2 DEF AddNote
  <2>5. SameRows
    BY <2>3, <2>4, OtherRow
  <2> QED BY <1>3, <2>1, <2>5
<1>8. ASSUME NEW i \in incidents, BeginExport(i)
      PROVE  SentIsHeld' /\ CountsAreTrue'
  <2>1. UNCHANGED <<audit, cases>> /\ export'.stage # "observables" /\ export'.sent = {}
    BY <1>8 DEF BeginExport, NoExport
  <2> QED BY <1>1, <1>3, <2>1
<1>9. ASSUME FindNothing
      PROVE  SentIsHeld' /\ CountsAreTrue'
  <2>1. UNCHANGED <<audit, cases>> /\ export'.stage # "observables" /\ export'.sent = {}
    BY <1>9 DEF FindNothing, AtStage, SentIsHeld, TypeOK, Exports
  <2> QED BY <1>1, <1>3, <2>1
<1>10. ASSUME AbandonExport
       PROVE  SentIsHeld' /\ CountsAreTrue'
  <2>1. UNCHANGED <<audit, cases>> /\ export'.stage # "observables" /\ export'.sent = {}
    BY <1>10 DEF AbandonExport, NoExport
  <2> QED BY <1>1, <1>3, <2>1
\* A row for a recovered case promises nothing; a created one has what was sent.
<1>11. ASSUME NEW row, row.action = "exported", audit' = Append(audit, row),
              UNCHANGED cases, export' = NoExport,
              row.value.recovered \/ /\ row.value.count = Cardinality(export.sent)
                                     /\ row.value.case = export.case
                                     /\ export.stage = "observables"
       PROVE  SentIsHeld' /\ CountsAreTrue'
  <2>1. SentIsHeld'
    BY <1>11 DEF SentIsHeld, NoExport
  <2>2. PICK n : n = Len(audit) + 1
    OBVIOUS
  <2>3. /\ audit'[n] = row
        /\ \A k : Exported(k)' <=> Exported(k) \/ k = n
        /\ \A k : Exported(k) => audit'[k] = audit[k]
    BY <1>11, <2>2, ExportedRow
  <2>4. CountsAreTrue'
    <3> SUFFICES ASSUME NEW k, Exported(k)', ~audit'[k].value.recovered
                 PROVE  Cardinality(cases'[audit'[k].value.case].observables)
                          = audit'[k].value.count
      BY DEF CountsAreTrue, Exported
    <3>1. CASE Exported(k)
      BY <1>11, <2>3, <3>1 DEF CountsAreTrue, Exported
    <3>2. CASE ~Exported(k)
      <4>1. audit'[k] = row
        BY <2>3, <3>2
      <4>2. /\ row.value.count = Cardinality(export.sent) /\ row.value.case = export.case
            /\ cases[export.case].observables = export.sent
        BY <1>11, <4>1 DEF SentIsHeld
      <4> QED BY <1>11, <4>1, <4>2
    <3> QED BY <3>1, <3>2
  <2> QED BY <2>1, <2>4
<1>12. ASSUME Recover
       PROVE  SentIsHeld' /\ CountsAreTrue'
  <2>1. UNCHANGED cases /\ export' = NoExport
    BY <1>12 DEF Recover
  <2>2. PICK page : \/ \E case : audit' = Append(audit, Row(export.incident, "exported",
                                     [case |-> case, count |-> 0, recovered |-> TRUE], now))
                    \/ UNCHANGED audit
    BY <1>12 DEF Recover
  <2>3. CASE UNCHANGED audit
    BY <1>1, <1>3, <2>1, <2>3 DEF NoExport
  <2>4. CASE ~UNCHANGED audit
    <3>1. PICK case : audit' = Append(audit, Row(export.incident, "exported",
                                 [case |-> case, count |-> 0, recovered |-> TRUE], now))
      BY <2>2, <2>4
    <3>2. PICK row : row = Row(export.incident, "exported",
                               [case |-> case, count |-> 0, recovered |-> TRUE], now)
      OBVIOUS
    <3>3. row.action = "exported" /\ row.value.recovered
      BY <3>2 DEF Row
    <3>4. audit' = Append(audit, row)
      BY <3>1, <3>2
    <3> QED BY <1>11, <2>1, <3>3, <3>4
  <2> QED BY <2>3, <2>4
<1>13. ASSUME CommitExport
       PROVE  SentIsHeld' /\ CountsAreTrue'
  <2>1. UNCHANGED cases /\ export' = NoExport /\ export.stage = "observables"
    BY <1>13 DEF CommitExport, AtStage
  <2>2. PICK i, case, count : /\ i = export.incident /\ case = export.case
                              /\ count = Cardinality(export.sent)
    OBVIOUS
  <2>3. PICK row : row = Row(i, "exported",
                             [case |-> case, count |-> count, recovered |-> FALSE], now)
    OBVIOUS
  <2>4. row.action = "exported" /\ row.value.case = case /\ row.value.count = count
    BY <2>3 DEF Row
  <2>5. audit' = Append(audit, row)
    BY <1>13, <2>2, <2>3 DEF CommitExport
  <2> QED BY <1>11, <2>1, <2>2, <2>4, <2>5
<1>14. ASSUME CreateCase
       PROVE  SentIsHeld' /\ CountsAreTrue'
  <2>1. UNCHANGED audit /\ export.stage = "create"
    BY <1>14 DEF CreateCase, AtStage
  <2>2. PICK i \in incidents, n \in Nat : i = export.incident /\ n = Len(cases) + 1
    BY <2>1 DEF TypeOK
  <2>3. cases' = Append(cases, [incident |-> i, observables |-> {}])
    BY <1>14, <2>2 DEF CreateCase
  <2>4. /\ DOMAIN cases = 1..(n - 1)
        /\ \A d \in DOMAIN cases : cases'[d] = cases[d]
        /\ cases'[n].observables = {}
    BY <2>2, <2>3, CaseCreated
  <2>5. CountsAreTrue'
    BY <1>1, <1>2, <2>1, <2>4
  <2>6. CASE export' = [export EXCEPT !.stage = "observables", !.case = n]
    <3>1. /\ export'.stage = "observables" /\ export'.case = n
          /\ export'.sent = export.sent
      BY <2>6 DEF TypeOK, Exports
    <3>2. export.sent = {}
      BY <2>1 DEF SentIsHeld
    <3>3. \A k : Exported(k) => audit[k].value.case # n
      BY <2>4 DEF Recorded, RowsHaveCases
    <3>4. SentIsHeld'
      BY <1>1, <2>1, <2>4, <3>1, <3>2, <3>3 DEF SentIsHeld, SameRows
    <3> QED BY <2>5, <3>4
  <2>7. CASE export' = NoExport
    BY <2>5, <2>7 DEF SentIsHeld, NoExport
  <2> QED BY <1>14, <2>2, <2>6, <2>7 DEF CreateCase
<1>15. ASSUME AddObservable
       PROVE  SentIsHeld' /\ CountsAreTrue'
  <2>1. UNCHANGED audit /\ export.stage = "observables"
    BY <1>15 DEF AddObservable, AtStage
  <2>2. PICK ioc \in export.todo :
          /\ cases' = [cases EXCEPT ![export.case].observables = @ \cup {ioc}]
          /\ export' \in {[export EXCEPT !.todo = @ \ {ioc}, !.sent = @ \cup {ioc}], NoExport}
    BY <1>15 DEF AddObservable
  <2>3. PICK c \in DOMAIN cases : c = export.case
    BY <2>1 DEF CaseInHand
  <2>4. /\ \A d \in DOMAIN cases : d # c => cases'[d] = cases[d]
        /\ cases'[c].observables = cases[c].observables \cup {ioc}
    BY <2>2, <2>3, ObservableAdded
  <2>5. \A k : Exported(k) => audit[k].value.case # c /\ audit[k].value.case \in DOMAIN cases
    BY <2>1, <2>3 DEF SentIsHeld, Recorded, RowsHaveCases
  <2>6. CountsAreTrue'
    BY <2>1, <2>4, <2>5 DEF CountsAreTrue, Exported
  <2>7. CASE export' = [export EXCEPT !.todo = @ \ {ioc}, !.sent = @ \cup {ioc}]
    <3>1. PICK todo, sent : todo = export.todo \ {ioc} /\ sent = export.sent \cup {ioc}
      OBVIOUS
    <3>2. export' = [export EXCEPT !.todo = todo, !.sent = sent]
      BY <2>7, <3>1 DEF TypeOK, Exports
    <3>3. export'.stage = "observables" /\ export'.case = c /\ export'.sent = sent
      BY <2>1, <2>3, <3>2 DEF TypeOK, Exports
    <3>4. cases[c].observables = export.sent
      BY <2>1, <2>3 DEF SentIsHeld
    <3>5. SentIsHeld'
      BY <1>1, <2>1, <2>4, <2>5, <3>1, <3>3, <3>4 DEF SentIsHeld, SameRows
    <3> QED BY <2>6, <3>5
  <2>8. CASE export' = NoExport
    BY <2>6, <2>8 DEF SentIsHeld, NoExport
  <2> QED BY <2>2, <2>7, <2>8
<1> QED
  BY <1>4, <1>5, <1>6, <1>7, <1>8, <1>9, <1>10, <1>12, <1>13, <1>14, <1>15
     DEF Next, Exporting

\* A case on record as created, not recovered, holds as many observables as
\* its row says: no export that lost one of them is reported as a success
\* (export_incident_to_thehive).
THEOREM CountsStayTrue == Spec => []CountsAreTrue
<1> DEFINE Inv == Kept /\ SentIsHeld /\ CountsAreTrue
<1>1. Init => Inv
  <2>1. Init => SentIsHeld /\ CountsAreTrue
    BY DEF Init, SentIsHeld, CountsAreTrue, NoExport
  <2> QED BY <2>1, KeptInit
<1>2. Inv /\ [Next]_vars => Inv'
  BY KeptStep, CountsStep DEF Kept, CasesCounted
<1>3. Inv => CountsAreTrue
  OBVIOUS
<1> HIDE DEF Inv
<1> QED
  BY <1>1, <1>2, <1>3, PTL DEF Spec

-----------------------------------------------------------------------------
(* Assignments *)

Ordered(s) == \A k, l \in DOMAIN s : k < l => s[k].at <= s[l].at

\* Of rows in order of time the last to be written is the last to be read.
LEMMA LastWritten ==
  ASSUME NEW s, NEW rows \in SUBSET DOMAIN s, NEW m \in rows,
         DOMAIN s \in SUBSET Int, \A k \in DOMAIN s : s[k].at \in Int, Ordered(s),
         \A k \in rows : k <= m
  PROVE  m = CHOOSE l \in rows : \A k \in rows :
               s[k].at < s[l].at \/ (s[k].at = s[l].at /\ k <= l)
<1>1. \A k \in rows : s[k].at < s[m].at \/ (s[k].at = s[m].at /\ k <= m)
  BY DEF Ordered
<1>2. PICK last : last = CHOOSE l \in rows : \A k \in rows :
                           s[k].at < s[l].at \/ (s[k].at = s[l].at /\ k <= l)
  OBVIOUS
<1>3. /\ last \in rows
      /\ s[m].at < s[last].at \/ (s[m].at = s[last].at /\ m <= last)
  BY <1>1, <1>2
<1>4. last < m => s[last].at <= s[m].at
  BY <1>3 DEF Ordered
<1>5. last = m
  BY <1>3, <1>4
<1> QED
  BY <1>2, <1>5

LEMMA GreatestRow ==
  ASSUME TypeOK, NEW rows \in SUBSET DOMAIN audit, rows # {}
  PROVE  \E m \in rows : \A k \in rows : k <= m
<1>1. PICK n \in Nat : DOMAIN audit = 1..n
  BY DEF TypeOK
<1>2. PICK back : back = {n - k : k \in rows}
  OBVIOUS
<1>3. back \in SUBSET Nat /\ back # {}
  BY <1>1, <1>2
<1>4. PICK least \in back : \A y \in back : least <= y
  BY <1>3, LeastOf
<1>5. PICK m \in rows : least = n - m
  BY <1>2, <1>4
<1>6. ASSUME NEW k \in rows
      PROVE  k <= m
  <2>1. n - m <= n - k
    BY <1>2, <1>4, <1>5
  <2> QED BY <1>1, <2>1
<1> QED
  BY <1>6

\* A log in order that only grew by a row for another purpose reads the same.
LEMMA AssignmentStays ==
  ASSUME TypeOK, NEW i, Ordered(audit'),
         NEW row, audit' = audit \/ audit' = Append(audit, row),
         audit' = audit \/ row.incident # i \/ row.action # "assigned",
         audit' = audit \/ row.at \in Int
  PROVE  CurrentAssignment(i)' = CurrentAssignment(i)
<1>1. CASE audit' = audit
  BY <1>1 DEF CurrentAssignment, LastValue, RowsOf, UpTo
<1>2. CASE audit' # audit
  <2>1. /\ Len(audit) \in Nat /\ DOMAIN audit = 1..Len(audit)
        /\ DOMAIN audit' = 1..(Len(audit) + 1)
        /\ \A k \in 1..Len(audit) : audit'[k] = audit[k]
        /\ audit'[Len(audit) + 1] = row
    <3>1. \E S : audit \in Seq(S)
      BY DEF TypeOK
    <3>2. audit' = Append(audit, row)
      BY <1>2
    <3> QED BY <3>1, <3>2, Appended
  <2>2. PICK rows : rows = RowsOf(i, "assigned")
    OBVIOUS
  <2>3. RowsOf(i, "assigned")' = rows
    BY <1>2, <2>1, <2>2 DEF RowsOf
  <2>4. CASE rows = {}
    BY <2>2, <2>3, <2>4 DEF CurrentAssignment, LastValue
  <2>5. CASE rows # {}
    <3>1. rows \in SUBSET DOMAIN audit /\ rows \in SUBSET DOMAIN audit'
      BY <2>1, <2>2 DEF RowsOf
    <3>2. PICK m \in rows : \A k \in rows : k <= m
      BY <2>5, <3>1, GreatestRow
    <3>3. Ordered(audit)
      BY <2>1 DEF Ordered
    <3>4. /\ \A k \in DOMAIN audit : audit[k].at \in Int
          /\ \A k \in DOMAIN audit' : audit'[k].at \in Int
          /\ DOMAIN audit \in SUBSET Int /\ DOMAIN audit' \in SUBSET Int
      <4>1. \A k \in DOMAIN audit : audit[k].at \in Int
        BY Zenon DEF TypeOK
      <4>2. row.at \in Int
        BY <1>2
      <4>3. ASSUME NEW k \in DOMAIN audit'
            PROVE  audit'[k].at \in Int
        <5>1. CASE k \in 1..Len(audit)
          BY <5>1, <4>1, <2>1
        <5>2. CASE k = Len(audit) + 1
          BY <5>2, <4>2, <2>1
        <5> QED BY <5>1, <5>2, <2>1
      <4>4. DOMAIN audit \in SUBSET Int /\ DOMAIN audit' \in SUBSET Int
        BY <2>1
      <4> QED BY <4>1, <4>3, <4>4
    <3>5. CurrentAssignment(i) = audit[m].value
      <4>1. m = CHOOSE l \in rows : \A k \in rows :
                  audit[k].at < audit[l].at \/ (audit[k].at = audit[l].at /\ k <= l)
        BY <3>1, <3>2, <3>3, <3>4, LastWritten
      <4> QED BY <2>2, <2>5, <4>1 DEF CurrentAssignment, LastValue, UpTo
    <3>6. CurrentAssignment(i)' = audit'[m].value
      <4>1. m = CHOOSE l \in rows : \A k \in rows :
                  audit'[k].at < audit'[l].at \/ (audit'[k].at = audit'[l].at /\ k <= l)
        BY <3>1, <3>2, <3>4, LastWritten
      <4> QED BY <2>3, <2>5, <4>1 DEF CurrentAssignment, LastValue, UpTo
    <3> QED BY <2>1, <3>1, <3>2, <3>5, <3>6
  <2> QED BY <2>4, <2>5
<1> QED
  BY <1>1, <1>2

LEMMA AssignmentsStep ==
  TypeOK /\ AssignmentsTakeEffect /\ [Next]_vars => AssignmentsTakeEffect'
<1> SUFFICES ASSUME TypeOK, AssignmentsTakeEffect, [Next]_vars, Ordered(audit'),
                    NEW j \in incidents'
             PROVE  CurrentAssignment(j)' = wanted'[j]
  BY DEF AssignmentsTakeEffect, Ordered
\* What is left to show when only a row for another purpose is written.
<1>1. ASSUME j \in incidents, wanted'[j] = wanted[j],
             NEW row, row.at \in Int, audit' = audit \/ audit' = Append(audit, row),
             audit' = audit \/ row.incident # j \/ row.action # "assigned"
      PROVE  CurrentAssignment(j)' = wanted'[j]
  <2>1. CurrentAssignment(j)' = CurrentAssignment(j)
    BY <1>1, AssignmentStays
  <2>2. Ordered(audit)
    <3>1. CASE audit' = audit
      BY <3>1
    <3>2. CASE audit' = Append(audit, row)
      <4>1. \E S : audit \in Seq(S)
        BY DEF TypeOK
      <4>2. /\ Len(audit) \in Nat /\ DOMAIN audit = 1..Len(audit)
            /\ DOMAIN audit' = 1..(Len(audit) + 1)
            /\ \A k \in 1..Len(audit) : audit'[k] = audit[k]
        BY <3>2, <4>1, Appended
      <4> QED BY <4>2 DEF Ordered
    <3> QED BY <1>1, <3>1, <3>2
  <2>3. CurrentAssignment(j) = wanted[j]
    BY <1>1, <2>2 DEF AssignmentsTakeEffect, Ordered
  <2> QED BY <1>1, <2>1, <2>3
<1>2. ASSUME UNCHANGED <<incidents, audit, wanted>>
      PROVE  CurrentAssignment(j)' = wanted'[j]
  <2>1. CurrentAssignment(j)' = CurrentAssignment(j)
    BY <1>2 DEF CurrentAssignment, LastValue, RowsOf, UpTo
  <2>2. Ordered(audit)
    BY <1>2
  <2> QED BY <1>2, <2>1, <2>2 DEF AssignmentsTakeEffect, Ordered
<1>3. ASSUME UNCHANGED <<incidents, wanted>>, NEW i, NEW action, NEW value, action # "assigned",
             audit' = audit \/ audit' = Append(audit, Row(i, action, value, now))
      PROVE  CurrentAssignment(j)' = wanted'[j]
  <2>1. PICK row : row = Row(i, action, value, now)
    OBVIOUS
  <2>2. row.at \in Int /\ row.action # "assigned"
    BY <1>3, <2>1 DEF Row, TypeOK
  <2>3. j \in incidents /\ wanted'[j] = wanted[j]
    BY <1>3
  <2>4. audit' = audit \/ audit' = Append(audit, row)
    BY <1>3, <2>1
  <2> QED BY <1>1, <2>2, <2>3, <2>4
<1>4. ASSUME OpenIncident
      PROVE  CurrentAssignment(j)' = wanted'[j]
  <2>1. UNCHANGED audit /\ incidents' = incidents \cup {NextNumber}
    BY <1>4 DEF OpenIncident
  <2>2. CurrentAssignment(j)' = CurrentAssignment(j)
    BY <2>1 DEF CurrentAssignment, LastValue, RowsOf, UpTo
  <2>3. CASE j \in incidents
    <3>1. wanted'[j] = wanted[j]
      BY <1>4, <2>3 DEF OpenIncident
    <3> QED BY <2>1, <2>2, <2>3, <3>1 DEF AssignmentsTakeEffect, Ordered
  <2>4. CASE j \notin incidents
    <3>1. wanted'[j] = Nobody
      BY <1>4, <2>4 DEF OpenIncident
    <3>2. RowsOf(j, "assigned") = {}
      BY <2>4 DEF RowsOf, TypeOK
    <3> QED BY <2>2, <3>1, <3>2 DEF CurrentAssignment, LastValue
  <2> QED BY <2>3, <2>4
<1>5. ASSUME NEW i \in incidents, NEW a \in Analysts \cup {Nobody}, Assign(i, a)
      PROVE  CurrentAssignment(j)' = wanted'[j]
  <2>1. /\ j \in incidents /\ wanted \in [incidents -> Analysts \cup {Nobody}]
        /\ wanted' = [wanted EXCEPT ![i] = a]
    BY <1>5 DEF Assign, TypeOK
  <2>2. PICK row : row = Row(i, "assigned", a, now)
    OBVIOUS
  <2>3. /\ row.incident = i /\ row.action = "assigned" /\ row.value = a /\ row.at \in Int
    BY <2>2 DEF Row, TypeOK
  <2>4. audit' = IF CurrentAssignment(i) # a THEN Append(audit, row) ELSE audit
    BY <1>5, <2>2 DEF Assign
  <2>5. CASE j # i
    <3>1. wanted'[j] = wanted[j]
      BY <2>1, <2>5
    <3>2. audit' = audit \/ audit' = Append(audit, row)
      BY <2>4
    <3> QED BY <1>1, <2>1, <2>3, <2>5, <3>1, <3>2
  <2>6. CASE j = i /\ CurrentAssignment(i) = a
    <3>1. UNCHANGED audit
      BY <2>4, <2>6
    <3>2. CurrentAssignment(j)' = CurrentAssignment(j)
      BY <3>1 DEF CurrentAssignment, LastValue, RowsOf, UpTo
    <3> QED BY <2>1, <2>6, <3>2
  <2>7. CASE j = i /\ CurrentAssignment(i) # a
    <3>1. audit' = Append(audit, row)
      BY <2>4, <2>7
    <3>2. PICK n : n = Len(audit) + 1
      OBVIOUS
    <3>3. /\ n \in Nat \ {0} /\ DOMAIN audit' = 1..n
          /\ audit'[n] = row
          /\ DOMAIN audit = 1..(n - 1) /\ \A k \in 1..(n - 1) : audit'[k] = audit[k]
      <4>1. \E S : audit \in Seq(S)
        BY DEF TypeOK
      <4>2. /\ Len(audit) \in Nat /\ DOMAIN audit = 1..Len(audit)
            /\ DOMAIN audit' = 1..(Len(audit) + 1)
            /\ \A k \in 1..Len(audit) : audit'[k] = audit[k]
            /\ audit'[Len(audit) + 1] = row
        BY <3>1, <4>1, Appended
      <4> QED BY <3>2, <4>2
    <3>4. PICK rows : rows = RowsOf(i, "assigned")'
      OBVIOUS
    <3>5. rows = {k \in 1..n : audit'[k].incident = i /\ audit'[k].action = "assigned"}
      BY <3>3, <3>4 DEF RowsOf
    <3>6. n \in rows /\ \A k \in rows : k <= n
      BY <2>3, <3>3, <3>5
    <3>7. \A k \in DOMAIN audit' : audit'[k].at \in Int
      <4> SUFFICES ASSUME NEW k \in 1..n
                   PROVE  audit'[k].at \in Int
        BY <3>3
      <4>1. CASE k = n
        BY <2>3, <3>3, <4>1
      <4>2. CASE k # n
        <5>1. k \in 1..(n - 1)
          BY <3>3, <4>2
        <5> QED BY <3>3, <5>1 DEF TypeOK
      <4> QED BY <4>1, <4>2
    <3>8. n = CHOOSE l \in rows : \A k \in rows :
                audit'[k].at < audit'[l].at \/ (audit'[k].at = audit'[l].at /\ k <= l)
      <4>1. rows \in SUBSET DOMAIN audit' /\ DOMAIN audit' \in SUBSET Int
        BY <3>3, <3>5
      <4> QED BY <3>6, <3>7, <4>1, LastWritten
    <3>9. CurrentAssignment(i)' = audit'[n].value
      BY <3>4, <3>6, <3>8 DEF CurrentAssignment, LastValue, UpTo
    <3> QED BY <2>1, <2>3, <2>7, <3>3, <3>9
  <2> QED BY <2>5, <2>6, <2>7
<1>6. ASSUME NEW i \in incidents, NEW ioc, Link(i, ioc) \/ ExportAgain(i) \/ BeginExport(i)
      PROVE  CurrentAssignment(j)' = wanted'[j]
  <2>1. UNCHANGED <<incidents, audit, wanted>>
    BY <1>6 DEF Link, ExportAgain, BeginExport
  <2> QED BY <1>2, <2>1
<1>7. ASSUME NEW i \in incidents, AddNote(i)
      PROVE  CurrentAssignment(j)' = wanted'[j]
  <2>1. UNCHANGED <<incidents, wanted>> /\ audit' = Append(audit, Row(i, "note", 0, now))
    BY <1>7 DEF AddNote
  <2> QED BY <1>3, <2>1
<1>8. ASSUME Recover
      PROVE  CurrentAssignment(j)' = wanted'[j]
  <2>1. /\ UNCHANGED <<incidents, wanted>>
        /\ \E value : audit' = audit
                       \/ audit' = Append(audit, Row(export.incident, "exported", value, now))
    BY <1>8 DEF Recover
  <2> QED BY <1>3, <2>1
<1>9. ASSUME CommitExport
      PROVE  CurrentAssignment(j)' = wanted'[j]
  <2>1. /\ UNCHANGED <<incidents, wanted>>
        /\ \E value : audit' = Append(audit, Row(export.incident, "exported", value, now))
    BY <1>9 DEF CommitExport
  <2> QED BY <1>3, <2>1
<1>10. ASSUME FindNothing \/ CreateCase \/ AddObservable \/ AbandonExport \/ Tick
                \/ UNCHANGED vars
       PROVE  CurrentAssignment(j)' = wanted'[j]
  <2>1. UNCHANGED <<incidents, audit, wanted>>
    BY <1>10 DEF FindNothing, CreateCase, AddObservable, AbandonExport, Tick, vars
  <2> QED BY <1>2, <2>1
<1> QED
  BY <1>4, <1>5, <1>6, <1>7, <1>8, <1>9, <1>10 DEF Next, Exporting

\* As long as the clock does not step back between two writes, the assignee
\* shown is the one last asked for, rows of one instant included
\* (_current_assignment over AuditRepository.for_entity_ids).
THEOREM AssignmentsAreShown == Spec => []AssignmentsTakeEffect
<1>1. Init => AssignmentsTakeEffect
  BY DEF Init, AssignmentsTakeEffect
<1>2. AssignmentsTakeEffect /\ TypeOK /\ [Next]_vars => AssignmentsTakeEffect'
  BY AssignmentsStep
<1> QED
  BY <1>1, <1>2, TypeCorrect, PTL DEF Spec
=============================================================================
