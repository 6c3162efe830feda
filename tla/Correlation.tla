---------------------------- MODULE Correlation ----------------------------
(***************************************************************************)
(* Cross-alert correlation: CorrelationService.correlate groups alerts of  *)
(* different rule+agent groups into investigation contexts.                *)
(*                                                                         *)
(* A handler records an alert in one transaction and correlates it in a    *)
(* later one; it awaits nothing in between, so at most one alert waits for *)
(* its correlation.  The correlation may fail, or the process die before   *)
(* it: nobody tries again.  A process-wide lock and the lack of any other  *)
(* writer of the two correlation tables make one correlation one step.     *)
(***************************************************************************)
EXTENDS DayNumbers, Sequences

CONSTANTS
  Kinds,        \* what alerts can be: records of rule, agent, techniques, indicators
  Window,       \* window_seconds of the correlation, in ticks
  DayLength,    \* ticks in a UTC day: context ids are numbered per day
  StartTime,    \* what the wall clock showed before the first alert
  ClockSteps,   \* moves of the wall clock between two alerts
  MaxAlerts     \* bound of the model: alerts recorded, those lost counted four times

ASSUME KindsAssumption ==
  \A k \in Kinds : DOMAIN k = {"rule", "agent", "techniques", "indicators"}
ASSUME WindowAssumption == Window \in Nat \ {0}
ASSUME DayAssumption == DayLength \in Nat \ {0}
ASSUME ClockAssumption == StartTime \in Nat /\ ClockSteps \subseteq Nat
ASSUME BoundsAssumption == MaxAlerts \in Nat

VARIABLES
  alerts,    \* the alerts recorded, oldest first: kind and received_at
  waiting,   \* TRUE while the newest alert has not been correlated
  members,   \* correlation_members: for each alert in a context, the context
             \* and the peers its pairwise evidence names
  contexts,  \* correlation_contexts: createdAt, updatedAt, firstSeen, lastSeen
  audit,     \* audit_log rows of contexts, oldest first; the linked rows of a
             \* transaction are one row that names all the alerts, its merged
             \* rows one that names all the contexts
  lost       \* the alerts whose own correlation did not happen

vars == <<alerts, waiting, members, contexts, audit, lost>>

Recorded == DOMAIN alerts

AlertRow == [kind : Kinds, receivedAt : Nat]

\* CORR-YYYY-MM-DD-NNNN
ContextId == [day : Nat, number : Nat \ {0}]

-----------------------------------------------------------------------------
(* Evidence between two alerts *)

GroupOf(k) == <<k.rule, k.agent>>

\* Direction-matched addresses are as strong as any other shared indicator.
PairwiseEvidence(j, k) ==
  {type \in {"same_agent", "same_rule", "shared_technique", "shared_ioc"} :
     \/ type = "same_agent" /\ j.agent = k.agent
     \/ type = "same_rule" /\ j.rule = k.rule
     \/ type = "shared_technique" /\ j.techniques \cap k.techniques # {}
     \/ type = "shared_ioc" /\ j.indicators \cap k.indicators # {}}

IsSufficient(types) ==
  "shared_ioc" \in types \/ {"same_agent", "shared_technique"} \subseteq types

\* Mutant of Candidates: the window's edge is left out.
Candidates_OpenBoundary(a) ==
  {b \in Recorded \ {a} : /\ GroupOf(alerts[b].kind) # GroupOf(alerts[a].kind)
                          /\ alerts[b].receivedAt > alerts[a].receivedAt - Window
                          /\ alerts[b].receivedAt <= alerts[a].receivedAt}

\* Other alerts, of other groups, at most a window older; both bounds count.
Candidates(a) ==
  {b \in Recorded \ {a} : /\ GroupOf(alerts[b].kind) # GroupOf(alerts[a].kind)
                          /\ alerts[b].receivedAt >= alerts[a].receivedAt - Window
                          /\ alerts[b].receivedAt <= alerts[a].receivedAt}

Qualifying(a) ==
  {b \in Candidates(a) : IsSufficient(PairwiseEvidence(alerts[a].kind, alerts[b].kind))}

-----------------------------------------------------------------------------
(* Contexts *)

\* The order of context ids as strings: by day, then by the digits of the number.
IdBefore(c, d) == c.day < d.day \/ (c.day = d.day /\ Below(c.number, d.number))

Day(t) == t \div DayLength

\* _next_context_id: one more than the last of the day's ids as strings, or 1.
IsNextId(c) ==
  LET numbers == {d.number : d \in {e \in DOMAIN contexts : e.day = c.day}}
  IN  IF numbers = {} THEN c.number = 1 ELSE IsLast(c.number - 1, numbers)

\* The id is the primary key: one that is taken fails the insert.
IsFree(c) == c \notin DOMAIN contexts

\* Mutant of Involved: the contexts of all alerts, not of the peers alone.
Involved_All(peers) == {members[b].context : b \in DOMAIN members}

\* The contexts that peers of an alert are members of.
Involved(peers) == {members[b].context : b \in peers \cap DOMAIN members}

\* Mutant of Moved: only the peers of the bridging alert move.
Moved_PeersOnly(m, target, peers) ==
  IF m \in peers THEN [members[m] EXCEPT !.context = target] ELSE members[m]

\* move_members: every membership of a merged context goes to the target.
Moved(m, target, peers) ==
  IF members[m].context \in Involved(peers)
  THEN [members[m] EXCEPT !.context = target]
  ELSE members[m]

\* The membership table after `a` was linked with `peers` in `target`: peers
\* in no context join too, with `a` as their evidence.
Linked(a, target, peers) ==
  [m \in DOMAIN members \cup peers \cup {a} |->
     IF m \in DOMAIN members THEN Moved(m, target, peers)
     ELSE [context |-> target, peers |-> IF m = a THEN peers ELSE {a}]]

\* refresh_bounds, over the members that `rows` gives the context.
Refreshed(row, rows, target, at) ==
  LET times == {alerts[m].receivedAt : m \in {n \in DOMAIN rows : rows[n].context = target}}
  IN  [row EXCEPT !.firstSeen = Min(times), !.lastSeen = Max(times), !.updatedAt = at]

Row(action, context, named, merged) ==
  [action |-> action, context |-> context, alerts |-> named, merged |-> merged]

-----------------------------------------------------------------------------
\* An alert that is no exact duplicate is recorded and assessed.
Record(kind, d) ==
  LET previous == IF alerts = <<>> THEN StartTime ELSE alerts[Len(alerts)].receivedAt
  IN
  /\ ~waiting
  /\ Len(alerts) + 3 * Cardinality(lost) < MaxAlerts
  /\ alerts' = Append(alerts, [kind |-> kind, receivedAt |-> previous + d])
  /\ waiting' = TRUE
  /\ UNCHANGED <<members, contexts, audit, lost>>

\* No evidence qualifies, or the alert is a member already: no row is written.
FindNothing ==
  LET a == Len(alerts)
  IN
  /\ waiting
  /\ a \in DOMAIN members \/ Qualifying(a) = {}
  /\ waiting' = FALSE
  /\ UNCHANGED <<alerts, members, contexts, audit, lost>>

\* None of the peers is in a context: a new one for all of them; if its id
\* is taken, the correlation is lost.
Found(number) ==
  LET a == Len(alerts)
      at == alerts[a].receivedAt
      target == [day |-> Day(at), number |-> number]
      peers == Qualifying(a)
      rows == Linked(a, target, peers)
      row == [createdAt |-> at, updatedAt |-> at, firstSeen |-> at, lastSeen |-> at]
  IN
  /\ waiting
  /\ a \notin DOMAIN members
  /\ peers # {}
  /\ Involved(peers) = {}
  /\ IsNextId(target)
  /\ IsFree(target)
  /\ members' = rows
  /\ contexts' = [c \in DOMAIN contexts \cup {target} |->
                    IF c = target THEN Refreshed(row, rows, target, at)
                    ELSE contexts[c]]
  /\ audit' = audit \o <<Row("created", target, peers \cup {a}, {}),
                         Row("linked", target, peers \cup {a}, {})>>
  /\ waiting' = FALSE
  /\ UNCHANGED <<alerts, lost>>

\* Mutant of IsTarget: the newest context wins.
IsTarget_Newest(c, involved) == \A d \in involved \ {c} : IdBefore(d, c)

\* Of the contexts involved, the one with the smallest id is kept.
IsTarget(c, involved) == \A d \in involved \ {c} : IdBefore(c, d)

\* Mutant of MergeRows: the merge is not audited.
MergeRows_None(target, merged) == <<>>

MergeRows(target, merged) ==
  IF merged = {} THEN <<>> ELSE <<Row("merged", target, {}, merged)>>

\* Some peers are in contexts: the alert joins them in one, the others merged
\* into it and deleted.
Join(target) ==
  LET a == Len(alerts)
      at == alerts[a].receivedAt
      peers == Qualifying(a)
      involved == Involved(peers)
      added == (peers \cup {a}) \ DOMAIN members
      rows == Linked(a, target, peers)
  IN
  /\ waiting
  /\ a \notin DOMAIN members
  /\ target \in involved
  /\ IsTarget(target, involved)
  /\ members' = rows
  /\ contexts' = [c \in (DOMAIN contexts \ involved) \cup {target} |->
                    IF c = target THEN Refreshed(contexts[c], rows, target, at)
                    ELSE contexts[c]]
  /\ audit' = audit \o MergeRows(target, involved \ {target})
                    \o <<Row("linked", target, added, {})>>
  /\ waiting' = FALSE
  /\ UNCHANGED <<alerts, lost>>

\* The transaction failed and was rolled back, or the process died before it:
\* logged at most, and the alert stays as it is.
Lose ==
  /\ waiting
  /\ Len(alerts) + 3 * Cardinality(lost) < MaxAlerts
  /\ waiting' = FALSE
  /\ lost' = lost \cup {Len(alerts)}
  /\ UNCHANGED <<alerts, members, contexts, audit>>

Init ==
  /\ alerts = <<>>
  /\ waiting = FALSE
  /\ members = [a \in {} |-> 0]
  /\ contexts = [c \in {} |-> 0]
  /\ audit = <<>>
  /\ lost = {}

Next ==
  \/ \E kind \in Kinds, d \in ClockSteps : Record(kind, d)
  \/ FindNothing
  \/ \E number \in 1..MaxAlerts : Found(number)
  \/ \E target \in DOMAIN contexts : Join(target)
  \/ Lose

Spec == Init /\ [][Next]_vars

-----------------------------------------------------------------------------
(* Properties *)

MembersOf(c) == {m \in DOMAIN members : members[m].context = c}

Comparable(a, b) ==
  /\ a # b
  /\ GroupOf(alerts[a].kind) # GroupOf(alerts[b].kind)
  /\ alerts[a].receivedAt - alerts[b].receivedAt \in -Window..Window

\* The evidence a membership carries is about an alert of the same context, of
\* another group and at most a window away, through every merge after the
\* membership was written (correlate, move_members).
EvidenceStaysInside ==
  \A m \in DOMAIN members :
    /\ members[m].peers # {}
    /\ \A p \in members[m].peers :
         /\ p \in DOMAIN members
         /\ members[p].context = members[m].context
         /\ Comparable(m, p)

\* first_seen and last_seen of a context are those of its members.
BoundsDescribeMembers(c) ==
  LET times == {alerts[m].receivedAt : m \in MembersOf(c)}
  IN  /\ contexts[c].firstSeen = Min(times)
      /\ contexts[c].lastSeen = Max(times)

\* A context is one investigation: it has members, which its bounds describe
\* through every merge, and evidence connects them all, so that no split of them
\* is free of evidence across it ("never merged without such bridging
\* evidence").
ContextsConnected ==
  \A c \in DOMAIN contexts :
    LET own == MembersOf(c)
    IN  /\ own # {}
        /\ BoundsDescribeMembers(c)
        /\ \A part \in (SUBSET own) \ {{}, own} :
             \E m \in part, p \in own \ part :
               p \in members[m].peers \/ m \in members[p].peers

\* Two alerts with sufficient evidence are in the same context once the later
\* one has been correlated: no peer is left out because it is uncorrelated, in
\* another context, or in two by way of different peers.
RelatedAreTogether ==
  \A b \in Recorded \ lost :
    \/ b = Len(alerts) /\ waiting
    \/ \A a \in 1..(b - 1) :
         Comparable(a, b) /\ IsSufficient(PairwiseEvidence(alerts[a].kind, alerts[b].kind))
           => /\ {a, b} \subseteq DOMAIN members
              /\ members[a].context = members[b].context

\* Two ids whose order as strings is their order as numbers.
Aligned(c, d) == c.day = d.day => Fits(c.number) /\ Fits(d.number)

\* Alerts once together stay together, and a context that disappears has gone
\* whole into another; into one that was created no later ("deterministically
\* into the earlier-created one") unless one of the two is past the padding of
\* its day's numbers, although ids of merged contexts are used again.
MergesKeepTheEarlier ==
  [][/\ \A m, p \in DOMAIN members :
          members[m].context = members[p].context
            => members'[m].context = members'[p].context
     /\ \A m \in DOMAIN members :
          LET before == members[m].context
              after == members'[m].context
          IN  after # before =>
                /\ after \in DOMAIN contexts
                /\ before \notin DOMAIN contexts'
                /\ Aligned(before, after) =>
                     contexts[after].createdAt <= contexts[before].createdAt]_vars

NoContext == [day |-> 0, number |-> 0]

\* The context of an alert after a row of the log: the one the alert is linked
\* to, or the one its context is merged into.
After(a, row, context) ==
  IF row.action = "linked" /\ a \in row.alerts THEN row.context
  ELSE IF context \in row.merged THEN row.context
  ELSE context

\* The context of an alert according to a log, row by row.
Replayed(log, a) ==
  LET replay[k \in Nat] ==
        IF k = 0 THEN NoContext ELSE After(a, log[k], replay[k - 1])
  IN  replay[Len(log)]

\* "A context's history stays reconstructable from the audit log": following
\* an alert's rows in the order of the log ends at the context it is in, even
\* if an id on the way was given to a second context.
HistoryReconstructable ==
  \A a \in Recorded :
    Replayed(audit, a) = IF a \in DOMAIN members THEN members[a].context ELSE NoContext
=============================================================================
