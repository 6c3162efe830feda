------------------------------ MODULE Scoring ------------------------------
(***************************************************************************)
(* From the evidence of one alert to its score, tier and decision, under   *)
(* the scoring and the decision policy the service was started with.  The  *)
(* constants are the policies after validation; the sentences that explain *)
(* a factor are left out.                                                  *)
(***************************************************************************)
EXTENDS Integers, Sequences, FiniteSets, FiniteSetsExt, Functions

CONSTANTS
  Severity,     \* bands of the rule's level: a sequence of [min, max, points]
  Groups,       \* [max, group, mitre, multi, threshold]
  Criticality,  \* [unknown, bands, aliases]: aliases are [band, labels], in order
  Recurrence,   \* [max, rules]: rules are [occurrences, span, points]
  Evidence,     \* [max, each, counted]
  Coverage,     \* points of an enrichment status
  Intel,        \* [max, types, high_min, high, low, suspicious_min, suspicious, match, actor]
  Subtract,     \* what an allowlisted indicator takes off
  Tiers,        \* bands of the score: a sequence of [name, min, max]
  Actions,      \* what each tier leads to: [action, severity]
  AllowlistedAction

\* _tiers_cover_0_to_100: the bands follow each other from 0 to 100.
TiersCover ==
  /\ Tiers /= <<>>
  /\ \A m, n \in DOMAIN Tiers : Tiers[m].name = Tiers[n].name => m = n
  /\ \A n \in DOMAIN Tiers : /\ Tiers[n].min <= Tiers[n].max
                             /\ Tiers[n].min = IF n = 1 THEN 0 ELSE Tiers[n - 1].max + 1
  /\ Tiers[Len(Tiers)].max = 100

\* _bands_ordered and _intel_weights_within_factor_max.
IntelWeightsFit ==
  /\ Intel.high >= Intel.low /\ Intel.low >= Intel.suspicious
  /\ Intel.high <= Intel.max
  /\ Intel.match + Intel.actor <= Intel.max

\* _all_tiers_present and _severity_consistency.
ActionsConsistent ==
  /\ \A n \in DOMAIN Tiers : Tiers[n].name \in DOMAIN Actions
  /\ \A t \in DOMAIN Actions : Actions[t].action = "open_incident" <=> Actions[t].severity /= "none"

ASSUME PolicyAssumption == TiersCover /\ IntelWeightsFit /\ ActionsConsistent

\* The types of the fields: weights are not negative, save those of an asset's
\* band and of an enrichment status, which may be any integer.
ASSUME SeverityAssumption == Severity \in Seq([min : Nat, max : Nat, points : Nat])
ASSUME GroupsAssumption ==
  Groups \in [max : Nat, group : Nat, mitre : Nat, multi : Nat, threshold : Nat]
ASSUME CriticalityAssumption ==
  /\ Criticality.unknown \in Nat
  /\ \A b \in DOMAIN Criticality.bands : Criticality.bands[b] \in Int
ASSUME RecurrenceAssumption ==
  /\ Recurrence.max \in Nat
  /\ Recurrence.rules \in Seq([occurrences : Nat, span : Nat, points : Nat])
ASSUME EvidenceAssumption == Evidence \in [max : Nat, each : Nat, counted : Nat]
ASSUME CoverageAssumption == \A s \in DOMAIN Coverage : Coverage[s] \in Int
ASSUME IntelAssumption ==
  /\ Intel.max \in Nat /\ Intel.high \in Nat /\ Intel.low \in Nat /\ Intel.suspicious \in Nat
  /\ Intel.match \in Nat /\ Intel.actor \in Nat
  /\ Intel.high_min \in Nat \ {0} /\ Intel.suspicious_min \in Nat \ {0}
ASSUME SubtractAssumption == Subtract \in Nat
ASSUME TiersAssumption == Tiers \in Seq([name : DOMAIN Actions, min : 0..100, max : 0..100])

AtMost(limit, points) == IF points < limit THEN points ELSE limit

Clamp(points) == IF points < 0 THEN 0 ELSE AtMost(100, points)

-----------------------------------------------------------------------------
(* The records providers attached to an indicator *)

NotLookedUp == [status |-> "none", malicious |-> 0, suspicious |-> 0, matches |-> 0, actor |-> FALSE]

\* The records there may be; a count that is no natural number is read as 0.
Record == [status : {"none", "found", "not_found", "error", "rate_limited", "timeout"},
           malicious : Nat, suspicious : Nat, matches : Nat, actor : BOOLEAN]

\* A record that carries a conclusion.
Available(record) == record.status \in {"found", "not_found"}

\* Mutant of VirustotalAward: suspicious engines are looked at first.
VirustotalAward_SuspiciousFirst(record) ==
  CASE ~Available(record) -> 0
    [] Available(record) /\ record.suspicious >= Intel.suspicious_min -> Intel.suspicious
    [] Available(record) /\ record.suspicious < Intel.suspicious_min ->
         IF record.malicious >= Intel.high_min THEN Intel.high
         ELSE IF record.malicious > 0 THEN Intel.low ELSE 0

VirustotalAward(record) ==
  CASE ~Available(record)                          -> 0
    [] Available(record) /\ record.malicious >= Intel.high_min -> Intel.high
    [] Available(record) /\ record.malicious \in 1..(Intel.high_min - 1) -> Intel.low
    [] Available(record) /\ record.malicious = 0 ->
         IF record.suspicious >= Intel.suspicious_min THEN Intel.suspicious ELSE 0

MispAward(record) ==
  IF Available(record) /\ record.matches > 0
    THEN Intel.match + (IF record.actor THEN Intel.actor ELSE 0) ELSE 0

-----------------------------------------------------------------------------
(* The factors, each a function of one part of the alert *)

\* The bands of the policy that hold this level.
Bands(level) == {n \in DOMAIN Severity : level \in Severity[n].min..Severity[n].max}

RuleSeverity(level) == IF Bands(level) = {} THEN 0 ELSE Severity[Min(Bands(level))].points

RuleGroupsMitre(rule) ==
  AtMost(Groups.max, Groups.group * rule.groups
                     + (IF rule.technique THEN Groups.mitre ELSE 0)
                     + (IF rule.tactics >= Groups.threshold THEN Groups.multi ELSE 0))

\* The aliases that a label resolves to: a band is known by its aliases only.
Resolve(tier) ==
  {n \in DOMAIN Criticality.aliases :
     tier = Criticality.aliases[n].band \/ tier \in Criticality.aliases[n].labels}

AssetCriticality(tier) ==
  LET band == Criticality.aliases[Min(Resolve(tier))].band
  IN IF Resolve(tier) = {} THEN Criticality.unknown
     ELSE IF band \in DOMAIN Criticality.bands THEN Criticality.bands[band] ELSE 0

\* A recurrence rule's threshold, met within its span.
Met(rule, dedupe) == dedupe.occurrences >= rule.occurrences /\ dedupe.span <= rule.span

RecurrenceVelocity(dedupe) ==
  LET met == {n \in DOMAIN Recurrence.rules : Met(Recurrence.rules[n], dedupe)}
  IN AtMost(Recurrence.max, MapThenSumSet(LAMBDA n : Recurrence.rules[n].points, met))

IocEvidence(iocs) == AtMost(Evidence.max, Evidence.each * AtMost(Evidence.counted, Cardinality(iocs)))

EnrichmentStatus(status) == IF status \in DOMAIN Coverage THEN Coverage[status] ELSE 0

\* Indicators of the types the policy lets intelligence speak about.
Handled(iocs) == {k \in iocs : k.type \in Intel.types}

ThreatIntel(alert) ==
  LET handled == Handled(alert.iocs)
  IN AtMost(Intel.max,
            MapThenSumSet(LAMBDA k : VirustotalAward(alert.vt[k]), handled)
            + MapThenSumSet(LAMBDA k : MispAward(alert.misp[k]), handled))

Allowlisted(alert) == \E k \in alert.iocs : alert.allowed[k]

\* score_alert: the factors in their declared order.
Factors(alert) ==
  << RuleSeverity(alert.rule.level), RuleGroupsMitre(alert.rule), AssetCriticality(alert.tier),
     RecurrenceVelocity(alert.dedupe), IocEvidence(alert.iocs), EnrichmentStatus(alert.status),
     ThreatIntel(alert), IF Allowlisted(alert) THEN -Subtract ELSE 0 >>

Total(factors) == FoldFunction(LAMBDA a, b : a + b, 0, factors)

TierFor(score) ==
  Tiers[CHOOSE n \in DOMAIN Tiers : score \in Tiers[n].min..Tiers[n].max].name

Risk(factors, degraded) ==
  LET score == Clamp(Total(factors))
  IN [score |-> score, tier |-> TierFor(score), factors |-> factors, degraded |-> degraded]

\* RiskScorer.score: degraded_score when the engine raised.
Score(alert, raised) ==
  IF raised THEN Risk(<<RuleSeverity(alert.rule.level)>>, TRUE) ELSE Risk(Factors(alert), FALSE)

\* decide: an allowlisted indicator overrides the tier.
Decide(risk, alert) ==
  IF Allowlisted(alert) THEN [action |-> AllowlistedAction, severity |-> "none"]
  ELSE Actions[risk.tier]
=============================================================================
