---------------------------- MODULE Assessment ----------------------------
(***************************************************************************)
(* One alert's way from the delivered event to its stored assessment, and  *)
(* the policy files that shape it.  At startup the asset inventory and the *)
(* allowlist are read entry by entry; an entry that contradicts an earlier *)
(* one stops the service.  An event is then normalised, its asset filled   *)
(* from the inventory, its indicators extracted, looked up, scored and     *)
(* decided on; the late-enrichment sweep looks them up again and assesses  *)
(* again what changed.                                                     *)
(*                                                                         *)
(* A spelling is a text and how it was written: plain, in capitals, or     *)
(* defanged, its dots in brackets.  Normalisation yields a text or nothing.*)
(* Addresses are numbers, so that a block of a CIDR entry is an interval;  *)
(* the texts of the other types are numbered in the order of their text.   *)
(***************************************************************************)
EXTENDS Scoring

CONSTANTS
  Events,        \* events that may arrive: [rule, agent, ip, name, tier, dedupe, fields]
  FieldType,     \* type of each field: one of an indicator, "text" or "log"
  InCapitals,    \* for an email or a URL, the text its capitals are normalised to
  Inside,        \* what a scan also reads within an email or a URL: its domain, its host
  TextPlace,     \* place of each address among the texts of addresses
  Private,       \* addresses that are not global
  IncludePrivate, IncludeFullLog,  \* IOCExtractionPolicy, FALSE by default
  MaxIocs,       \* indicators kept of one alert: 200
  AssetFile,     \* records an inventory may list: [name, tier, owner, agents, ips]
  AllowFile,     \* entries an allowlist may list: [id, type, value, form, block, reason]
  MaxAssets, MaxEntries,  \* MAX_ASSETS, MAX_ALLOWLIST_ENTRIES: 10 000 each
  VtRecords, MispRecords  \* what a lookup may return

ASSUME IdentifiersAssumption ==
  \A r \in AssetFile : "absent" \notin Range(r.agents) \cup Range(r.ips)
ASSUME EntriesAssumption == \A e \in AllowFile : e.value \in Nat /\ e.block \in Nat \ {0}
ASSUME RecordsAssumption == VtRecords \cup MispRecords \subseteq Record
ASSUME RulesAssumption == \A event \in Events : {event.rule.groups, event.rule.tactics} \subseteq Nat
ASSUME LimitsAssumption == MaxIocs \in Nat \ {0} /\ {MaxAssets, MaxEntries} \subseteq Nat

VARIABLES
  stage,       \* "assets", "entries", "serving" or "refused"
  assets,      \* inventory records listed so far
  inventory,   \* those accepted
  entries,     \* allowlist entries listed so far
  allowlist,   \* those accepted
  alert        \* the alert of record, a set of at most one

vars == <<stage, assets, inventory, entries, allowlist, alert>>

Absent == "absent"

-----------------------------------------------------------------------------
(* Normalisation of indicators *)

Types == {"domain", "email", "ipv4", "md5", "url"}

\* The forms a type is recognised in: IPv4 is not refanged, a hash has no dots.
Forms(type) == IF type \in {"ipv4", "md5"} THEN {"plain", "upper"} ELSE {"plain", "upper", "defanged"}

\* The text a spelling is normalised to: the local part of an email and the path
\* and query of a URL keep their case, everything else is folded.
Text(s) ==
  IF s.type \in {"email", "url"} /\ s.form = "upper" THEN InCapitals[s.type][s.value] ELSE s.value

\* The indicator a spelling stands for, as a set of at most one.
Normalized(type, s) ==
  IF s.type = type /\ s.form \in Forms(type) THEN {[type |-> type, value |-> Text(s)]} ELSE {}

\* ipv4_allowed: what the policy counts as evidence.
Allowed(address) == address \notin Private \/ IncludePrivate

\* normalize_ipv4 also drops the addresses that are not.
Indicators(type, s) == {k \in Normalized(type, s) : type = "ipv4" => Allowed(s.value)}

-----------------------------------------------------------------------------
(* The asset inventory *)

\* Two spellings of a name are one after casefold.
Fold(name) == name[1]

\* The identifiers are compared as they are listed, order included.
SameContent(a, b) ==
  a.tier = b.tier /\ a.owner = b.owner /\ a.agents = b.agents /\ a.ips = b.ips

Agents(r) == Range(r.agents)
Ips(r) == Range(r.ips)

WellFormed(r) == r.tier /= Absent

Namesake(r) == {n \in DOMAIN inventory : Fold(inventory[n].name) = Fold(r.name)}

\* Mutant of Claimed: addresses are not compared.
Claimed_AgentsOnly(r) == \E n \in DOMAIN inventory : Agents(inventory[n]) \cap Agents(r) /= {}

\* An agent or an address of the record belongs to another one.
Claimed(r) ==
  \E n \in DOMAIN inventory : \/ Agents(inventory[n]) \cap Agents(r) /= {}
                              \/ Ips(inventory[n]) \cap Ips(r) /= {}

\* The next record of the file: a repetition is dropped, a contradiction stops
\* the service, anything else is added.
LoadAsset(r) ==
  /\ stage = "assets"
  /\ assets' = Append(assets, r)
  /\ \/ /\ \/ ~WellFormed(r)
           \/ Len(assets) >= MaxAssets
           \/ \E n \in Namesake(r) : ~SameContent(inventory[n], r)
           \/ Namesake(r) = {} /\ Claimed(r)
        /\ stage' = "refused"
        /\ UNCHANGED inventory
     \/ /\ WellFormed(r) /\ Len(assets) < MaxAssets
        /\ Namesake(r) /= {} /\ \A n \in Namesake(r) : SameContent(inventory[n], r)
        /\ UNCHANGED <<stage, inventory>>
     \/ /\ WellFormed(r) /\ Len(assets) < MaxAssets
        /\ Namesake(r) = {} /\ ~Claimed(r)
        /\ inventory' = Append(inventory, r)
        /\ UNCHANGED stage
  /\ UNCHANGED <<entries, allowlist, alert>>

AssetsLoaded ==
  /\ stage = "assets"
  /\ stage' = "entries"
  /\ UNCHANGED <<assets, inventory, entries, allowlist, alert>>

\* The record an index leads to: the last one entered under the key.
LastOf(S) == inventory[CHOOSE n \in S : \A m \in S : m <= n]

\* AssetInventory.lookup: agent, then address, then name; a set of at most one.
Lookup(agent, ip, name) ==
  LET byAgent == {n \in DOMAIN inventory : agent \in Agents(inventory[n])}
      byIp == {n \in DOMAIN inventory : ip \in Ips(inventory[n])}
      byName == {n \in DOMAIN inventory : Fold(inventory[n].name) = Fold(name)}
  IN CASE byAgent /= {} -> {LastOf(byAgent)}
       [] byAgent = {} /\ byIp /= {} -> {LastOf(byIp)}
       [] byAgent = {} /\ byIp = {} /\ byName /= {} -> {LastOf(byName)}
       [] OTHER -> {}

\* apply_asset_inventory, the tier: what the event says wins.
TierOf(event) ==
  LET found == Lookup(event.agent, event.ip, event.name)
  IN IF event.tier = Absent /\ found /= {} THEN (CHOOSE r \in found : TRUE).tier ELSE event.tier

-----------------------------------------------------------------------------
(* The allowlist *)

\* The addresses of a CIDR entry, host bits masked; block is its size.
Network(e) == LET base == e.value - (e.value % e.block) IN base..(base + e.block - 1)

IsNetwork(e) == e.type = "ipv4" /\ e.block > 1

\* The entry's key: its indicator or its block.
EntryKey(e) == IF IsNetwork(e) THEN <<"block", Network(e)>> ELSE <<"one", Normalized(e.type, e)>>

ValidEntry(e) == e.form \in Forms(e.type)

\* allowlist_from_mapping, the next entry.
LoadEntry(e) ==
  LET same == {n \in DOMAIN allowlist : allowlist[n].id = e.id}
      alike(n) == allowlist[n].type = e.type /\ EntryKey(allowlist[n]) = EntryKey(e)
      equal(n) == alike(n) /\ allowlist[n].reason = e.reason
      taken == \E n \in DOMAIN allowlist : alike(n)
  IN
  /\ stage = "entries"
  /\ entries' = Append(entries, e)
  /\ \/ /\ \/ ~ValidEntry(e)
           \/ Len(entries) >= MaxEntries
           \/ ValidEntry(e) /\ \E n \in same : ~equal(n)
           \/ ValidEntry(e) /\ same = {} /\ taken
        /\ stage' = "refused"
        /\ UNCHANGED allowlist
     \/ /\ ValidEntry(e) /\ Len(entries) < MaxEntries
        /\ same /= {} /\ \A n \in same : equal(n)
        /\ UNCHANGED <<stage, allowlist>>
     \/ /\ ValidEntry(e) /\ Len(entries) < MaxEntries
        /\ same = {} /\ ~taken
        /\ allowlist' = Append(allowlist, e)
        /\ UNCHANGED stage
  /\ UNCHANGED <<assets, inventory, alert>>

EntriesLoaded ==
  /\ stage = "entries"
  /\ stage' = "serving"
  /\ UNCHANGED <<assets, inventory, entries, allowlist, alert>>

\* Mutant of Matches: blocks are compared as written, host bits included.
Matches_Unmasked(e, k) ==
  \/ ~IsNetwork(e) /\ k \in Normalized(e.type, e)
  \/ IsNetwork(e) /\ k.type = "ipv4" /\ k.value \in e.value..(e.value + e.block - 1)

\* Allowlist.match, for one entry: the indicator itself or its block.  Which of
\* several entries is reported tells no decisions apart.
Matches(e, k) ==
  \/ ~IsNetwork(e) /\ k \in Normalized(e.type, e)
  \/ IsNetwork(e) /\ k.type = "ipv4" /\ k.value \in Network(e)

-----------------------------------------------------------------------------
(* Extraction *)

\* What a scan reads within a spelling, in the form the whole is written in.
Within(s) ==
  IF s.type \in DOMAIN Inside
  THEN {[type |-> k.type, value |-> k.value, form |-> s.form] : k \in Inside[s.type][s.value]} ELSE {}

\* A field of one type holds one indicator of that type or none; text is
\* scanned for all of them, and for what lies within them.
FromField(f, spellings) ==
  CASE FieldType[f] \in Types -> UNION {Indicators(FieldType[f], s) : s \in {q \in spellings : spellings = {q}}}
    [] FieldType[f] = "text" \/ (FieldType[f] = "log" /\ IncludeFullLog) ->
         UNION {Indicators(t, s) : t \in Types, s \in spellings \cup UNION {Within(q) : q \in spellings}}
    [] OTHER -> {}

Found(fields) == UNION {FromField(f, fields[f]) : f \in DOMAIN fields}

Place(k) == IF k.type = "ipv4" THEN TextPlace[k.value] ELSE k.value

ASSUME IndicatorsAssumption ==
  \A event \in Events : /\ IsFiniteSet(Found(event.fields))
                        /\ Found(event.fields) \subseteq [type : Types, value : Nat]
                        /\ \A k \in Found(event.fields) : Place(k) \in Nat

TypeRank == [domain |-> 1, email |-> 2, ipv4 |-> 3, md5 |-> 4, url |-> 5]

\* ioc_sort_key.
Before(a, b) == \/ TypeRank[a.type] < TypeRank[b.type]
                \/ a.type = b.type /\ Place(a) < Place(b)

\* _merge: every indicator once, in order, the first MaxIocs of them.
Extract(fields) ==
  {k \in Found(fields) : Cardinality({j \in Found(fields) : Before(j, k)}) < MaxIocs}

-----------------------------------------------------------------------------
(* Enrichment: one run of the chain *)

VtTypes == Types \ {"email"}

\* What a provider may come back with: nothing, because it raised, or a record
\* per indicator.
Answers(records, iocs) ==
  {[up |-> FALSE, records |-> <<>>]} \cup {[up |-> TRUE, records |-> f] : f \in [iocs -> records]}

StatusOf(answer) ==
  LET asked == DOMAIN answer.records
      good == {k \in asked : Available(answer.records[k])}
  IN CASE ~answer.up -> "failed"
       [] answer.up /\ asked = {} -> "skipped"
       [] answer.up /\ asked /= {} /\ good = asked -> "complete"
       [] answer.up /\ asked /= {} /\ good = {} -> "failed"
       [] OTHER -> "partial"

ChainStatus(iocs, vt, misp) ==
  LET meaningful == {StatusOf(vt), StatusOf(misp)} \ {"skipped"}
  IN CASE iocs = {} \/ meaningful = {} -> "skipped"
       [] iocs /= {} /\ meaningful = {"complete"} -> "complete"
       [] iocs /= {} /\ meaningful = {"failed"} -> "failed"
       [] OTHER -> "partial"

\* A payload replaces the provider's earlier one; without one that stays.
Merged(old, answer) ==
  [k \in DOMAIN old |-> IF k \in DOMAIN answer.records THEN answer.records[k] ELSE old[k]]

\* The alert after one run.
Enriched(a, vt, misp) ==
  [a EXCEPT !.vt = Merged(@, vt), !.misp = Merged(@, misp),
            !.allowed = [k \in a.iocs |-> \E n \in DOMAIN allowlist : Matches(allowlist[n], k)],
            !.status = ChainStatus(a.iocs, vt, misp)]

Assessed(a, raised) ==
  LET risk == Score(a, raised)
  IN [a EXCEPT !.risk = risk, !.decision = Decide(risk, a)]

-----------------------------------------------------------------------------
(* The ingest handler and the late-enrichment sweep *)

\* normalize_wazuh_alert, apply_asset_inventory and extract_iocs.
Canonical(event) ==
  LET iocs == Extract(event.fields)
  IN [rule |-> event.rule, tier |-> TierOf(event), dedupe |-> event.dedupe, iocs |-> iocs,
      vt |-> [k \in iocs |-> NotLookedUp], misp |-> [k \in iocs |-> NotLookedUp],
      allowed |-> [k \in iocs |-> FALSE], status |-> "skipped",
      risk |-> Absent, decision |-> Absent, event |-> event]

VtAnswers(iocs) == Answers(VtRecords, {k \in iocs : k.type \in VtTypes})
MispAnswers(iocs) == Answers(MispRecords, iocs)

Ingest(event) ==
  /\ stage = "serving"
  /\ alert = {}
  /\ LET a == Canonical(event)
     IN \E vt \in VtAnswers(a.iocs), misp \in MispAnswers(a.iocs), raised \in BOOLEAN :
          alert' = {Assessed(Enriched(a, vt, misp), raised)}
  /\ UNCHANGED <<stage, assets, inventory, entries, allowlist>>

\* What _enrichment_fingerprint compares: the payloads, not the status.
Fingerprint(a) == <<a.vt, a.misp, a.allowed>>

\* Mutant of Reassess: the new records are stored with the old assessment.
Reassess_KeepsRisk ==
  /\ stage = "serving"
  /\ \E a \in alert : \E vt \in VtAnswers(a.iocs), misp \in MispAnswers(a.iocs) :
       alert' = {Enriched(a, vt, misp)}
  /\ UNCHANGED <<stage, assets, inventory, entries, allowlist>>

\* reassess_persisted_if_changed.
Reassess ==
  /\ stage = "serving"
  /\ \E a \in alert : \E vt \in VtAnswers(a.iocs), misp \in MispAnswers(a.iocs) :
       LET enriched == Enriched(a, vt, misp)
       IN /\ Fingerprint(enriched) /= Fingerprint(a)
          /\ \E raised \in BOOLEAN : alert' = {Assessed(enriched, raised)}
  /\ UNCHANGED <<stage, assets, inventory, entries, allowlist>>

Init == /\ stage = "assets"
        /\ assets = <<>> /\ inventory = <<>>
        /\ entries = <<>> /\ allowlist = <<>>
        /\ alert = {}

Next == \/ \E r \in AssetFile : LoadAsset(r)
        \/ AssetsLoaded
        \/ \E e \in AllowFile : LoadEntry(e)
        \/ EntriesLoaded
        \/ \E event \in Events : Ingest(event)
        \/ Reassess

Spec == Init /\ [][Next]_vars

-----------------------------------------------------------------------------
(* Properties *)

Answered(found, r) == \E q \in found : SameContent(q, r)

\* Whatever order the inventory lists its records in, and whichever repetitions
\* were dropped, each record is the answer for every agent, every address and
\* the name it lists, an agent before an address and an address before a name
\* (asset_inventory_from_mapping, AssetInventory.lookup).
ListedAssetsAnswer ==
  stage /= "refused" =>
    \A m, n \in DOMAIN assets :
      /\ \A agent \in Agents(assets[n]), ip \in Ips(assets[m]) \cup {Absent} :
           Answered(Lookup(agent, ip, assets[m].name), assets[n])
      /\ \A ip \in Ips(assets[n]) : Answered(Lookup(Absent, ip, assets[m].name), assets[n])
      /\ Answered(Lookup(Absent, Absent, assets[n].name), assets[n])

\* What an operator means by an entry: the indicator, or every address that
\* agrees with it in the network's bits.
Covers(e, k) ==
  /\ e.type = k.type
  /\ IF IsNetwork(e) THEN e.value \div e.block = k.value \div e.block ELSE Text(e) = k.value

\* An alert in which extraction finds an indicator that an entry covers, however
\* the two are spelled, is decided as an allowlisted one, at ingest and after
\* every late enrichment, unless it has more indicators than are kept; and none
\* is marked that no entry covers, as the neighbour of a block would be
\* (allowlist_from_mapping, extract_iocs, EnrichmentChain.enrich, decide).
AllowlistedIsSuppressed ==
  \A a \in alert :
    /\ Cardinality(Found(a.event.fields)) <= MaxIocs =>
         \A n \in DOMAIN entries, k \in Found(a.event.fields) :
           Covers(entries[n], k) => a.decision.action = AllowlistedAction
    /\ \A k \in a.iocs : a.allowed[k] => \E n \in DOMAIN entries : Covers(entries[n], k)

\* _score_section: the stored score is the clipped sum of the stored factors.
Reconciles(risk) == risk.score = Clamp(Total(risk.factors))

\* The stored assessment is about the stored evidence: it reconciles, its score
\* is within 0 to 100 and within its tier's band, and unless the engine failed
\* its factors and decision are those of the indicators as they are now
\* (score_alert, reassess_persisted_if_changed, _score_section).
StoredVerdictStands ==
  \A a \in alert :
    /\ Reconciles(a.risk)
    /\ \E n \in DOMAIN Tiers : /\ Tiers[n].name = a.risk.tier
                               /\ a.risk.score \in Tiers[n].min..Tiers[n].max
    /\ a.risk.degraded \/ a.risk.factors = Factors(a)
    /\ a.decision = Decide(a.risk, a)

Lost(old, new) == new = old \/ ~Available(new)

Stronger(old, new) ==
  \/ new = old
  \/ /\ Available(new)
     /\ Available(old) => /\ new.malicious >= old.malicious
                          /\ new.suspicious >= old.suspicious
                          /\ new.matches >= old.matches
                          /\ old.actor => new.actor

OnlyLost(a, b) == \A k \in a.iocs : Lost(a.vt[k], b.vt[k]) /\ Lost(a.misp[k], b.misp[k])

OnlyStronger(a, b) ==
  \A k \in a.iocs : Stronger(a.vt[k], b.vt[k]) /\ Stronger(a.misp[k], b.misp[k])

\* A late enrichment that only loses records never raises the score, and one
\* that only adds or hardens verdicts never lowers it, as long as the coverage
\* credited moves the same way (_threat_intel_factor, _virustotal_award).
ScoreFollowsIntelligence ==
  [][\A a \in alert, b \in alert' :
       LET gain == EnrichmentStatus(b.status) - EnrichmentStatus(a.status)
       IN ~a.risk.degraded /\ ~b.risk.degraded =>
            /\ gain <= 0 /\ OnlyLost(a, b) => b.risk.score <= a.risk.score
            /\ gain >= 0 /\ OnlyStronger(a, b) => b.risk.score >= a.risk.score]_alert
=============================================================================
