---------------------------- MODULE MCAssessment ----------------------------
(* The bundled policies, and events around their boundaries. *)
EXTENDS Assessment

Band(lo, hi, p) == [min |-> lo, max |-> hi, points |-> p]
MCSeverity == <<Band(0, 2, 0), Band(3, 4, 6), Band(5, 6, 14), Band(7, 8, 22), Band(9, 10, 30),
                Band(11, 15, 40)>>
MCGroups == [max |-> 15, group |-> 4, mitre |-> 4, multi |-> 3, threshold |-> 2]
MCCriticality == [unknown |-> 8,
                  bands |-> [critical |-> 25, high |-> 18, medium |-> 10, low |-> 5],
                  aliases |-> <<[band |-> "critical", labels |-> {"critical"}],
                                [band |-> "high", labels |-> {"high", "tier-1"}],
                                [band |-> "medium", labels |-> {"medium", "standard"}],
                                [band |-> "low", labels |-> {"low", "tier-3"}]>>]
MCRecurrence ==
  [max |-> 20, rules |-> <<[occurrences |-> 3, span |-> 900, points |-> 12],
                           [occurrences |-> 5, span |-> 900, points |-> 6],
                           [occurrences |-> 10, span |-> 86400, points |-> 8]>>]
MCEvidence == [max |-> 15, each |-> 3, counted |-> 5]
MCCoverage == [complete |-> 5, partial |-> 2, skipped |-> 0]
MCIntel == [max |-> 25, types |-> {"domain", "ipv4", "md5", "url"}, high_min |-> 10, high |-> 15,
            low |-> 8, suspicious_min |-> 1, suspicious |-> 4, match |-> 10, actor |-> 5]
Tier(name, lo, hi) == [name |-> name, min |-> lo, max |-> hi]
MCTiers == <<Tier("informational", 0, 24), Tier("low", 25, 44), Tier("medium", 45, 69),
             Tier("high", 70, 84), Tier("critical", 85, 100)>>
Do(action, severity) == [action |-> action, severity |-> severity]
MCActions == [informational |-> Do("monitor", "none"), low |-> Do("monitor", "none"),
              medium |-> Do("queue_l1", "none"), high |-> Do("open_incident", "SEV2"),
              critical |-> Do("open_incident", "SEV1")]

\* Addresses 0 (10.0.0.9, private) and 1 to 4 (203.0.113.9 to .12); emails 1 and
\* 2 of domain 1, the first in capitals; URLs 0 of address 3, 1 and 2 of domain 1,
\* the first with its path in capitals.
MCFieldType == [srcip |-> "ipv4", user |-> "email", link |-> "url", text |-> "text", log |-> "log"]
MCTextPlace == [address \in 0..4 |-> <<0, 4, 1, 2, 3>>[address + 1]]
MCInCapitals == [email |-> <<1, 1>>, url |-> [u \in 0..2 |-> <<0, 1, 1>>[u + 1]]]
MCInside ==
  [email |-> [n \in 1..2 |-> {[type |-> "domain", value |-> 1]}],
   url |-> [u \in 0..2 |-> {IF u = 0 THEN [type |-> "ipv4", value |-> 3]
                                    ELSE [type |-> "domain", value |-> 1]}]]
S(type, value, form) == [type |-> type, value |-> value, form |-> form]

Asset(name, tier, agents, ips) ==
  [name |-> name, tier |-> tier, owner |-> "ops", agents |-> agents, ips |-> ips]
Web == Asset(<<"web", "Web">>, "high", <<"001">>, <<"10.1", "10.2">>)
Db == Asset(<<"db", "db">>, "critical", <<"002">>, <<"10.3", "10.5">>)
\* Repetitions in another spelling, with the addresses in another order and with
\* other content; an address of another record; identifiers missing or no tier.
MCAssetFile ==
  {Web, Db, [Web EXCEPT !.name = <<"web", "WEB">>],
   [Db EXCEPT !.ips = <<"10.5", "10.3">>], [Db EXCEPT !.tier = "low"],
   Asset(<<"proxy", "proxy">>, "medium", <<"003">>, <<"10.2">>),
   Asset(<<"nas", "nas">>, "low", <<>>, <<"10.4">>),
   Asset(<<"printer", "printer">>, "absent", <<"004">>, <<>>)}

Entry(id, type, value, form, block) ==
  [id |-> id, type |-> type, value |-> value, form |-> form, block |-> block, reason |-> "lab"]
MCAllowFile == {Entry("lab", "ipv4", 3, "plain", 2), Entry("lab", "domain", 1, "upper", 1),
                Entry("site", "domain", 1, "defanged", 1), Entry("mail", "email", 2, "upper", 1),
                Entry("bad", "ipv4", 2, "defanged", 1)}

Rule(level, groups, technique, tactics) ==
  [level |-> level, groups |-> groups, technique |-> technique, tactics |-> tactics]
Seen(occurrences, span) == [occurrences |-> occurrences, span |-> span]
Event(rule, agent, ip, name, tier, dedupe, fields) ==
  [rule |-> rule, agent |-> agent, ip |-> ip, name |-> name, tier |-> tier, dedupe |-> dedupe,
   fields |-> fields]
Known == <<"web", "web">>
Unknown == <<"kiosk", "kiosk">>
MCEvents ==
  { Event(Rule(12, 4, TRUE, 2), "001", "10.3", Unknown, "absent", Seen(10, 900),
          [srcip |-> {S("ipv4", 2, "plain")}]),
    Event(Rule(5, 0, FALSE, 0), "003", "10.2", Db.name, "absent", Seen(3, 901),
          [srcip |-> {S("ipv4", 0, "plain")}, text |-> {S("url", 0, "upper")}]),
    Event(Rule(8, 1, TRUE, 1), "003", "10.5", Unknown, "tier-3", Seen(3, 900),
          [srcip |-> {S("ipv4", 1, "plain"), S("ipv4", 2, "plain")},
           text |-> {S("url", 0, "defanged"), S("ipv4", 3, "defanged")},
           log |-> {S("domain", 2, "plain")}]),
    Event(Rule(2, 0, FALSE, 0), "001", "10.1", Known, "absent", Seen(1, 0),
          [text |-> {S("email", 2, "plain"), S("ipv4", 3, "plain")}]),
    Event(Rule(0, 0, FALSE, 0), "003", "10.4", Known, "absent", Seen(1, 0),
          [log |-> {S("ipv4", 3, "plain")}]),
    Event(Rule(2, 0, FALSE, 0), "003", "10.4", Unknown, "absent", Seen(1, 0),
          [srcip |-> {S("ipv4", 4, "plain")}]),
    Event(Rule(2, 0, FALSE, 0), "003", "10.4", Unknown, "absent", Seen(1, 0),
          [user |-> {S("email", 2, "upper")}]),
    Event(Rule(2, 0, FALSE, 0), "003", "10.4", Unknown, "absent", Seen(1, 0),
          [text |-> {S("domain", 1, "upper")}]),
    Event(Rule(2, 0, FALSE, 0), "003", "10.4", Unknown, "absent", Seen(1, 0),
          [link |-> {S("url", 2, "upper")}]) }

Vt(status, malicious, suspicious) ==
  [NotLookedUp EXCEPT !.status = status, !.malicious = malicious, !.suspicious = suspicious]
MCVtRecords == {Vt("error", 0, 0), Vt("found", 0, 1), Vt("found", 1, 0), Vt("found", 10, 1)}
MCMispRecords == {[NotLookedUp EXCEPT !.status = "timeout"],
                  [NotLookedUp EXCEPT !.status = "found", !.matches = 1, !.actor = TRUE]}

\* Bound of the exploration: an inventory is served from if it is empty or has the
\* two servers, the database first; all the others are only loaded.
ServedInventories == stage = "assets" \/ assets \in {<<>>, <<Db, Web>>}
=============================================================================
