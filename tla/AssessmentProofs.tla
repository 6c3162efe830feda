-------------------------- MODULE AssessmentProofs --------------------------
(***************************************************************************)
(* Proofs about Assessment, for every inventory and allowlist file, every  *)
(* event and every policy: the inventory answers for each identifier it    *)
(* lists, an allowlisted indicator decides the alert, the stored verdict   *)
(* is that of the stored evidence, and the score follows what a late       *)
(* enrichment learnt.                                                      *)
(***************************************************************************)
EXTENDS Assessment, FiniteSetTheorems, NaturalsInduction, WellFoundedInduction, TLAPS

(* The accepted records share neither names nor identifiers, and every     *)
(* record listed so far has a namesake among them with its content.        *)
Separate(a, b) == /\ Fold(a.name) # Fold(b.name)
                  /\ Agents(a) \cap Agents(b) = {}
                  /\ Ips(a) \cap Ips(b) = {}

InventorySound ==
  /\ assets \in Seq(AssetFile)
  /\ inventory \in Seq(AssetFile)
  /\ \A m, n \in DOMAIN inventory : m # n => Separate(inventory[m], inventory[n])
  /\ stage # "refused" =>
       \A n \in DOMAIN assets :
         \E m \in DOMAIN inventory : /\ Fold(inventory[m].name) = Fold(assets[n].name)
                                     /\ SameContent(inventory[m], assets[n])

LEMMA Appended ==
  ASSUME NEW S, NEW s \in Seq(S), NEW e \in S
  PROVE  /\ Append(s, e) \in Seq(S)
         /\ DOMAIN Append(s, e) = DOMAIN s \cup {Len(s) + 1}
         /\ Len(s) + 1 \notin DOMAIN s
         /\ Append(s, e)[Len(s) + 1] = e
         /\ \A n \in DOMAIN s : Append(s, e)[n] = s[n]
OBVIOUS

LEMMA InSequence ==
  ASSUME NEW S, NEW s \in Seq(S)
  PROVE  DOMAIN s \in SUBSET Nat /\ \A n \in DOMAIN s : s[n] \in S
OBVIOUS

(* A record that repeats an accepted one, and one that is accepted.        *)
LEMMA LoadStep ==
  ASSUME InventorySound, NEW r \in AssetFile, LoadAsset(r)
  PROVE  InventorySound'
<1> DEFINE k == Len(assets) + 1
<1>1. /\ assets' \in Seq(AssetFile)
      /\ DOMAIN assets' = DOMAIN assets \cup {k}
      /\ assets'[k] = r
      /\ \A n \in DOMAIN assets : assets'[n] = assets[n]
  BY Appended DEF LoadAsset, InventorySound
<1> HIDE DEF k
<1>2. stage # "refused"
  BY DEF LoadAsset
<1>3. CASE stage' = "refused" /\ UNCHANGED inventory
  BY <1>1, <1>3 DEF InventorySound
<1>4. CASE /\ Namesake(r) # {} /\ \A n \in Namesake(r) : SameContent(inventory[n], r)
           /\ UNCHANGED <<stage, inventory>>
  <2>1. PICK m \in DOMAIN inventory : /\ Fold(inventory[m].name) = Fold(r.name)
                                      /\ SameContent(inventory[m], r)
    BY <1>4 DEF Namesake
  <2>2. \A n \in DOMAIN assets' :
          \E q \in DOMAIN inventory : /\ Fold(inventory[q].name) = Fold(assets'[n].name)
                                      /\ SameContent(inventory[q], assets'[n])
    BY <1>1, <1>2, <2>1 DEF InventorySound
  <2> QED
    BY <1>1, <1>4, <2>2 DEF InventorySound
<1>5. CASE /\ Namesake(r) = {} /\ ~Claimed(r)
           /\ inventory' = Append(inventory, r)
           /\ UNCHANGED stage
  <2> DEFINE q == Len(inventory) + 1
  <2>1. /\ inventory' \in Seq(AssetFile)
        /\ DOMAIN inventory' = DOMAIN inventory \cup {q}
        /\ q \notin DOMAIN inventory
        /\ inventory'[q] = r
        /\ \A n \in DOMAIN inventory : inventory'[n] = inventory[n]
    BY <1>5, Appended DEF InventorySound
  <2> HIDE DEF q
  <2>2. \A n \in DOMAIN inventory : Separate(inventory[n], r) /\ Separate(r, inventory[n])
    BY <1>5 DEF Namesake, Claimed, Separate
  <2>3. \A m, n \in DOMAIN inventory' : m # n => Separate(inventory'[m], inventory'[n])
    BY <2>1, <2>2 DEF InventorySound
  <2>4. Fold(inventory'[q].name) = Fold(r.name) /\ SameContent(inventory'[q], r)
    BY <2>1 DEF SameContent
  <2>5. ASSUME NEW n \in DOMAIN assets'
        PROVE  \E m \in DOMAIN inventory' :
                 /\ Fold(inventory'[m].name) = Fold(assets'[n].name)
                 /\ SameContent(inventory'[m], assets'[n])
    <3>1. CASE n = k
      BY <1>1, <2>1, <2>4, <3>1
    <3>2. CASE n \in DOMAIN assets
      <4>1. PICK m \in DOMAIN inventory : /\ Fold(inventory[m].name) = Fold(assets[n].name)
                                          /\ SameContent(inventory[m], assets[n])
        BY <1>2, <3>2 DEF InventorySound
      <4> QED
        BY <1>1, <2>1, <3>2, <4>1
    <3> QED
      BY <1>1, <3>1, <3>2
  <2> QED
    BY <1>1, <2>1, <2>3, <2>5 DEF InventorySound
<1> QED
  BY <1>3, <1>4, <1>5 DEF LoadAsset

LEMMA InventoryInit == Init => InventorySound
<1> SUFFICES ASSUME Init PROVE InventorySound
  OBVIOUS
<1>1. <<>> \in Seq(AssetFile) /\ DOMAIN <<>> = {}
  OBVIOUS
<1> QED
  BY <1>1 DEF Init, InventorySound

LEMMA InventoryStep == InventorySound /\ [Next]_vars => InventorySound'
<1> SUFFICES ASSUME InventorySound, [Next]_vars PROVE InventorySound'
  OBVIOUS
<1>1. ASSUME NEW r \in AssetFile, LoadAsset(r) PROVE InventorySound'
  BY <1>1, LoadStep
<1>2. CASE UNCHANGED <<assets, inventory>> /\ (stage = "refused" => stage' = "refused")
  BY <1>2 DEF InventorySound
<1>3. CASE \E r \in AssetFile : LoadAsset(r)
  BY <1>1, <1>3
<1>4. CASE AssetsLoaded
  BY <1>2, <1>4 DEF AssetsLoaded
<1>5. CASE \E e \in AllowFile : LoadEntry(e)
  BY <1>2, <1>5 DEF LoadEntry
<1>6. CASE EntriesLoaded
  BY <1>2, <1>6 DEF EntriesLoaded
<1>7. CASE \E event \in Events : Ingest(event)
  BY <1>2, <1>7 DEF Ingest
<1>8. CASE Reassess
  BY <1>2, <1>8 DEF Reassess
<1>9. CASE UNCHANGED vars
  BY <1>2, <1>9 DEF vars
<1> QED
  BY <1>3, <1>4, <1>5, <1>6, <1>7, <1>8, <1>9 DEF Next

(* A key that one record holds alone leads to it.                          *)
LEMMA LastOfOne ==
  ASSUME NEW m \in Nat
  PROVE  LastOf({m}) = inventory[m]
BY DEF LastOf

LEMMA SoundAnswers == InventorySound => ListedAssetsAnswer
<1> SUFFICES ASSUME InventorySound, stage # "refused",
                    NEW n \in DOMAIN assets
             PROVE  \A name :
                      /\ \A ip : \A agent \in Agents(assets[n]) :
                           Answered(Lookup(agent, ip, name), assets[n])
                      /\ \A ip \in Ips(assets[n]) : Answered(Lookup(Absent, ip, name), assets[n])
                      /\ Answered(Lookup(Absent, Absent, assets[n].name), assets[n])
  BY DEF ListedAssetsAnswer
<1>1. PICK m \in DOMAIN inventory : /\ Fold(inventory[m].name) = Fold(assets[n].name)
                                    /\ SameContent(inventory[m], assets[n])
  BY DEF InventorySound
<1>2. m \in Nat /\ LastOf({m}) = inventory[m]
  <2>1. inventory \in Seq(AssetFile)
    BY DEF InventorySound
  <2>2. m \in Nat
    BY <2>1, InSequence
  <2> QED BY <2>2, LastOfOne
<1>3. \A q \in DOMAIN inventory : q # m => Separate(inventory[q], inventory[m])
  BY DEF InventorySound
<1>4. \A q \in DOMAIN inventory : Absent \notin Agents(inventory[q]) /\ Absent \notin Ips(inventory[q])
  <2>1. \A q \in DOMAIN inventory : inventory[q] \in AssetFile
    BY DEF InventorySound
  <2> QED
    BY <2>1, IdentifiersAssumption DEF Absent, Agents, Ips
<1>5. Agents(inventory[m]) = Agents(assets[n]) /\ Ips(inventory[m]) = Ips(assets[n])
  BY <1>1 DEF SameContent, Agents, Ips
<1>6. Answered({inventory[m]}, assets[n])
  BY <1>1 DEF Answered
<1>7. ASSUME NEW agent \in Agents(assets[n]), NEW ip, NEW name
      PROVE  Answered(Lookup(agent, ip, name), assets[n])
  <2>1. {q \in DOMAIN inventory : agent \in Agents(inventory[q])} = {m}
    BY <1>1, <1>3, <1>5 DEF Separate
  <2>2. Lookup(agent, ip, name) = {inventory[m]}
    BY <1>2, <2>1 DEF Lookup
  <2> QED
    BY <1>6, <2>2
<1>8. {q \in DOMAIN inventory : Absent \in Agents(inventory[q])} = {}
  BY <1>4
<1>9. ASSUME NEW ip \in Ips(assets[n]), NEW name
      PROVE  Answered(Lookup(Absent, ip, name), assets[n])
  <2>1. {q \in DOMAIN inventory : ip \in Ips(inventory[q])} = {m}
    BY <1>1, <1>3, <1>5 DEF Separate
  <2>2. Lookup(Absent, ip, name) = {inventory[m]}
    BY <1>2, <1>8, <2>1 DEF Lookup
  <2> QED
    BY <1>6, <2>2
<1>10. Answered(Lookup(Absent, Absent, assets[n].name), assets[n])
  <2>1. {q \in DOMAIN inventory : Absent \in Ips(inventory[q])} = {}
    BY <1>4
  <2>2. {q \in DOMAIN inventory : Fold(inventory[q].name) = Fold(assets[n].name)} = {m}
    BY <1>1, <1>3 DEF Separate
  <2>3. Lookup(Absent, Absent, assets[n].name) = {inventory[m]}
    BY <1>2, <1>8, <2>1, <2>2 DEF Lookup
  <2> QED
    BY <1>6, <2>3
<1> QED
  BY <1>7, <1>9, <1>10

(* Every record of an inventory file that the service accepts is the       *)
(* answer for each agent, each address and the name it lists, whatever     *)
(* order the file lists its records in and whichever repetitions are       *)
(* dropped (asset_inventory_from_mapping, AssetInventory.lookup).          *)
THEOREM InventoryAnswers == Spec => []ListedAssetsAnswer
BY InventoryInit, InventoryStep, SoundAnswers, PTL DEF Spec

-----------------------------------------------------------------------------
(* The allowlist: every entry listed so far has an accepted one with its   *)
(* key, and an alert of record marks the indicators that an entry matches. *)

Alike(a, b) == a.type = b.type /\ EntryKey(a) = EntryKey(b)

Parts == {"rule", "tier", "dedupe", "iocs", "vt", "misp", "allowed", "status", "risk", "decision",
          "event"}

AlertSound(a, list) ==
  /\ Parts \subseteq DOMAIN a
  /\ a.event \in Events
  /\ a.iocs = Extract(a.event.fields)
  /\ a.allowed = [k \in a.iocs |-> \E n \in DOMAIN list : Matches(list[n], k)]
  /\ Allowlisted(a) => a.decision.action = AllowlistedAction

AllowlistSound ==
  /\ entries \in Seq(AllowFile)
  /\ allowlist \in Seq(AllowFile)
  /\ \A m \in DOMAIN allowlist : /\ ValidEntry(allowlist[m])
                                /\ \E n \in DOMAIN entries : entries[n] = allowlist[m]
  /\ stage # "refused" =>
       \A n \in DOMAIN entries :
         /\ ValidEntry(entries[n])
         /\ \E m \in DOMAIN allowlist : Alike(allowlist[m], entries[n])
  /\ alert # {} => stage = "serving"
  /\ \A a \in alert : AlertSound(a, allowlist)

\* The indicators that an accepted entry covers, as the chain marks them.
Marked(iocs) == [k \in iocs |-> \E n \in DOMAIN allowlist : Matches(allowlist[n], k)]

LEMMA EnrichedParts ==
  ASSUME NEW a, Parts \subseteq DOMAIN a, NEW vt, NEW misp
  PROVE  LET b == Enriched(a, vt, misp)
         IN  /\ Parts \subseteq DOMAIN b
             /\ b.rule = a.rule /\ b.tier = a.tier /\ b.dedupe = a.dedupe
             /\ b.iocs = a.iocs /\ b.event = a.event
             /\ b.vt = Merged(a.vt, vt) /\ b.misp = Merged(a.misp, misp)
             /\ b.allowed = Marked(a.iocs)
             /\ b.status = ChainStatus(a.iocs, vt, misp)
<1> DEFINE Kept(b) == /\ DOMAIN b = DOMAIN a
                      /\ b.rule = a.rule /\ b.tier = a.tier /\ b.dedupe = a.dedupe
                      /\ b.iocs = a.iocs /\ b.event = a.event
<1> DEFINE allowed == Marked(a.iocs)
<1> DEFINE status == ChainStatus(a.iocs, vt, misp)
<1> DEFINE newVt == Merged(a.vt, vt)
<1> DEFINE newMisp == Merged(a.misp, misp)
<1> DEFINE b1 == [a EXCEPT !.vt = newVt]
<1> DEFINE b2 == [b1 EXCEPT !.misp = newMisp]
<1> DEFINE b3 == [b2 EXCEPT !.allowed = allowed]
<1> DEFINE b4 == [b3 EXCEPT !.status = status]
<1>0. Enriched(a, vt, misp) = b4
  <2>1. [a EXCEPT !.vt = Merged(@, vt)] = b1 /\ b1.misp = a.misp
    BY DEF Parts
  <2> HIDE DEF b1, allowed, status
  <2> QED BY <2>1 DEF Enriched, Marked, allowed, status
<1> HIDE DEF allowed, status, newVt, newMisp
<1>1. Kept(b1) /\ b1.vt = newVt
  BY DEF Parts
<1> HIDE DEF b1
<1>2. Kept(b2) /\ b2.vt = newVt /\ b2.misp = newMisp
  BY <1>1 DEF Parts
<1> HIDE DEF b2
<1>3. Kept(b3) /\ b3.vt = newVt /\ b3.misp = newMisp /\ b3.allowed = allowed
  BY <1>2 DEF Parts
<1> HIDE DEF b3
<1>4. Kept(b4) /\ b4.vt = newVt /\ b4.misp = newMisp /\ b4.allowed = allowed /\ b4.status = status
  BY <1>3 DEF Parts
<1> HIDE DEF b4
<1> QED
  BY <1>0, <1>4 DEF allowed, status, newVt, newMisp

\* What the factors are computed from.
SameEvidence(a, b) ==
  /\ a.rule = b.rule /\ a.tier = b.tier /\ a.dedupe = b.dedupe /\ a.iocs = b.iocs
  /\ a.vt = b.vt /\ a.misp = b.misp /\ a.allowed = b.allowed /\ a.status = b.status

LEMMA AssessedParts ==
  ASSUME NEW a, Parts \subseteq DOMAIN a, NEW raised
  PROVE  LET b == Assessed(a, raised)
         IN  /\ Parts \subseteq DOMAIN b /\ b.event = a.event
             /\ SameEvidence(b, a)
             /\ b.risk = Score(a, raised) /\ b.decision = Decide(Score(a, raised), a)
<1> DEFINE risk == Score(a, raised)
<1> DEFINE decision == Decide(risk, a)
<1> DEFINE b1 == [a EXCEPT !.risk = risk]
<1> DEFINE b2 == [b1 EXCEPT !.decision = decision]
<1>0. Assessed(a, raised) = b2
  BY DEF Assessed
<1> HIDE DEF risk, decision
<1>1. DOMAIN b1 = DOMAIN a /\ b1.event = a.event /\ b1.risk = risk /\ SameEvidence(b1, a)
  BY DEF Parts, SameEvidence
<1> HIDE DEF b1
<1>2. /\ DOMAIN b2 = DOMAIN a /\ b2.event = a.event /\ b2.risk = risk /\ b2.decision = decision
      /\ SameEvidence(b2, b1)
  BY <1>1 DEF Parts, SameEvidence
<1> HIDE DEF b2
<1> QED
  BY <1>0, <1>1, <1>2 DEF SameEvidence, risk, decision

LEMMA AssessedSound ==
  ASSUME NEW a, Parts \subseteq DOMAIN a, NEW raised,
         a.event \in Events, a.iocs = Extract(a.event.fields),
         a.allowed = Marked(a.iocs)
  PROVE  AlertSound(Assessed(a, raised), allowlist)
<1> DEFINE b == Assessed(a, raised)
<1>1. /\ Parts \subseteq DOMAIN b /\ b.event = a.event /\ b.iocs = a.iocs /\ b.allowed = a.allowed
      /\ b.decision = Decide(Score(a, raised), a)
  BY AssessedParts DEF SameEvidence
<1> HIDE DEF b
<1>2. Allowlisted(b) => b.decision.action = AllowlistedAction
  BY <1>1 DEF Allowlisted, Decide
<1> QED
  BY <1>1, <1>2 DEF AlertSound, Marked, b

LEMMA AllowlistInit == Init => AllowlistSound
<1> SUFFICES ASSUME Init PROVE AllowlistSound
  OBVIOUS
<1>1. <<>> \in Seq(AllowFile) /\ DOMAIN <<>> = {}
  OBVIOUS
<1> QED
  BY <1>1 DEF Init, AllowlistSound

LEMMA EntryStep ==
  ASSUME AllowlistSound, NEW e \in AllowFile, LoadEntry(e)
  PROVE  AllowlistSound'
<1> DEFINE k == Len(entries) + 1
<1>1. /\ entries' \in Seq(AllowFile)
      /\ DOMAIN entries' = DOMAIN entries \cup {k}
      /\ entries'[k] = e
      /\ \A n \in DOMAIN entries : entries'[n] = entries[n]
  BY Appended DEF LoadEntry, AllowlistSound
<1> HIDE DEF k
<1>2. \A m \in DOMAIN allowlist : /\ ValidEntry(allowlist[m])
                                 /\ \E n \in DOMAIN entries' : entries'[n] = allowlist[m]
  BY <1>1 DEF AllowlistSound
<1>3. alert' = {} /\ stage # "refused"
  BY DEF LoadEntry, AllowlistSound
<1>4. CASE stage' = "refused" /\ UNCHANGED allowlist
  BY <1>1, <1>3, <1>4, <1>2 DEF AllowlistSound
<1>5. CASE /\ ValidEntry(e) /\ UNCHANGED <<stage, allowlist>>
           /\ \E m \in DOMAIN allowlist : Alike(allowlist[m], e)
  <2>1. \A n \in DOMAIN entries' :
          /\ ValidEntry(entries'[n])
          /\ \E m \in DOMAIN allowlist : Alike(allowlist[m], entries'[n])
    BY <1>1, <1>3, <1>5 DEF AllowlistSound
  <2> QED
    BY <1>1, <1>3, <1>5, <1>2, <2>1 DEF AllowlistSound
<1>6. CASE ValidEntry(e) /\ allowlist' = Append(allowlist, e) /\ UNCHANGED stage
  <2> DEFINE q == Len(allowlist) + 1
  <2>1. /\ allowlist' \in Seq(AllowFile)
        /\ DOMAIN allowlist' = DOMAIN allowlist \cup {q}
        /\ allowlist'[q] = e
        /\ \A n \in DOMAIN allowlist : allowlist'[n] = allowlist[n]
    BY <1>6, Appended DEF AllowlistSound
  <2> HIDE DEF q
  <2>2. Alike(allowlist'[q], e)
    BY <2>1 DEF Alike
  <2>3. ASSUME NEW n \in DOMAIN entries'
        PROVE  /\ ValidEntry(entries'[n])
               /\ \E m \in DOMAIN allowlist' : Alike(allowlist'[m], entries'[n])
    <3>1. CASE n = k
      BY <1>1, <1>6, <2>1, <2>2, <3>1
    <3>2. CASE n \in DOMAIN entries
      <4>1. ValidEntry(entries[n]) /\ \E m \in DOMAIN allowlist : Alike(allowlist[m], entries[n])
        BY <1>3, <3>2 DEF AllowlistSound
      <4> QED
        BY <1>1, <2>1, <3>2, <4>1
    <3> QED
      BY <1>1, <3>1, <3>2
  <2>4. \A m \in DOMAIN allowlist' :
          /\ ValidEntry(allowlist'[m])
          /\ \E n \in DOMAIN entries' : entries'[n] = allowlist'[m]
    BY <1>1, <1>6, <1>2, <2>1
  <2> QED
    BY <1>1, <1>3, <2>1, <2>3, <2>4 DEF AllowlistSound
<1> QED
  BY <1>4, <1>5, <1>6 DEF LoadEntry, Alike

LEMMA AllowlistStep == AllowlistSound /\ [Next]_vars => AllowlistSound'
<1> SUFFICES ASSUME AllowlistSound, [Next]_vars PROVE AllowlistSound'
  OBVIOUS
<1>1. CASE \E e \in AllowFile : LoadEntry(e)
  BY <1>1, EntryStep
<1>2. CASE /\ UNCHANGED <<entries, allowlist, alert>>
           /\ stage = "refused" => stage' = "refused"
           /\ stage = "serving" => stage' = "serving"
  BY <1>2 DEF AllowlistSound
<1>3. CASE \E r \in AssetFile : LoadAsset(r)
  <2>1. UNCHANGED <<entries, allowlist, alert>> /\ stage = "assets"
    BY <1>3 DEF LoadAsset
  <2> QED
    BY <1>2, <2>1
<1>4. CASE AssetsLoaded
  BY <1>2, <1>4 DEF AssetsLoaded
<1>5. CASE EntriesLoaded
  BY <1>2, <1>5 DEF EntriesLoaded
<1>6. ASSUME NEW event \in Events, Ingest(event)
      PROVE  AllowlistSound'
  <2> DEFINE a == Canonical(event)
  <2>1. Parts \subseteq DOMAIN a /\ a.event = event /\ a.iocs = Extract(event.fields)
    BY DEF Canonical, Parts
  <2> HIDE DEF a
  <2>2. PICK vt, misp, raised : alert' = {Assessed(Enriched(a, vt, misp), raised)}
    BY <1>6 DEF Ingest, a
  <2> DEFINE b == Enriched(a, vt, misp)
  <2>3. /\ Parts \subseteq DOMAIN b /\ b.event = a.event /\ b.iocs = a.iocs
        /\ b.allowed = Marked(a.iocs)
    BY <2>1, EnrichedParts
  <2> HIDE DEF b
  <2>5. b.allowed = Marked(b.iocs)
    BY <2>3, Zenon
  <2>6. b.event \in Events /\ b.iocs = Extract(b.event.fields)
    BY <2>1, <2>3
  <2>4. AlertSound(Assessed(b, raised), allowlist)
    BY <2>3, <2>5, <2>6, AssessedSound
  <2> QED
    BY <1>6, <2>2, <2>4 DEF Ingest, AllowlistSound, b
<1>7. CASE Reassess
  <2>1. PICK a \in alert : \E vt, misp, raised :
          alert' = {Assessed(Enriched(a, vt, misp), raised)}
    BY <1>7 DEF Reassess
  <2>2. PICK vt, misp, raised : alert' = {Assessed(Enriched(a, vt, misp), raised)}
    BY <2>1
  <2>3. AlertSound(a, allowlist)
    BY DEF AllowlistSound
  <2>4. AlertSound(Assessed(Enriched(a, vt, misp), raised), allowlist)
    BY <2>3, EnrichedParts, AssessedSound DEF AlertSound
  <2> QED
    BY <1>7, <2>2, <2>4 DEF Reassess, AllowlistSound
<1>8. CASE UNCHANGED vars
  BY <1>2, <1>8 DEF vars
<1> QED
  BY <1>1, <1>3, <1>4, <1>5, <1>6, <1>7, <1>8 DEF Next

(* Addresses that agree in the bits of the network lie in its interval.    *)
LEMMA InNetwork ==
  ASSUME NEW v \in Nat, NEW w \in Nat, NEW b \in Nat \ {0}, v \div b = w \div b
  PROVE  v - (v % b) <= w /\ w <= v - (v % b) + b - 1
<1>1. v = b * (v \div b) + (v % b) /\ w = b * (w \div b) + (w % b)
  OBVIOUS
<1>2. v % b \in 0..(b - 1) /\ w % b \in 0..(b - 1)
  OBVIOUS
<1>3. v \div b \in Int /\ w \div b \in Int /\ b * (v \div b) = b * (w \div b)
  OBVIOUS
<1> QED
  BY <1>1, <1>2, <1>3

LEMMA KeyCovers ==
  ASSUME NEW e \in AllowFile, NEW l \in AllowFile, ValidEntry(e), Alike(l, e),
         NEW k \in [type : Types, value : Nat], Covers(e, k)
  PROVE  Matches(l, k)
<1>1. l.type = e.type /\ EntryKey(l) = EntryKey(e) /\ e.type = k.type
  BY DEF Alike, Covers
<1>2. CASE IsNetwork(e)
  <2>1. EntryKey(e) = <<"block", Network(e)>>
    BY <1>2 DEF EntryKey
  <2>2. IsNetwork(l)
    BY <1>1, <2>1 DEF EntryKey
  <2>3. Network(l) = Network(e)
    BY <1>1, <2>1, <2>2 DEF EntryKey
  <2>4. e.value \in Nat /\ e.block \in Nat \ {0} /\ k.value \in Nat
    BY EntriesAssumption
  <2>5. e.value \div e.block = k.value \div e.block
    BY <1>2 DEF Covers
  <2>6. /\ e.value - (e.value % e.block) <= k.value
        /\ k.value <= e.value - (e.value % e.block) + e.block - 1
    BY <2>4, <2>5, InNetwork
  <2>7. k.value \in Network(e)
    BY <2>4, <2>6 DEF Network
  <2> QED
    BY <1>1, <1>2, <2>2, <2>3, <2>7 DEF Matches, IsNetwork
<1>3. CASE ~IsNetwork(e)
  <2>1. EntryKey(e) = <<"one", Normalized(e.type, e)>>
    BY <1>3 DEF EntryKey
  <2>2. ~IsNetwork(l)
    BY <1>1, <2>1 DEF EntryKey
  <2>3. Normalized(l.type, l) = Normalized(e.type, e)
    BY <1>1, <2>1, <2>2 DEF EntryKey
  <2>4. Normalized(e.type, e) = {[type |-> e.type, value |-> Text(e)]}
    BY DEF ValidEntry, Normalized
  <2>5. k = [type |-> e.type, value |-> Text(e)]
    BY <1>1, <1>3 DEF Covers
  <2> QED
    BY <2>2, <2>3, <2>4, <2>5 DEF Matches
<1> QED
  BY <1>2, <1>3

(* Addresses in the interval of the network agree in its bits.             *)
LEMMA NetworkBits ==
  ASSUME NEW v \in Nat, NEW w \in Nat, NEW b \in Nat \ {0},
         v - (v % b) <= w, w <= v - (v % b) + b - 1
  PROVE  v \div b = w \div b
<1>1. PICK p \in Int, q \in Int : p = v \div b /\ q = w \div b
  OBVIOUS
<1>2. PICK r \in 0..(b - 1), s \in 0..(b - 1) : r = v % b /\ s = w % b
  OBVIOUS
<1>3. v = b * p + r /\ w = b * q + s
  BY <1>1, <1>2
<1>4. b * p \in Int /\ b * q \in Int
  OBVIOUS
<1>5. b * p <= w /\ w < b * p + b
  BY <1>2, <1>3, <1>4
<1>6. ~(q + 1 <= p)
  <2> SUFFICES ASSUME q + 1 <= p
               PROVE  FALSE
    OBVIOUS
  <2>1. b * (q + 1) <= b * p
    OBVIOUS
  <2>2. b * (q + 1) = b * q + b
    OBVIOUS
  <2> QED
    BY <1>2, <1>3, <1>4, <1>5, <2>1, <2>2
<1>7. ~(p + 1 <= q)
  <2> SUFFICES ASSUME p + 1 <= q
               PROVE  FALSE
    OBVIOUS
  <2>1. b * (p + 1) <= b * q
    OBVIOUS
  <2>2. b * (p + 1) = b * p + b
    OBVIOUS
  <2> QED
    BY <1>2, <1>3, <1>4, <1>5, <2>1, <2>2
<1> QED
  BY <1>1, <1>6, <1>7

LEMMA MatchCovers ==
  ASSUME NEW e \in AllowFile, ValidEntry(e), NEW k \in [type : Types, value : Nat],
         Matches(e, k)
  PROVE  Covers(e, k)
<1>1. CASE IsNetwork(e)
  <2>1. e.type = k.type /\ k.value \in Network(e)
    BY <1>1 DEF Matches, IsNetwork
  <2>2. e.value \in Nat /\ e.block \in Nat \ {0} /\ k.value \in Nat
    BY EntriesAssumption
  <2>3. e.value - (e.value % e.block) \in Int
    BY <2>2
  <2>4. /\ e.value - (e.value % e.block) <= k.value
        /\ k.value <= e.value - (e.value % e.block) + e.block - 1
    BY <2>1, <2>2, <2>3 DEF Network
  <2>5. e.value \div e.block = k.value \div e.block
    BY <2>2, <2>4, NetworkBits
  <2> QED
    BY <1>1, <2>1, <2>5 DEF Covers
<1>2. CASE ~IsNetwork(e)
  <2>1. k = [type |-> e.type, value |-> Text(e)]
    BY <1>2 DEF Matches, Normalized
  <2> QED
    BY <1>2, <2>1 DEF Covers
<1> QED
  BY <1>1, <1>2

(* An alert of no more indicators than are kept keeps them all.            *)
LEMMA NothingCut ==
  ASSUME NEW event \in Events, Cardinality(Found(event.fields)) <= MaxIocs,
         NEW k \in Found(event.fields)
  PROVE  k \in Extract(event.fields)
<1> DEFINE F == Found(event.fields)
<1> DEFINE B == {j \in F : Before(j, k)}
<1>1. IsFiniteSet(F) /\ F \subseteq [type : Types, value : Nat]
  BY IndicatorsAssumption
<1>2. k \in [type : Types, value : Nat] /\ Place(k) \in Nat
  BY IndicatorsAssumption
<1>3. ~Before(k, k)
  <2>1. TypeRank[k.type] \in Nat /\ Place(k) \in Nat
    BY <1>2 DEF Types, TypeRank
  <2> QED
    BY <2>1 DEF Before
<1>4. B \subseteq F \ {k}
  BY <1>3
<1>5. Cardinality(F \ {k}) = Cardinality(F) - 1 /\ IsFiniteSet(F \ {k})
  BY <1>1, FS_RemoveElement
<1>6. Cardinality(B) <= Cardinality(F \ {k})
  BY <1>4, <1>5, FS_Subset
<1>7. Cardinality(F) \in Nat /\ Cardinality(B) \in Nat
  BY <1>1, <1>4, <1>5, FS_Subset, FS_CardinalityType
<1>8. Cardinality(B) < MaxIocs
  BY <1>5, <1>6, <1>7, LimitsAssumption
<1> QED
  BY <1>8 DEF Extract

LEMMA SoundSuppresses ==
  ASSUME AllowlistSound, NEW a \in alert, NEW n \in DOMAIN entries,
         NEW k \in Found(a.event.fields), Covers(entries[n], k),
         Cardinality(Found(a.event.fields)) <= MaxIocs
  PROVE  a.decision.action = AllowlistedAction
<1>1. AlertSound(a, allowlist) /\ stage = "serving"
  BY DEF AllowlistSound
<1>2. a.event \in Events /\ k \in a.iocs
  BY <1>1, NothingCut DEF AlertSound
<1>3. PICK m \in DOMAIN allowlist : Alike(allowlist[m], entries[n])
  BY <1>1 DEF AllowlistSound
<1>4. ValidEntry(entries[n]) /\ entries[n] \in AllowFile /\ allowlist[m] \in AllowFile
  BY <1>1, <1>3 DEF AllowlistSound
<1>5. k \in [type : Types, value : Nat]
  BY <1>2, IndicatorsAssumption
<1>6. Matches(allowlist[m], k)
  BY <1>3, <1>4, <1>5, KeyCovers
<1>7. a.allowed[k]
  BY <1>1, <1>2, <1>6 DEF AlertSound
<1> QED
  BY <1>1, <1>2, <1>7 DEF AlertSound, Allowlisted

LEMMA SoundMarks ==
  ASSUME AllowlistSound, NEW a \in alert, NEW k \in a.iocs, a.allowed[k]
  PROVE  \E n \in DOMAIN entries : Covers(entries[n], k)
<1>1. AlertSound(a, allowlist)
  BY DEF AllowlistSound
<1>2. PICK m \in DOMAIN allowlist : Matches(allowlist[m], k)
  BY <1>1 DEF AlertSound
<1>3. PICK n \in DOMAIN entries : entries[n] = allowlist[m]
  BY DEF AllowlistSound
<1>4. ValidEntry(allowlist[m]) /\ allowlist[m] \in AllowFile
  BY DEF AllowlistSound
<1>5. k \in [type : Types, value : Nat]
  BY <1>1, IndicatorsAssumption DEF AlertSound, Extract
<1>6. Covers(allowlist[m], k)
  BY <1>2, <1>4, <1>5, MatchCovers
<1> QED
  BY <1>3, <1>6

(* An alert with an indicator that extraction finds and an entry covers,   *)
(* by itself or by a network, is decided as an allowlisted one at ingest   *)
(* and after every late enrichment, under every policy, as long as it has  *)
(* no more indicators than are kept; and no indicator is marked that no    *)
(* entry covers (allowlist_from_mapping, Allowlist.match,                  *)
(* EnrichmentChain.enrich, decide).                                        *)
THEOREM AllowlistSuppresses == Spec => []AllowlistedIsSuppressed
<1>1. AllowlistSound => AllowlistedIsSuppressed
  BY SoundSuppresses, SoundMarks DEF AllowlistedIsSuppressed
<1> QED
  BY <1>1, AllowlistInit, AllowlistStep, PTL DEF Spec

-----------------------------------------------------------------------------
(* Sums over finite sets.  The folds of the library define a recursive     *)
(* function by CHOOSE; that there is one is shown for the subsets of each  *)
(* size in turn, and so is what is claimed of its values.                  *)

LEMMA LeastOf ==
  ASSUME NEW S \in SUBSET Nat, S # {}
  PROVE  \E x \in S : \A y \in S : x <= y
<1>1. PICK R : R = OpToRel(<, Nat)
  OBVIOUS
<1>2. PICK x \in S : \A y \in S : ~(<<y, x>> \in R)
  BY <1>1, NatLessThanWellFounded, WFMin
<1>3. \A y, z \in Nat : y < z => <<y, z>> \in R
  BY <1>1 DEF OpToRel
<1>4. \A y \in S : x \in Nat /\ y \in Nat /\ ~(y < x)
  BY <1>2, <1>3
<1> QED
  BY <1>4

(* A set of naturals that has 0 and, with each number, the next one.       *)
LEMMA AllNaturals ==
  ASSUME NEW S, 0 \in S, \A k \in Nat : k \in S => k + 1 \in S
  PROVE  Nat \subseteq S
<1> SUFFICES ASSUME Nat \ S # {}
             PROVE  FALSE
  OBVIOUS
<1>1. PICK least \in Nat \ S : \A y \in Nat \ S : least <= y
  BY LeastOf
<1>2. least # 0 /\ least - 1 \in Nat /\ least - 1 \notin Nat \ S /\ (least - 1) + 1 = least
  BY <1>1
<1> QED
  BY <1>1, <1>2

Pick(s) == CHOOSE x \in s : TRUE

\* it gives every subset of S the sum of f over it, as MapThenFoldSet does.
Adds(it, f, S) ==
  it = [s \in SUBSET S |-> IF s = {} THEN 0 ELSE f[Pick(s)] + it[s \ {Pick(s)}]]

SumOf(f, S) == (CHOOSE it : Adds(it, f, S))[S]

LEMMA PickedOne ==
  ASSUME NEW S, IsFiniteSet(S), NEW s \in SUBSET S, s # {}
  PROVE  /\ Pick(s) \in s /\ Pick(s) \in S
         /\ s \ {Pick(s)} \in SUBSET S
         /\ Cardinality(s) \in Nat \ {0}
         /\ Cardinality(s \ {Pick(s)}) = Cardinality(s) - 1
<1>1. Pick(s) \in s
  BY DEF Pick
<1>2. IsFiniteSet(s)
  BY FS_Subset
<1>3. Cardinality(s) \in Nat /\ Cardinality(s) # 0
  BY <1>2, FS_CardinalityType, FS_EmptySet
<1>4. Cardinality(s \ {Pick(s)}) = Cardinality(s) - 1
  BY <1>1, <1>2, FS_RemoveElement
<1> QED
  BY <1>1, <1>3, <1>4

LEMMA AdditionExists ==
  ASSUME NEW f, NEW S, IsFiniteSet(S)
  PROVE  \E it : Adds(it, f, S)
<1> DEFINE D(n) == {s \in SUBSET S : Cardinality(s) <= n}
<1> DEFINE Eq(it, n) ==
      it = [s \in D(n) |-> IF s = {} THEN 0 ELSE f[Pick(s)] + it[s \ {Pick(s)}]]
<1> DEFINE good == {n \in Nat : \E it : Eq(it, n)}
<1>0. \A s \in SUBSET S : IsFiniteSet(s) /\ Cardinality(s) \in Nat
  BY FS_Subset, FS_CardinalityType
<1>1. 0 \in good
  <2>1. ASSUME NEW s \in D(0), s # {}
        PROVE  FALSE
    <3>1. s \in SUBSET S /\ Cardinality(s) <= 0
      OBVIOUS
    <3>2. Cardinality(s) \in Nat \ {0}
      BY <2>1, <3>1, PickedOne
    <3> QED BY <3>1, <3>2
  <2>2. Eq([s \in D(0) |-> 0], 0)
    BY <2>1
  <2> HIDE DEF Eq
  <2> QED BY <2>2
<1>2. ASSUME NEW k \in Nat, k \in good
      PROVE  k + 1 \in good
  <2>1. PICK g : Eq(g, k)
    BY <1>2
  <2>2. PICK h : h = [s \in D(k + 1) |-> IF s = {} THEN 0 ELSE f[Pick(s)] + g[s \ {Pick(s)}]]
    OBVIOUS
  <2>3. ASSUME NEW s \in D(k + 1), s # {}
        PROVE  s \ {Pick(s)} \in D(k)
    BY <1>0, <2>3, PickedOne
  <2>4. \A s \in D(k) : s \in D(k + 1)
    BY <1>0
  <2>5. ASSUME NEW s \in D(k)
        PROVE  h[s] = g[s]
    BY <2>1, <2>2, <2>4, <2>5
  <2> HIDE DEF D
  <2>6. Eq(h, k + 1)
    BY <2>2, <2>3, <2>5
  <2> HIDE DEF Eq
  <2> QED BY <2>6
<1> HIDE DEF good
<1>3. Nat \subseteq good
  BY <1>1, <1>2, AllNaturals
<1>4. PICK it : Eq(it, Cardinality(S))
  BY <1>0, <1>3 DEF good
<1>5. D(Cardinality(S)) = SUBSET S
  BY FS_Subset
<1> QED
  BY <1>4, <1>5 DEF Adds

LEMMA AddedUp ==
  ASSUME NEW it, NEW f, NEW S, Adds(it, f, S)
  PROVE  /\ it[{}] = 0
         /\ \A s \in SUBSET S : s # {} => it[s] = f[Pick(s)] + it[s \ {Pick(s)}]
BY DEF Adds

(* Of integers the sum is one, and larger ones have no smaller sum.        *)
LEMMA SumsCompare ==
  ASSUME NEW S, IsFiniteSet(S), NEW f, NEW g,
         \A x \in S : f[x] \in Int /\ g[x] \in Int /\ f[x] <= g[x]
  PROVE  SumOf(f, S) \in Int /\ SumOf(g, S) \in Int /\ SumOf(f, S) <= SumOf(g, S)
<1>0. \A s \in SUBSET S : IsFiniteSet(s) /\ Cardinality(s) \in Nat
  BY FS_Subset, FS_CardinalityType
<1>1. PICK it, jt : /\ it = CHOOSE i : Adds(i, f, S)
                    /\ jt = CHOOSE i : Adds(i, g, S)
  OBVIOUS
<1>2. Adds(it, f, S)
  BY <1>1, AdditionExists
<1>3. Adds(jt, g, S)
  BY <1>1, AdditionExists
<1>4. /\ it[{}] = 0
      /\ \A s \in SUBSET S : s # {} => it[s] = f[Pick(s)] + it[s \ {Pick(s)}]
  BY <1>2, AddedUp, Zenon
<1>5. /\ jt[{}] = 0
      /\ \A s \in SUBSET S : s # {} => jt[s] = g[Pick(s)] + jt[s \ {Pick(s)}]
  BY <1>3, AddedUp, Zenon
<1> DEFINE good == {n \in Nat : \A s \in SUBSET S : Cardinality(s) = n =>
                                  it[s] \in Int /\ jt[s] \in Int /\ it[s] <= jt[s]}
<1>6. 0 \in good
  <2> SUFFICES ASSUME NEW s \in SUBSET S, Cardinality(s) = 0
               PROVE  it[s] \in Int /\ jt[s] \in Int /\ it[s] <= jt[s]
    OBVIOUS
  <2>1. s = {}
    BY <1>0, FS_EmptySet
  <2> QED BY <1>4, <1>5, <2>1
<1>7. ASSUME NEW k \in Nat, k \in good
      PROVE  k + 1 \in good
  <2> SUFFICES ASSUME NEW s \in SUBSET S, Cardinality(s) = k + 1
               PROVE  it[s] \in Int /\ jt[s] \in Int /\ it[s] <= jt[s]
    OBVIOUS
  <2>1. s # {}
    BY FS_EmptySet
  <2>2. /\ Pick(s) \in S /\ s \ {Pick(s)} \in SUBSET S
        /\ Cardinality(s \ {Pick(s)}) = Cardinality(s) - 1
    BY <2>1, PickedOne
  <2>3. Cardinality(s \ {Pick(s)}) = k
    BY <2>2
  <2>4. PICK x \in S, r \in SUBSET S : x = Pick(s) /\ r = s \ {Pick(s)} /\ Cardinality(r) = k
    BY <2>2, <2>3
  <2>5. it[r] \in Int /\ jt[r] \in Int /\ it[r] <= jt[r]
    BY <1>7, <2>4
  <2>6. /\ it[s] = f[Pick(s)] + it[s \ {Pick(s)}]
        /\ jt[s] = g[Pick(s)] + jt[s \ {Pick(s)}]
    BY <1>4, <1>5, <2>1
  <2>7. it[s] = f[x] + it[r] /\ jt[s] = g[x] + jt[r]
    BY <2>4, <2>6
  <2> HIDE DEF good
  <2>8. f[x] \in Int /\ g[x] \in Int /\ f[x] <= g[x]
    BY <2>4
  <2> QED BY <2>5, <2>7, <2>8
<1> HIDE DEF good
<1>8. Nat \subseteq good
  BY <1>6, <1>7, AllNaturals
<1>9. it[S] \in Int /\ jt[S] \in Int /\ it[S] <= jt[S]
  BY <1>0, <1>8 DEF good
<1> QED
  BY <1>1, <1>9 DEF SumOf

(* The sums of the model, one by one.                                      *)
VtAwards(a) == [k \in Handled(a.iocs) |-> VirustotalAward(a.vt[k])]
MispAwards(a) == [k \in Handled(a.iocs) |-> MispAward(a.misp[k])]

LEMMA VtSum ==
  ASSUME NEW a, NEW H, H = Handled(a.iocs)
  PROVE  MapThenSumSet(LAMBDA k : VirustotalAward(a.vt[k]), H) = SumOf(VtAwards(a), H)
<1> DEFINE Eq(it) ==
      it = [s \in SUBSET H |-> IF s = {} THEN 0
                               ELSE VirustotalAward(a.vt[Pick(s)]) + it[s \ {Pick(s)}]]
<1>1. \A s \in SUBSET H : s # {} => VtAwards(a)[Pick(s)] = VirustotalAward(a.vt[Pick(s)])
  BY DEF Pick, VtAwards
<1>2. \A it : Eq(it) <=> Adds(it, VtAwards(a), H)
  BY <1>1 DEF Adds
<1>3. MapThenSumSet(LAMBDA k : VirustotalAward(a.vt[k]), H) = (CHOOSE it : Eq(it))[H]
  BY Zenon DEF MapThenSumSet, MapThenFoldSet, Pick
<1> HIDE DEF Eq
<1>4. (CHOOSE it : Eq(it)) = CHOOSE it : Adds(it, VtAwards(a), H)
  BY <1>2, Zenon
<1> QED
  BY <1>3, <1>4 DEF SumOf

LEMMA MispSum ==
  ASSUME NEW a, NEW H, H = Handled(a.iocs)
  PROVE  MapThenSumSet(LAMBDA k : MispAward(a.misp[k]), H) = SumOf(MispAwards(a), H)
<1> DEFINE Eq(it) ==
      it = [s \in SUBSET H |-> IF s = {} THEN 0
                               ELSE MispAward(a.misp[Pick(s)]) + it[s \ {Pick(s)}]]
<1>1. \A s \in SUBSET H : s # {} => MispAwards(a)[Pick(s)] = MispAward(a.misp[Pick(s)])
  BY DEF Pick, MispAwards
<1>2. \A it : Eq(it) <=> Adds(it, MispAwards(a), H)
  BY <1>1 DEF Adds
<1>3. MapThenSumSet(LAMBDA k : MispAward(a.misp[k]), H) = (CHOOSE it : Eq(it))[H]
  BY Zenon DEF MapThenSumSet, MapThenFoldSet, Pick
<1> HIDE DEF Eq
<1>4. (CHOOSE it : Eq(it)) = CHOOSE it : Adds(it, MispAwards(a), H)
  BY <1>2, Zenon
<1> QED
  BY <1>3, <1>4 DEF SumOf

LEMMA RulePoints ==
  ASSUME NEW met \in SUBSET DOMAIN Recurrence.rules
  PROVE  MapThenSumSet(LAMBDA n : Recurrence.rules[n].points, met) \in Int
<1> DEFINE f == [n \in met |-> Recurrence.rules[n].points]
<1> DEFINE Eq(it) ==
      it = [s \in SUBSET met |-> IF s = {} THEN 0
                                 ELSE Recurrence.rules[Pick(s)].points + it[s \ {Pick(s)}]]
<1>1. \A s \in SUBSET met : s # {} => f[Pick(s)] = Recurrence.rules[Pick(s)].points
  BY DEF Pick
<1>2. \A x \in met : f[x] \in Int /\ f[x] <= f[x]
  <2>1. PICK rules : rules = Recurrence.rules
    OBVIOUS
  <2>2. rules \in Seq([occurrences : Nat, span : Nat, points : Nat])
    BY <2>1, RecurrenceAssumption
  <2>3. PICK T : T = [occurrences : Nat, span : Nat, points : Nat]
    OBVIOUS
  <2>4. \A n \in DOMAIN rules : rules[n] \in T
    BY <2>2, <2>3, InSequence
  <2> QED BY <2>1, <2>3, <2>4
<1>3. IsFiniteSet(met)
  <2>1. PICK len \in Nat : DOMAIN Recurrence.rules = 1..len
    BY RecurrenceAssumption
  <2> QED BY <2>1, FS_Interval, FS_Subset
<1> HIDE DEF f
<1>4. \A it : Eq(it) <=> Adds(it, f, met)
  BY <1>1 DEF Adds
<1>5. MapThenSumSet(LAMBDA n : Recurrence.rules[n].points, met) = (CHOOSE it : Eq(it))[met]
  BY Zenon DEF MapThenSumSet, MapThenFoldSet, Pick
<1> HIDE DEF Eq
<1>6. (CHOOSE it : Eq(it)) = CHOOSE it : Adds(it, f, met)
  BY <1>4, Zenon
<1>7. SumOf(f, met) \in Int
  BY <1>2, <1>3, SumsCompare
<1> QED
  BY <1>5, <1>6, <1>7 DEF SumOf

LEMMA TotalSum ==
  ASSUME NEW fs
  PROVE  Total(fs) = SumOf(fs, DOMAIN fs)
BY Zenon DEF Total, FoldFunction, FoldFunctionOnSet, MapThenFoldSet, SumOf, Adds, Pick

-----------------------------------------------------------------------------
(* The factors are integers, and what the score makes of them.             *)

\* The parts of an alert that scoring reads have the types it counts on.
Evidenced(a) ==
  /\ IsFiniteSet(a.iocs)
  /\ a.vt \in [a.iocs -> Record] /\ a.misp \in [a.iocs -> Record]
  /\ a.rule.groups \in Nat /\ a.rule.tactics \in Nat

LEMMA RuleSeverityInt ==
  ASSUME NEW level
  PROVE  RuleSeverity(level) \in Int
<1>1. PICK bands : bands = Severity
  OBVIOUS
<1>2. bands \in Seq([min : Nat, max : Nat, points : Nat])
  BY <1>1, SeverityAssumption
<1>3. /\ DOMAIN bands \in SUBSET Nat
      /\ \A n \in DOMAIN bands : bands[n].points \in Nat
  <2>1. PICK T : T = [min : Nat, max : Nat, points : Nat]
    OBVIOUS
  <2>2. DOMAIN bands \in SUBSET Nat /\ \A n \in DOMAIN bands : bands[n] \in T
    BY <1>2, <2>1, InSequence
  <2> QED BY <2>1, <2>2
<1>4. Bands(level) \in SUBSET DOMAIN Severity /\ Bands(level) \in SUBSET Nat
  BY <1>1, <1>3 DEF Bands
<1>5. Bands(level) # {} => Min(Bands(level)) \in Bands(level)
  BY <1>4, LeastOf DEF Min
<1>6. Bands(level) # {} => Severity[Min(Bands(level))].points \in Nat
  BY <1>1, <1>3, <1>4, <1>5
<1> QED
  BY <1>6 DEF RuleSeverity

LEMMA AtMostInt ==
  ASSUME NEW limit \in Int, NEW m \in Int
  PROVE  AtMost(limit, m) \in Int /\ Clamp(m) \in 0..100
BY DEF AtMost, Clamp

LEMMA AtMostGrows ==
  ASSUME NEW limit \in Int, NEW m \in Int, NEW n \in Int, m <= n
  PROVE  AtMost(limit, m) <= AtMost(limit, n) /\ Clamp(m) <= Clamp(n)
BY DEF AtMost, Clamp

LEMMA RuleGroupsMitreInt ==
  ASSUME NEW rule, rule.groups \in Nat, rule.tactics \in Nat
  PROVE  RuleGroupsMitre(rule) \in Int
<1>1. /\ Groups.max \in Nat /\ Groups.group \in Nat /\ Groups.mitre \in Nat
      /\ Groups.multi \in Nat /\ Groups.threshold \in Nat
  BY GroupsAssumption
<1>2. Groups.group * rule.groups \in Nat
  BY <1>1
<1>3. PICK x \in Int, y \in Int : /\ x = (IF rule.technique THEN Groups.mitre ELSE 0)
                                 /\ y = (IF rule.tactics >= Groups.threshold THEN Groups.multi ELSE 0)
  BY <1>1
<1>4. PICK z \in Int : z = Groups.group * rule.groups + x + y
  BY <1>2
<1>5. RuleGroupsMitre(rule) = AtMost(Groups.max, z)
  BY <1>3, <1>4, Zenon DEF RuleGroupsMitre
<1>6. PICK limit \in Int : limit = Groups.max
  BY <1>1
<1>7. AtMost(limit, z) \in Int
  BY <1>4, AtMostInt
<1> QED
  BY <1>5, <1>6, <1>7, Zenon

LEMMA AssetCriticalityInt ==
  ASSUME NEW tier
  PROVE  AssetCriticality(tier) \in Int
<1>1. Criticality.unknown \in Int /\ \A b \in DOMAIN Criticality.bands : Criticality.bands[b] \in Int
  BY CriticalityAssumption
<1> QED
  BY <1>1 DEF AssetCriticality

LEMMA RecurrenceVelocityInt ==
  ASSUME NEW dedupe
  PROVE  RecurrenceVelocity(dedupe) \in Int
<1> DEFINE met == {n \in DOMAIN Recurrence.rules : Met(Recurrence.rules[n], dedupe)}
<1> DEFINE points == MapThenSumSet(LAMBDA n : Recurrence.rules[n].points, met)
<1>1. RecurrenceVelocity(dedupe) = AtMost(Recurrence.max, points)
  BY Zenon DEF RecurrenceVelocity
<1>2. met \in SUBSET DOMAIN Recurrence.rules
  OBVIOUS
<1> HIDE DEF met
<1>3. points \in Int
  BY <1>2, RulePoints, Zenon
<1> HIDE DEF points
<1>4. Recurrence.max \in Int
  BY RecurrenceAssumption
<1> QED
  BY <1>1, <1>3, <1>4, AtMostInt

LEMMA IocEvidenceInt ==
  ASSUME NEW iocs, IsFiniteSet(iocs)
  PROVE  IocEvidence(iocs) \in Int
<1>1. Cardinality(iocs) \in Int
  BY FS_CardinalityType
<1>2. Evidence.max \in Int /\ Evidence.each \in Int /\ Evidence.counted \in Int
  BY EvidenceAssumption
<1>3. AtMost(Evidence.counted, Cardinality(iocs)) \in Int
  BY <1>1, <1>2, AtMostInt
<1>4. Evidence.each * AtMost(Evidence.counted, Cardinality(iocs)) \in Int
  BY <1>2, <1>3
<1> QED
  BY <1>2, <1>4, AtMostInt DEF IocEvidence

LEMMA EnrichmentStatusInt ==
  ASSUME NEW status
  PROVE  EnrichmentStatus(status) \in Int
BY CoverageAssumption DEF EnrichmentStatus

LEMMA AwardsInt ==
  ASSUME NEW r \in Record
  PROVE  VirustotalAward(r) \in Nat /\ MispAward(r) \in Nat
<1>1. r.malicious \in Nat /\ r.suspicious \in Nat /\ r.matches \in Nat
  BY DEF Record
<1>2. /\ Intel.high \in Nat /\ Intel.low \in Nat /\ Intel.suspicious \in Nat
      /\ Intel.match \in Nat /\ Intel.actor \in Nat /\ Intel.high_min \in Nat \ {0}
      /\ Intel.suspicious_min \in Nat \ {0}
  BY IntelAssumption
<1>3. VirustotalAward(r) \in Nat
  BY <1>1, <1>2 DEF VirustotalAward
<1>4. MispAward(r) \in Nat
  BY <1>1, <1>2 DEF MispAward
<1> QED
  BY <1>3, <1>4

(* The sums of the threat intelligence factor, and their order.            *)
LEMMA ThreatIntelSums ==
  ASSUME NEW a
  PROVE  ThreatIntel(a) = AtMost(Intel.max, SumOf(VtAwards(a), Handled(a.iocs))
                                            + SumOf(MispAwards(a), Handled(a.iocs)))
<1> DEFINE H == Handled(a.iocs)
<1>1. MapThenSumSet(LAMBDA k : VirustotalAward(a.vt[k]), H) = SumOf(VtAwards(a), H)
  BY VtSum, Zenon
<1>2. MapThenSumSet(LAMBDA k : MispAward(a.misp[k]), H) = SumOf(MispAwards(a), H)
  BY MispSum, Zenon
<1> QED
  BY <1>1, <1>2, Zenon DEF ThreatIntel

LEMMA HandledFinite ==
  ASSUME NEW a, Evidenced(a)
  PROVE  /\ IsFiniteSet(Handled(a.iocs))
         /\ \A k \in Handled(a.iocs) : /\ k \in a.iocs
                                       /\ VtAwards(a)[k] = VirustotalAward(a.vt[k])
                                       /\ MispAwards(a)[k] = MispAward(a.misp[k])
                                       /\ VtAwards(a)[k] \in Int /\ MispAwards(a)[k] \in Int
<1>1. Handled(a.iocs) \in SUBSET a.iocs
  BY DEF Handled
<1>2. IsFiniteSet(Handled(a.iocs))
  BY <1>1, FS_Subset DEF Evidenced
<1>3. ASSUME NEW k \in Handled(a.iocs)
      PROVE  /\ VtAwards(a)[k] = VirustotalAward(a.vt[k])
             /\ MispAwards(a)[k] = MispAward(a.misp[k])
  BY DEF VtAwards, MispAwards
<1>4. ASSUME NEW k \in a.iocs
      PROVE  a.vt[k] \in Record /\ a.misp[k] \in Record
  BY DEF Evidenced
<1> QED
  BY <1>1, <1>2, <1>3, <1>4, AwardsInt

LEMMA ThreatIntelCompare ==
  ASSUME NEW a, NEW b, Evidenced(a), Evidenced(b), a.iocs = b.iocs,
         \A k \in a.iocs : /\ VirustotalAward(a.vt[k]) <= VirustotalAward(b.vt[k])
                           /\ MispAward(a.misp[k]) <= MispAward(b.misp[k])
  PROVE  /\ ThreatIntel(a) \in Int /\ ThreatIntel(b) \in Int
         /\ ThreatIntel(a) <= ThreatIntel(b)
<1> DEFINE H == Handled(a.iocs)
<1>1. /\ IsFiniteSet(H)
      /\ \A k \in H : /\ VtAwards(a)[k] \in Int /\ VtAwards(b)[k] \in Int
                      /\ VtAwards(a)[k] <= VtAwards(b)[k]
      /\ \A k \in H : /\ MispAwards(a)[k] \in Int /\ MispAwards(b)[k] \in Int
                      /\ MispAwards(a)[k] <= MispAwards(b)[k]
  BY HandledFinite
<1> HIDE DEF H
<1>2. /\ SumOf(VtAwards(a), H) \in Int /\ SumOf(VtAwards(b), H) \in Int
      /\ SumOf(VtAwards(a), H) <= SumOf(VtAwards(b), H)
  BY <1>1, SumsCompare
<1>3. /\ SumOf(MispAwards(a), H) \in Int /\ SumOf(MispAwards(b), H) \in Int
      /\ SumOf(MispAwards(a), H) <= SumOf(MispAwards(b), H)
  BY <1>1, SumsCompare
<1>4. PICK m \in Int, n \in Int :
        /\ m = SumOf(VtAwards(a), H) + SumOf(MispAwards(a), H)
        /\ n = SumOf(VtAwards(b), H) + SumOf(MispAwards(b), H)
        /\ m <= n
  BY <1>2, <1>3
<1>5. ThreatIntel(a) = AtMost(Intel.max, m) /\ ThreatIntel(b) = AtMost(Intel.max, n)
  BY <1>4, ThreatIntelSums DEF H
<1>6. PICK limit \in Int : limit = Intel.max
  BY IntelAssumption
<1>7. /\ AtMost(limit, m) \in Int /\ AtMost(limit, n) \in Int
      /\ AtMost(limit, m) <= AtMost(limit, n)
  BY <1>4, AtMostInt, AtMostGrows
<1> QED
  BY <1>5, <1>6, <1>7

LEMMA FactorsInt ==
  ASSUME NEW a, Evidenced(a)
  PROVE  Factors(a) \in [1..8 -> Int]
<1>1. PICK f7 \in Int : f7 = ThreatIntel(a)
  <2>1. \A k \in a.iocs : a.vt[k] \in Record /\ a.misp[k] \in Record
    BY DEF Evidenced
  <2>2. \A k \in a.iocs : /\ VirustotalAward(a.vt[k]) <= VirustotalAward(a.vt[k])
                          /\ MispAward(a.misp[k]) <= MispAward(a.misp[k])
    BY <2>1, AwardsInt
  <2> QED BY <2>2, ThreatIntelCompare
<1>2. PICK f8 \in Int : f8 = IF Allowlisted(a) THEN -Subtract ELSE 0
  BY SubtractAssumption
<1>3. PICK f1 \in Int, f2 \in Int, f3 \in Int :
        f1 = RuleSeverity(a.rule.level) /\ f2 = RuleGroupsMitre(a.rule) /\ f3 = AssetCriticality(a.tier)
  BY RuleSeverityInt, RuleGroupsMitreInt, AssetCriticalityInt DEF Evidenced
<1>4. PICK f4 \in Int, f5 \in Int, f6 \in Int :
        f4 = RecurrenceVelocity(a.dedupe) /\ f5 = IocEvidence(a.iocs) /\ f6 = EnrichmentStatus(a.status)
  BY RecurrenceVelocityInt, IocEvidenceInt, EnrichmentStatusInt DEF Evidenced
<1>5. Factors(a) = <<f1, f2, f3, f4, f5, f6, f7, f8>>
  BY <1>1, <1>2, <1>3, <1>4 DEF Factors
<1> QED
  BY <1>5

LEMMA TotalsCompare ==
  ASSUME NEW n \in Nat, NEW f \in [1..n -> Int], NEW g \in [1..n -> Int],
         \A k \in 1..n : f[k] <= g[k]
  PROVE  Total(f) \in Int /\ Total(g) \in Int /\ Total(f) <= Total(g)
<1>1. DOMAIN f = 1..n /\ DOMAIN g = 1..n /\ IsFiniteSet(1..n)
  BY FS_Interval
<1>2. \A k \in 1..n : f[k] \in Int /\ g[k] \in Int /\ f[k] <= g[k]
  OBVIOUS
<1>3. SumOf(f, 1..n) \in Int /\ SumOf(g, 1..n) \in Int /\ SumOf(f, 1..n) <= SumOf(g, 1..n)
  BY <1>1, <1>2, SumsCompare
<1>4. Total(f) = SumOf(f, 1..n) /\ Total(g) = SumOf(g, 1..n)
  BY <1>1, TotalSum
<1> QED
  BY <1>3, <1>4

LEMMA TotalInt ==
  ASSUME NEW n \in Nat, NEW fs \in [1..n -> Int]
  PROVE  Total(fs) \in Int
<1>1. \A k \in 1..n : fs[k] <= fs[k]
  OBVIOUS
<1> QED
  BY <1>1, TotalsCompare

(* Bands that follow each other from 0 to 100 leave no score out.          *)
LEMMA TierHolds ==
  ASSUME NEW score \in 0..100
  PROVE  \E n \in DOMAIN Tiers : /\ Tiers[n].name = TierFor(score)
                                 /\ score \in Tiers[n].min..Tiers[n].max
<1>1. PICK len \in Nat : DOMAIN Tiers = 1..len /\ len = Len(Tiers) /\ len # 0
  <2>1. Tiers # <<>>
    BY PolicyAssumption DEF TiersCover
  <2> QED BY <2>1, TiersAssumption
<1>2. \A n \in 1..len : Tiers[n].min \in Int /\ Tiers[n].max \in Int
  <2>1. PICK T : T = [name : DOMAIN Actions, min : 0..100, max : 0..100]
    OBVIOUS
  <2>2. \A n \in DOMAIN Tiers : Tiers[n] \in T
    BY <2>1, TiersAssumption, InSequence
  <2>3. \A t \in T : t.min \in Int /\ t.max \in Int
    BY <2>1
  <2> QED BY <1>1, <2>2, <2>3
<1>3. /\ Tiers[len].max = 100
      /\ \A n \in 1..len : Tiers[n].min = IF n = 1 THEN 0 ELSE Tiers[n - 1].max + 1
  BY <1>1, PolicyAssumption DEF TiersCover
<1> DEFINE Held(s) == \E m \in 1..len : s \in Tiers[m].min..Tiers[m].max
<1> DEFINE good == {n \in Nat : n \in 1..len => \A s \in 0..Tiers[n].max : Held(s)}
<1>4. 0 \in good
  OBVIOUS
<1>5. ASSUME NEW k \in Nat, k \in good
      PROVE  k + 1 \in good
  <2> SUFFICES ASSUME k + 1 \in 1..len, NEW s \in 0..Tiers[k + 1].max
               PROVE  Held(s)
    OBVIOUS
  <2>1. CASE k = 0
    <3>1. Tiers[k + 1].min = 0
      BY <1>3, <2>1
    <3>2. s \in Tiers[k + 1].min..Tiers[k + 1].max
      BY <3>1
    <3> QED BY <3>2
  <2>2. CASE k # 0
    <3>1. k \in 1..len /\ (k + 1) - 1 = k /\ k + 1 # 1
      BY <2>2
    <3>2. Tiers[k + 1].min = Tiers[k].max + 1
      BY <1>3, <3>1
    <3>3. \A r \in 0..Tiers[k].max : Held(r)
      BY <1>5, <3>1
    <3> HIDE DEF Held
    <3>4. Tiers[k].max \in Int /\ Tiers[k + 1].max \in Int
      BY <1>2, <3>1
    <3>5. s \in 0..Tiers[k].max \/ s \in Tiers[k + 1].min..Tiers[k + 1].max
      BY <3>2, <3>4
    <3>6. s \in Tiers[k + 1].min..Tiers[k + 1].max => Held(s)
      BY Zenon DEF Held
    <3> QED BY <3>3, <3>5, <3>6
  <2> QED BY <2>1, <2>2
<1>6. len \in good
  <2> HIDE DEF good
  <2>1. Nat \subseteq good
    BY <1>4, <1>5, AllNaturals
  <2> QED BY <2>1
<1>7. Held(score)
  <2> HIDE DEF Held
  <2>1. len \in 1..len
    BY <1>1
  <2> QED BY <1>3, <1>6, <2>1
<1>8. \E n \in DOMAIN Tiers : score \in Tiers[n].min..Tiers[n].max
  BY <1>1, <1>7
<1> QED
  BY <1>8, Zenon DEF TierFor

-----------------------------------------------------------------------------
(* The stored assessment is that of the stored evidence.                   *)

LEMMA SameFactors ==
  ASSUME NEW a, NEW b, SameEvidence(a, b)
  PROVE  Factors(a) = Factors(b) /\ (Allowlisted(a) <=> Allowlisted(b))
<1>1. /\ a.rule = b.rule /\ a.tier = b.tier /\ a.dedupe = b.dedupe /\ a.iocs = b.iocs
      /\ a.vt = b.vt /\ a.misp = b.misp /\ a.allowed = b.allowed /\ a.status = b.status
  BY DEF SameEvidence
<1>2. VtAwards(a) = VtAwards(b) /\ MispAwards(a) = MispAwards(b)
  BY <1>1 DEF VtAwards, MispAwards
<1>3. ThreatIntel(a) = ThreatIntel(b)
  BY <1>1, <1>2, ThreatIntelSums, Zenon
<1>4. Allowlisted(a) <=> Allowlisted(b)
  BY <1>1 DEF Allowlisted
<1> QED
  BY <1>1, <1>3, <1>4, Zenon DEF Factors

LEMMA SameVerdict ==
  ASSUME NEW a, NEW b, SameEvidence(a, b), NEW raised, NEW risk
  PROVE  Score(a, raised) = Score(b, raised) /\ Decide(risk, a) = Decide(risk, b)
<1>1. Factors(a) = Factors(b) /\ (Allowlisted(a) <=> Allowlisted(b)) /\ a.rule = b.rule
  BY SameFactors DEF SameEvidence
<1>2. Score(a, raised) = Score(b, raised)
  BY <1>1, Zenon DEF Score
<1>3. Decide(risk, a) = Decide(risk, b)
  BY <1>1, Zenon DEF Decide
<1> QED
  BY <1>2, <1>3

(* What the engine returns reconciles and is in the band of its tier.      *)
Stands(risk) ==
  /\ Reconciles(risk)
  /\ \E n \in DOMAIN Tiers : /\ Tiers[n].name = risk.tier
                             /\ risk.score \in Tiers[n].min..Tiers[n].max

LEMMA RiskParts ==
  ASSUME NEW fs, NEW degraded \in BOOLEAN
  PROVE  /\ Risk(fs, degraded).score = Clamp(Total(fs))
         /\ Risk(fs, degraded).tier = TierFor(Clamp(Total(fs)))
         /\ Risk(fs, degraded).factors = fs
         /\ Risk(fs, degraded).degraded <=> degraded
<1>1. PICK score, tier : score = Clamp(Total(fs)) /\ tier = TierFor(score)
  OBVIOUS
<1>2. Risk(fs, degraded) = [score |-> score, tier |-> tier, factors |-> fs, degraded |-> degraded]
  BY <1>1, Zenon DEF Risk
<1> QED
  BY <1>1, <1>2

LEMMA RiskStands ==
  ASSUME NEW fs, Total(fs) \in Int, NEW degraded \in BOOLEAN
  PROVE  Stands(Risk(fs, degraded))
<1>1. PICK score : score = Clamp(Total(fs))
  OBVIOUS
<1>2. score \in 0..100
  BY <1>1 DEF Clamp, AtMost
<1>3. \E m \in DOMAIN Tiers : /\ Tiers[m].name = TierFor(score)
                              /\ score \in Tiers[m].min..Tiers[m].max
  BY <1>2, TierHolds
<1>4. PICK risk : risk = Risk(fs, degraded)
  OBVIOUS
<1>5. risk.score = score /\ risk.tier = TierFor(score) /\ risk.factors = fs
  BY <1>1, <1>4, RiskParts, Zenon
<1>6. Stands(risk)
  BY <1>1, <1>3, <1>5, Zenon DEF Stands, Reconciles
<1> QED
  BY <1>4, <1>6, Zenon

LEMMA ScoreStands ==
  ASSUME NEW a, Evidenced(a), NEW raised \in BOOLEAN
  PROVE  /\ Stands(Score(a, raised))
         /\ Score(a, raised).degraded <=> raised
         /\ ~raised => /\ Score(a, raised).factors = Factors(a)
                       /\ Score(a, raised).score = Clamp(Total(Factors(a)))
<1>1. CASE raised
  <2>1. PICK fs : fs = <<RuleSeverity(a.rule.level)>>
    OBVIOUS
  <2>2. PICK p \in Int : p = RuleSeverity(a.rule.level)
    BY RuleSeverityInt
  <2>3. Total(fs) \in Int
    <3>1. fs \in [1..1 -> Int]
      BY <2>1, <2>2
    <3> QED BY <3>1, TotalInt
  <2>4. Score(a, raised) = Risk(fs, TRUE)
    BY <1>1, <2>1, Zenon DEF Score
  <2>5. Stands(Score(a, raised))
    BY <2>3, <2>4, RiskStands, Zenon
  <2>6. Score(a, raised).degraded
    BY <2>4, RiskParts, Zenon
  <2> QED
    BY <1>1, <2>5, <2>6, Zenon
<1>2. CASE ~raised
  <2>1. Total(Factors(a)) \in Int
    <3>1. Factors(a) \in [1..8 -> Int]
      BY FactorsInt
    <3> QED BY <3>1, TotalInt
  <2>2. Score(a, raised) = Risk(Factors(a), FALSE)
    BY <1>2, Zenon DEF Score
  <2>3. Stands(Score(a, raised))
    BY <2>1, <2>2, RiskStands, Zenon
  <2>4. ~Score(a, raised).degraded
    BY <2>2, RiskParts, Zenon
  <2>5. /\ Score(a, raised).factors = Factors(a)
        /\ Score(a, raised).score = Clamp(Total(Factors(a)))
    BY <2>2, RiskParts, Zenon
  <2> QED
    BY <1>2, <2>3, <2>4, <2>5, Zenon
<1> QED
  BY <1>1, <1>2, Zenon

(* The inductive invariant: what is stored is what the engine, or its      *)
(* fallback, makes of the stored evidence, and that evidence has the types *)
(* the sums count on.                                                      *)
VerdictSound(a) ==
  /\ Parts \subseteq DOMAIN a
  /\ Evidenced(a)
  /\ \E raised \in BOOLEAN : a.risk = Score(a, raised)
  /\ a.decision = Decide(a.risk, a)

VerdictsSound ==
  /\ \A a \in alert : VerdictSound(a)
  /\ \A a, b \in alert : a = b

LEMMA VerdictStandsOf ==
  ASSUME NEW a, VerdictSound(a)
  PROVE  /\ Stands(a.risk)
         /\ a.risk.degraded \/ a.risk.factors = Factors(a)
         /\ a.risk.degraded \/ a.risk.score = Clamp(Total(Factors(a)))
         /\ a.decision = Decide(a.risk, a)
<1>1. Evidenced(a) /\ a.decision = Decide(a.risk, a)
  BY DEF VerdictSound
<1>2. PICK raised \in BOOLEAN : a.risk = Score(a, raised)
  BY DEF VerdictSound
<1> QED
  BY <1>1, <1>2, ScoreStands, Zenon

LEMMA MergedRecords ==
  ASSUME NEW I, NEW old \in [I -> Record], NEW J, NEW R \in SUBSET Record,
         NEW answer \in Answers(R, J)
  PROVE  Merged(old, answer) \in [I -> Record]
<1>1. \A k \in DOMAIN answer.records : answer.records[k] \in Record
  <2>1. CASE answer = [up |-> FALSE, records |-> <<>>]
    BY <2>1
  <2>2. CASE answer \in {[up |-> TRUE, records |-> f] : f \in [J -> R]}
    BY <2>2
  <2> QED BY <2>1, <2>2 DEF Answers
<1> QED
  BY <1>1 DEF Merged

LEMMA EnrichedEvidence ==
  ASSUME NEW a, Parts \subseteq DOMAIN a, Evidenced(a),
         NEW vt, vt \in VtAnswers(a.iocs), NEW misp, misp \in MispAnswers(a.iocs)
  PROVE  Parts \subseteq DOMAIN Enriched(a, vt, misp) /\ Evidenced(Enriched(a, vt, misp))
<1> DEFINE b == Enriched(a, vt, misp)
<1>1. /\ Parts \subseteq DOMAIN b /\ b.rule = a.rule /\ b.iocs = a.iocs
      /\ b.vt = Merged(a.vt, vt) /\ b.misp = Merged(a.misp, misp)
  BY EnrichedParts
<1> HIDE DEF b
<1>2. VtRecords \in SUBSET Record /\ MispRecords \in SUBSET Record
  BY RecordsAssumption
<1>3. a.vt \in [a.iocs -> Record] /\ a.misp \in [a.iocs -> Record]
  BY DEF Evidenced
<1>4. Merged(a.vt, vt) \in [a.iocs -> Record]
  BY <1>2, <1>3, MergedRecords DEF VtAnswers
<1>5. Merged(a.misp, misp) \in [a.iocs -> Record]
  BY <1>2, <1>3, MergedRecords DEF MispAnswers
<1>6. Evidenced(b)
  BY <1>1, <1>4, <1>5 DEF Evidenced
<1> QED
  BY <1>1, <1>6 DEF b

LEMMA AssessedVerdict ==
  ASSUME NEW a, Parts \subseteq DOMAIN a, Evidenced(a), NEW raised \in BOOLEAN
  PROVE  VerdictSound(Assessed(a, raised))
<1> DEFINE b == Assessed(a, raised)
<1>1. /\ Parts \subseteq DOMAIN b /\ SameEvidence(b, a)
      /\ b.risk = Score(a, raised) /\ b.decision = Decide(Score(a, raised), a)
  BY AssessedParts
<1> HIDE DEF b
<1>2. Evidenced(b)
  BY <1>1 DEF Evidenced, SameEvidence
<1>3. Score(b, raised) = Score(a, raised)
  BY <1>1, SameVerdict, Zenon
<1>4. Decide(b.risk, b) = Decide(b.risk, a)
  BY <1>1, SameVerdict, Zenon
<1>5. b.risk = Score(b, raised) /\ b.decision = Decide(b.risk, b)
  BY <1>1, <1>3, <1>4, Zenon
<1>6. VerdictSound(b)
  BY <1>1, <1>2, <1>5 DEF VerdictSound
<1> QED
  BY <1>6 DEF b

LEMMA CanonicalEvidence ==
  ASSUME NEW event \in Events
  PROVE  Parts \subseteq DOMAIN Canonical(event) /\ Evidenced(Canonical(event))
<1>1. PICK a : a = Canonical(event)
  OBVIOUS
<1>2. PICK iocs : iocs = Extract(event.fields)
  OBVIOUS
<1>3. /\ Parts \subseteq DOMAIN a /\ a.rule = event.rule /\ a.iocs = iocs
      /\ a.vt = [k \in iocs |-> NotLookedUp] /\ a.misp = [k \in iocs |-> NotLookedUp]
  BY <1>1, <1>2 DEF Canonical, Parts
<1>4. NotLookedUp \in Record
  BY DEF NotLookedUp, Record
<1>5. a.vt \in [a.iocs -> Record] /\ a.misp \in [a.iocs -> Record]
  BY <1>3, <1>4
<1>6. IsFiniteSet(a.iocs)
  <2>1. iocs \in SUBSET Found(event.fields)
    BY <1>2 DEF Extract
  <2> QED BY <1>3, <2>1, FS_Subset, IndicatorsAssumption
<1>7. a.rule.groups \in Nat /\ a.rule.tactics \in Nat
  BY <1>3, RulesAssumption
<1> QED
  BY <1>1, <1>3, <1>5, <1>6, <1>7 DEF Evidenced

LEMMA VerdictsInit == Init => VerdictsSound
BY DEF Init, VerdictsSound

(* The alert that one run of the chain and one assessment make of another. *)
LEMMA VerdictRenewed ==
  ASSUME NEW a, Parts \subseteq DOMAIN a, Evidenced(a),
         NEW vt, vt \in VtAnswers(a.iocs), NEW misp, misp \in MispAnswers(a.iocs),
         NEW raised \in BOOLEAN, alert' = {Assessed(Enriched(a, vt, misp), raised)}
  PROVE  VerdictsSound'
<1>1. PICK b : b = Assessed(Enriched(a, vt, misp), raised)
  OBVIOUS
<1>2. Parts \subseteq DOMAIN Enriched(a, vt, misp) /\ Evidenced(Enriched(a, vt, misp))
  BY EnrichedEvidence
<1>3. VerdictSound(b)
  BY <1>1, <1>2, AssessedVerdict
<1>4. alert' = {b}
  BY <1>1
<1> QED
  BY <1>3, <1>4 DEF VerdictsSound

LEMMA VerdictsStep == VerdictsSound /\ [Next]_vars => VerdictsSound'
<1> SUFFICES ASSUME VerdictsSound, [Next]_vars PROVE VerdictsSound'
  OBVIOUS
<1>1. CASE UNCHANGED alert
  BY <1>1 DEF VerdictsSound
<1>2. ASSUME NEW event \in Events, Ingest(event)
      PROVE  VerdictsSound'
  <2>1. PICK a : a = Canonical(event)
    OBVIOUS
  <2>2. PICK vt \in VtAnswers(a.iocs), misp \in MispAnswers(a.iocs), raised \in BOOLEAN :
          alert' = {Assessed(Enriched(a, vt, misp), raised)}
    BY <1>2, <2>1 DEF Ingest
  <2>3. Parts \subseteq DOMAIN a /\ Evidenced(a)
    BY <2>1, CanonicalEvidence
  <2> QED
    BY <2>2, <2>3, VerdictRenewed
<1>3. CASE Reassess
  <2>1. PICK a \in alert : \E vt \in VtAnswers(a.iocs), misp \in MispAnswers(a.iocs), raised \in BOOLEAN :
          alert' = {Assessed(Enriched(a, vt, misp), raised)}
    BY <1>3 DEF Reassess
  <2>2. PICK vt \in VtAnswers(a.iocs), misp \in MispAnswers(a.iocs), raised \in BOOLEAN :
          alert' = {Assessed(Enriched(a, vt, misp), raised)}
    BY <2>1
  <2>3. Parts \subseteq DOMAIN a /\ Evidenced(a)
    BY DEF VerdictsSound, VerdictSound
  <2> QED
    BY <2>2, <2>3, VerdictRenewed
<1>4. CASE \E r \in AssetFile : LoadAsset(r)
  BY <1>1, <1>4 DEF LoadAsset
<1>5. CASE \E e \in AllowFile : LoadEntry(e)
  BY <1>1, <1>5 DEF LoadEntry
<1>6. CASE AssetsLoaded \/ EntriesLoaded \/ UNCHANGED vars
  BY <1>1, <1>6 DEF AssetsLoaded, EntriesLoaded, vars
<1> QED
  BY <1>2, <1>3, <1>4, <1>5, <1>6 DEF Next

LEMMA SoundStands == VerdictsSound => StoredVerdictStands
<1> SUFFICES ASSUME VerdictsSound, NEW a \in alert
             PROVE  /\ Reconciles(a.risk)
                    /\ \E n \in DOMAIN Tiers : /\ Tiers[n].name = a.risk.tier
                                               /\ a.risk.score \in Tiers[n].min..Tiers[n].max
                    /\ a.risk.degraded \/ a.risk.factors = Factors(a)
                    /\ a.decision = Decide(a.risk, a)
  BY DEF StoredVerdictStands
<1>1. VerdictSound(a)
  BY DEF VerdictsSound
<1> QED
  BY <1>1, VerdictStandsOf, Zenon DEF Stands

(* Whatever providers answer, and however often the engine fails, the      *)
(* stored score is the clipped sum of the stored factors, lies in the band *)
(* of the stored tier, and factors and decision are those of the records   *)
(* as they are now, under every policy that passes validation              *)
(* (score_alert, reassess_persisted_if_changed, _score_section).           *)
THEOREM VerdictStands == Spec => []StoredVerdictStands
BY VerdictsInit, VerdictsStep, SoundStands, PTL DEF Spec

-----------------------------------------------------------------------------
(* A late enrichment moves the score the way intelligence moved.           *)

LEMMA LostAward ==
  ASSUME NEW r \in Record, NEW q \in Record, Lost(r, q)
  PROVE  VirustotalAward(q) <= VirustotalAward(r) /\ MispAward(q) <= MispAward(r)
<1>1. /\ VirustotalAward(r) \in Nat /\ MispAward(r) \in Nat
      /\ VirustotalAward(q) \in Nat /\ MispAward(q) \in Nat
  BY AwardsInt
<1>2. CASE ~Available(q)
  <2>1. VirustotalAward(q) = 0 /\ MispAward(q) = 0
    BY <1>2 DEF VirustotalAward, MispAward
  <2> QED BY <1>1, <2>1
<1>3. CASE q = r
  BY <1>1, <1>3
<1> QED
  BY <1>2, <1>3 DEF Lost

LEMMA StrongerAward ==
  ASSUME NEW r \in Record, NEW q \in Record, Stronger(r, q)
  PROVE  VirustotalAward(r) <= VirustotalAward(q) /\ MispAward(r) <= MispAward(q)
<1>1. /\ VirustotalAward(r) \in Nat /\ MispAward(r) \in Nat
      /\ VirustotalAward(q) \in Nat /\ MispAward(q) \in Nat
  BY AwardsInt
<1>2. CASE q = r
  BY <1>1, <1>2
<1>3. CASE ~Available(r)
  <2>1. VirustotalAward(r) = 0 /\ MispAward(r) = 0
    BY <1>3 DEF VirustotalAward, MispAward
  <2> QED BY <1>1, <2>1
<1>4. CASE /\ Available(r) /\ Available(q)
           /\ q.malicious >= r.malicious /\ q.suspicious >= r.suspicious
           /\ q.matches >= r.matches /\ (r.actor => q.actor)
  <2>1. /\ r.malicious \in Nat /\ r.suspicious \in Nat /\ r.matches \in Nat
        /\ q.malicious \in Nat /\ q.suspicious \in Nat /\ q.matches \in Nat
    BY DEF Record
  <2>2. /\ Intel.high \in Nat /\ Intel.low \in Nat /\ Intel.suspicious \in Nat
        /\ Intel.match \in Nat /\ Intel.actor \in Nat /\ Intel.high_min \in Nat \ {0}
        /\ Intel.suspicious_min \in Nat \ {0}
    BY IntelAssumption
  <2>3. Intel.high >= Intel.low /\ Intel.low >= Intel.suspicious
    BY PolicyAssumption DEF IntelWeightsFit
  <2>4. ASSUME NEW x \in Record, Available(x)
        PROVE  VirustotalAward(x) = IF x.malicious >= Intel.high_min THEN Intel.high
                                    ELSE IF x.malicious > 0 THEN Intel.low
                                    ELSE IF x.suspicious >= Intel.suspicious_min
                                           THEN Intel.suspicious ELSE 0
    <3>1. x.malicious \in Nat
      BY DEF Record
    <3> QED BY <2>2, <2>4, <3>1 DEF VirustotalAward
  <2>5. VirustotalAward(r) <= VirustotalAward(q)
    BY <1>4, <2>1, <2>2, <2>3, <2>4
  <2>6. MispAward(r) <= MispAward(q)
    BY <1>4, <2>1, <2>2 DEF MispAward
  <2> QED BY <2>5, <2>6
<1> QED
  BY <1>2, <1>3, <1>4 DEF Stronger

\* What a late enrichment leaves alone.
SameSubject(a, b) ==
  /\ a.rule = b.rule /\ a.tier = b.tier /\ a.dedupe = b.dedupe
  /\ a.iocs = b.iocs /\ a.allowed = b.allowed

LEMMA FactorsCompare ==
  ASSUME NEW a, NEW b, Evidenced(a), Evidenced(b), SameSubject(a, b),
         EnrichmentStatus(a.status) <= EnrichmentStatus(b.status),
         \A k \in a.iocs : /\ VirustotalAward(a.vt[k]) <= VirustotalAward(b.vt[k])
                           /\ MispAward(a.misp[k]) <= MispAward(b.misp[k])
  PROVE  Clamp(Total(Factors(a))) <= Clamp(Total(Factors(b)))
<1>1. /\ a.rule = b.rule /\ a.tier = b.tier /\ a.dedupe = b.dedupe
      /\ a.iocs = b.iocs /\ a.allowed = b.allowed
  BY DEF SameSubject
<1>2. PICK f, g : f = Factors(a) /\ g = Factors(b)
  OBVIOUS
<1>3. f \in [1..8 -> Int] /\ g \in [1..8 -> Int]
  BY <1>2, FactorsInt
<1>4. f[1] = g[1] /\ f[2] = g[2] /\ f[3] = g[3] /\ f[4] = g[4] /\ f[5] = g[5]
  BY <1>1, <1>2 DEF Factors
<1>5. f[6] <= g[6]
  BY <1>2 DEF Factors
<1>6. f[7] <= g[7]
  <2>1. ThreatIntel(a) <= ThreatIntel(b)
    BY <1>1, ThreatIntelCompare
  <2> QED BY <1>2, <2>1 DEF Factors
<1>7. f[8] = g[8]
  <2>1. Allowlisted(a) <=> Allowlisted(b)
    BY <1>1 DEF Allowlisted
  <2> QED BY <1>2, <2>1 DEF Factors
<1>8. ASSUME NEW n \in 1..8
      PROVE  f[n] <= g[n]
  <2>1. n \in {1, 2, 3, 4, 5, 6, 7, 8} /\ f[n] \in Int /\ g[n] \in Int
    BY <1>3
  <2> QED BY <1>4, <1>5, <1>6, <1>7, <2>1
<1>9. Total(f) \in Int /\ Total(g) \in Int /\ Total(f) <= Total(g)
  BY <1>3, <1>8, TotalsCompare
<1> QED
  BY <1>2, <1>9 DEF Clamp, AtMost

LEMMA ReassessedSubject ==
  ASSUME AllowlistSound, VerdictsSound, Reassess, NEW a \in alert, NEW b \in alert'
  PROVE  SameSubject(a, b)
<1>1. PICK c \in alert : \E vt, misp, raised :
        alert' = {Assessed(Enriched(c, vt, misp), raised)}
  BY DEF Reassess
<1>2. c = a
  BY DEF VerdictsSound
<1>3. PICK vt, misp, raised : b = Assessed(Enriched(a, vt, misp), raised)
  BY <1>1, <1>2
<1>4. Parts \subseteq DOMAIN a /\ a.allowed = Marked(a.iocs)
  BY DEF AllowlistSound, AlertSound, Marked
<1> DEFINE e == Enriched(a, vt, misp)
<1>5. /\ Parts \subseteq DOMAIN e
      /\ e.rule = a.rule /\ e.tier = a.tier /\ e.dedupe = a.dedupe /\ e.iocs = a.iocs
      /\ e.allowed = Marked(a.iocs)
  BY <1>4, EnrichedParts
<1> HIDE DEF e
<1>6. SameEvidence(b, e)
  BY <1>3, <1>5, AssessedParts DEF e
<1> QED
  BY <1>4, <1>5, <1>6 DEF SameSubject, SameEvidence

LEMMA ReassessFollows ==
  ASSUME AllowlistSound, VerdictsSound, VerdictsSound', Reassess,
         NEW a \in alert, NEW b \in alert', ~a.risk.degraded, ~b.risk.degraded
  PROVE  LET gain == EnrichmentStatus(b.status) - EnrichmentStatus(a.status)
         IN  /\ gain <= 0 /\ OnlyLost(a, b) => b.risk.score <= a.risk.score
             /\ gain >= 0 /\ OnlyStronger(a, b) => b.risk.score >= a.risk.score
<1>1. SameSubject(a, b) /\ SameSubject(b, a) /\ a.iocs = b.iocs
  BY ReassessedSubject DEF SameSubject
<1>2. VerdictSound(a) /\ VerdictSound(b) /\ Evidenced(a) /\ Evidenced(b)
  BY DEF VerdictsSound, VerdictSound
<1>3. a.risk.score = Clamp(Total(Factors(a))) /\ b.risk.score = Clamp(Total(Factors(b)))
  BY <1>2, VerdictStandsOf, Zenon
<1>4. EnrichmentStatus(a.status) \in Int /\ EnrichmentStatus(b.status) \in Int
  BY EnrichmentStatusInt
<1>5. \A k \in a.iocs : /\ a.vt[k] \in Record /\ a.misp[k] \in Record
                        /\ b.vt[k] \in Record /\ b.misp[k] \in Record
  BY <1>1, <1>2 DEF Evidenced
<1>6. ASSUME EnrichmentStatus(b.status) <= EnrichmentStatus(a.status), OnlyLost(a, b)
      PROVE  b.risk.score <= a.risk.score
  <2>1. \A k \in b.iocs : /\ VirustotalAward(b.vt[k]) <= VirustotalAward(a.vt[k])
                          /\ MispAward(b.misp[k]) <= MispAward(a.misp[k])
    BY <1>1, <1>5, <1>6, LostAward DEF OnlyLost
  <2>2. Clamp(Total(Factors(b))) <= Clamp(Total(Factors(a)))
    BY <1>1, <1>2, <1>6, <2>1, FactorsCompare
  <2> QED BY <1>3, <2>2
<1>7. ASSUME EnrichmentStatus(a.status) <= EnrichmentStatus(b.status), OnlyStronger(a, b)
      PROVE  a.risk.score <= b.risk.score
  <2>1. \A k \in a.iocs : /\ VirustotalAward(a.vt[k]) <= VirustotalAward(b.vt[k])
                          /\ MispAward(a.misp[k]) <= MispAward(b.misp[k])
    BY <1>5, <1>7, StrongerAward DEF OnlyStronger
  <2>2. Clamp(Total(Factors(a))) <= Clamp(Total(Factors(b)))
    BY <1>1, <1>2, <1>7, <2>1, FactorsCompare
  <2> QED BY <1>3, <2>2
<1>8. \A x, y \in Int : (x - y <= 0 <=> x <= y) /\ (x - y >= 0 <=> y <= x)
  OBVIOUS
<1>9. a.risk.score \in Int /\ b.risk.score \in Int
  <2>1. ASSUME NEW x, Evidenced(x)
        PROVE  Clamp(Total(Factors(x))) \in Int
    <3>1. Factors(x) \in [1..8 -> Int]
      BY <2>1, FactorsInt
    <3>2. Total(Factors(x)) \in Int
      BY <3>1, TotalInt
    <3> QED BY <3>2 DEF Clamp, AtMost
  <2> QED BY <1>2, <1>3, <2>1
<1> QED
  BY <1>4, <1>6, <1>7, <1>8, <1>9

(* What a step must do to the score for it to follow intelligence.         *)
Follows ==
  \A a \in alert, b \in alert' :
    LET gain == EnrichmentStatus(b.status) - EnrichmentStatus(a.status)
    IN ~a.risk.degraded /\ ~b.risk.degraded =>
         /\ gain <= 0 /\ OnlyLost(a, b) => b.risk.score <= a.risk.score
         /\ gain >= 0 /\ OnlyStronger(a, b) => b.risk.score >= a.risk.score

LEMMA StepFollows ==
  AllowlistSound /\ VerdictsSound /\ VerdictsSound' /\ [Next]_vars => [Follows]_alert
<1> SUFFICES ASSUME AllowlistSound, VerdictsSound, VerdictsSound', Next, alert' # alert
             PROVE  Follows
  BY DEF vars
<1>1. CASE Reassess
  BY <1>1, ReassessFollows DEF Follows
<1>2. CASE \E event \in Events : Ingest(event)
  <2>1. alert = {}
    BY <1>2 DEF Ingest
  <2> QED BY <2>1 DEF Follows
<1>3. CASE \E r \in AssetFile : LoadAsset(r)
  BY <1>3 DEF LoadAsset
<1>4. CASE \E e \in AllowFile : LoadEntry(e)
  BY <1>4 DEF LoadEntry
<1>5. CASE AssetsLoaded \/ EntriesLoaded
  BY <1>5 DEF AssetsLoaded, EntriesLoaded
<1> QED
  BY <1>1, <1>2, <1>3, <1>4, <1>5 DEF Next

(* A late enrichment that only loses records never raises the score, and   *)
(* one that only adds or hardens verdicts never lowers it, as long as the  *)
(* coverage credited moves the same way and the engine does not fail, for  *)
(* any number of indicators and every policy that passes validation        *)
(* (_threat_intel_factor, _virustotal_award, _intel_weights_within_factor_max). *)
THEOREM ScoreFollows == Spec => ScoreFollowsIntelligence
<1>1. AllowlistSound /\ VerdictsSound /\ [Next]_vars => [Follows]_alert
  BY VerdictsStep, StepFollows
<1>2. Spec => [][Follows]_alert
  BY <1>1, AllowlistInit, AllowlistStep, VerdictsInit, VerdictsStep, PTL DEF Spec
<1> QED
  BY <1>2 DEF ScoreFollowsIntelligence, Follows

=============================================================================
