# Verification of the SOC alert-triage service

TLA+ specifications of the triage service under `src/app/src/soc_triage` and of
the Wazuh integration script `src/wazuh/integrator/custom-triage.py`, the TLC
configurations that check them and the TLAPS proofs about them.  Paths below are
relative to `src/app/src/soc_triage` unless they say otherwise.  `PROJECT.json`
holds, for every definition, the source lines it stands for.

## 1. The system

The Wazuh manager starts the integration script once per alert; the script posts
the alert to a FastAPI process or spools it on disk.  The process suppresses
duplicates, enriches the indicators, scores the alert, decides whether to open an
incident, correlates it with other alerts and notifies n8n.  Analysts move
incidents, give feedback, assign, note and export incidents to TheHive through
the same API.  Everything the service knows is in one SQLite database.

| part | state it keeps | operations | correct when |
|---|---|---|---|
| Integration script (`custom-triage.py`) | spool files | flush, post with retries, spool, prune | an alert it gives up is logged; it never hangs |
| Deduplication (`ingest/deduplication.py`, `ingest/persistent_deduplication.py`) | `alert_dedupe_groups`, `alert_events`, `alerts` | one delivery | one alert per event and window; generations are the runs of alerts less than a window apart; counters agree with the log |
| Normalisation, asset inventory, indicators (`ingest/`, `enrichment/asset_inventory.py`, `enrichment/ioc*.py`) | the inventory loaded at startup | load, look up, extract | every listed asset answers for its identifiers |
| Ingest (`api/alerts.py`, `services/assessment_persistence.py`) | payload of an alert, `incidents`, `audit_log` | record, assess, open or join an incident, correlate, notify | every alert is assessed; an escalated alert belongs to an incident of its group; at most one open incident per group |
| Late enrichment (`services/late_enrichment*.py`) | none besides the tables | select a batch, re-read, re-enrich, re-assess | what the providers learn reaches the alert of record, and record and audit agree |
| Enrichment chain (`enrichment/`) | response cache, token buckets, the allowlist | look an indicator up at each provider | the quota is kept, a verdict is never served past its lifetime, the status tells the coverage |
| Scoring and decision (`scoring/`, `decisions/`) | none | score, decide | the score reconciles with its factors; more evidence never scores less |
| Incident lifecycle (`models/incident.py`, `api/incidents.py`, `api/feedback.py`) | `incidents`, `audit_log` | status request, feedback, containment request | a closed incident stays closed; timestamps and audit rows agree with the status |
| Auto-close sweeper (`sweeper.py`) | none besides the tables | select a batch, close, skip, fail | only stale incidents are closed, and every stale one is |
| Correlation (`correlation/`) | `correlation_contexts`, `correlation_members` | correlate a new alert: found, join or merge contexts | related alerts are in one context, nothing else is; merges keep the earlier context and lose nobody; the audit log replays to the memberships |
| Notification (`notifications/`) | `notification_attempts` | check, send with retries, record | one series of requests per alert; a delivery on record happened |
| Assignment, notes, TheHive export (`api/incident_*.py`, `thehive/`) | rows of `audit_log`; cases in TheHive | append, project, export, recover | the projection is the last assignment; one case per incident, the same on every answer |

How they run.  The API is `async def` handlers on one uvicorn worker.  The
handlers that write contain no `await` between their first read and their
commit, so two handlers never interleave; the calls they make to providers, n8n
and TheHive keep the event loop.  The auto-close sweeper and the late-enrichment
sweep run in worker threads (`asyncio.to_thread`), so either can interleave with
a handler.  Sessions are opened with `autoflush=False`, and pysqlite begins a
transaction only at its first data-modifying statement: reads made before that
statement hold no lock, and another thread can commit between them and the
write.  This is where the hard behaviour comes from:

* a handler acts on a row the sweeper's thread has changed since (lifecycle);
* two workers both find no open incident, or the same next number (pipeline);
* a process dies between two of an alert's transactions, or between a call to
  the outside and its record (pipeline, delivery, export);
* a caller that times out does not know what the other side did (script, n8n,
  TheHive);
* a bounded batch is selected again and again (both sweeps);
* a cache and a bucket shared by two threads of which only some operations lock;
* time: windows and horizons on a wall clock that may step back, retries of the
  sender, deliveries exactly at the edge of a window;
* identifiers that are strings: numbers that outgrow their padding, names that
  differ in case, addresses inside a network.

`PROJECT.json` lists every such hazard with its line and the properties aimed
at it.

## 2. Modules

| module | models | composed from |
|---|---|---|
| `DedupeContract` | what deduplication promises: the answer to a delivery as a function of the log of earlier ones | |
| `Dedupe` | `PersistentDeduplicator.process`, `decide_delivery` and the tables | instantiates `DedupeContract` as its refinement |
| `IncidentLifecycle` | status requests, feedback and the auto-close sweeper | |
| `TriagePipeline` | ingest, `persist_assessment` and the late-enrichment sweep | |
| `DayNumbers` | the numbers of incident and context ids, compared as strings of digits | |
| `Correlation` | `CorrelationService.correlate`, the evidence policy and the two correlation tables | extends `DayNumbers` |
| `IntelLookup` | the chain of providers with retries, token buckets and response cache | |
| `Delivery` | the integration script, its spool, the answers of the endpoint and the notification of n8n | |
| `Desk` | incident numbers, assignment, notes and the export to TheHive | extends `DayNumbers` |
| `Scoring` | factors, score, tiers and decision under a policy | |
| `Assessment` | policy files, normalisation, extraction, matching, assessment and re-assessment of one alert | extends `Scoring` |
| `DedupeProofs`, `LifecycleProofs`, `TriagePipelineProofs`, `CorrelationProofs`, `AssessmentProofs`, `DeliveryProofs`, `IntelLookupProofs`, `DeskProofs` | theorems | each extends its module |
| `MCDedupe`, `MCTriagePipeline`, `MCCorrelation`, `MCIntelLookup`, `MCDelivery`, `MCDesk`, `MCAssessment` | values for TLC | each extends its module |

A definition named `X_Something` in front of `X` is a plausible wrong version of
`X`.  Each property is paired in `PROJECT.json` with one that breaks it; nothing
else uses them.

How the modules fit together.  `Delivery` ends where an alert is recorded; what
it says of re-deliveries is `DedupeContract`'s window.  `TriagePipeline` treats a
run of the chain as one step with any outcome; `IntelLookup` is that run, and
`StatusTellsCoverage` the rule `Assessment` uses for the status.  `TriagePipeline`
treats score and decision as a function of what the providers know; `Assessment`
and `Scoring` are that function.  `IncidentLifecycle` starts with an incident that
`TriagePipeline` opened, and `TriagePipeline` sees the lifecycle only as
`LeaveOpen`: no transition returns to `open`.  `Correlation` and `Desk` touch no
state of the others.

### Dedupe

`now` is the clock that stamps `received_at`; `groups`, `events` and `alerts`
are the three tables as functions on the keys that have a row; `audit` holds the
rows of the deliveries.  One delivery is one step: `load_state` starts with a
DELETE, which takes the write lock, and the process holds an `RLock` around the
transaction.  The three answers are three actions, `AbsorbDuplicate`,
`StartGeneration` and `RecordRecurrence`; the prune of expired records
(`Retained`, `Pruned`) is part of each.  A failed transaction leaves everything
as it was and is a stuttering step; a restart is one too.  The fresh alert id
is the ordinal of the delivery.  Event identities and payload fingerprints are
model values, and `GroupOf` is a constant, since the identity embeds the rule
and the agent.

`Contract` reads the audit log as the contract's log.  The contract has no
counters and no pruning; that the deduplicator, which forgets records, answers
as if it remembered the whole log is what the refinement says.

### IncidentLifecycle

A request is two steps: `BeginPatch` or `BeginFeedback` reads the row and checks
`VALID_TRANSITIONS`, and `CommitUpdate` flushes the columns it assigned by
primary key and appends the audit rows (or `AbortUpdate` rolls back).  At most
one request is in flight, but the sweeper can act between its two steps.  The
sweeper's pass is `SweepSelect` (one transaction) and then `SweepClose`,
`SweepSkip` or `SweepError` for each candidate in order (one transaction each).
`Create` stands for incidents opened by the pipeline.  `Restart` drops what was
not committed.  Severity, group and actor names have no effect on the lifecycle
and are left out.

### TriagePipeline

`known` is what the providers, outside the program, know of an alert's
indicators; `alerts` and `incidents` are the tables; `scored` is the newest
`alert.scored` row of each alert; `jobs` says where the ingest handler and the
sweep's thread are inside `persist_assessment`; `queue` is the rest of the
sweep's pass.  `persist_assessment` is split at its reads: `Lookup`
(`open_for_group`), `Number` (`_next_id`), then `Commit` or `Rollback`.  A
chain run returns what the providers know, or a failed lookup's record
(`ChainResults`).  Scoring and decision are deterministic functions of the
enriched alert, so one verdict stands for the assessment and `Escalates` for the
decision.  `LeaveOpen` is the interface to `IncidentLifecycle`: no transition
returns to `open`.  The lookback window holds every alert of the model.

### Correlation

`alerts` holds the alerts recorded, each with its kind (rule, agent, ATT&CK
techniques, indicators that are not allowlisted) and `received_at`; `members`
and `contexts` are the tables; `audit` the rows of contexts.  `waiting` is true
between the commit that recorded the newest alert and its correlation: the
handler awaits nothing in between, so there is at most one such alert.  The
correlation is one step, `FindNothing`, `Found` or `Join`, since nobody else
writes the two tables and a lock is held around the transaction; it rolls back
as a whole.  `Lose` is a correlation that failed, or whose process died first:
`_correlate_alert` swallows the failure and nobody tries again.  `Join` contains
the merge: `Moved` (`move_members`), the deletion of the emptied contexts and
`Refreshed` (`refresh_bounds`).  Context ids are pairs of a day and a number.
`IdBefore` orders them, and `IsNextId` takes the maximum of those still in the
table, by the digits of their padded numbers (`DayNumbers`): past the padding the
maximum no longer moves and the order is not that of creation.  A new context
whose id is taken fails at its insert (`IsFree`), and its correlation is lost.  A
membership keeps the set of
alerts its evidence names.  A directional address match suffices as any shared
indicator does, so the three types of indicator evidence are one.  The clock does
not step back; a step back would make newer alerts invisible to `candidates`.
Indicators and allowlist do not change after ingest, late enrichment changes
verdicts only.

### IntelLookup

`workers` says where each run of the chain stands: the provider, the indicators
still to do in the loop it is in (cache gets, lookups, puts), the records so far.
The loops go through the indicators in their order (`Current` is the first of
those left), so a set says what is left of them.
One chain serves the ingest handler and the sweep's thread, so every cache
transaction, token and request of one can fall between two of the other.
`bucket` holds tokens in ticks of refill; taking one is a step of its own under
the bucket's lock.  `CacheGet` and `CacheExpire` are the read and the delete by
primary key of an expired row; `PutRead` and `PutWrite` the two halves of a put
under the cache's lock.  `autoflush=False` makes `_evict_overflow` count the rows
without the pending one (`Victims`), and delete a victim it has just refreshed.
Which of found and not_found an answer is has no effect here, nor which failure a
failed record names: one value each.  `answered` (when the upstream answered) and
`taken` (when tokens were taken) are for the properties.

The rows an earlier process left (`Stored`) were stored under the same policy:
answers of the providers with the same lifetimes, within the same `max_entries`
(`StoredAssumption`).  The cache is modelled enabled, which is not its default.  `purge_expired` and
`clear`, which no code of the service calls, are left out.

### Delivery

One invocation of the script at a time, as the manager starts them: `script` is
the running one, with the batch it drains and the attempt it is in; `spool` the
files, oldest first, so those past their age are a prefix of it (`Aged`, `Fresh`),
and `Without` removes one file that may be gone already.  A request in `inbox` is served by one `handler`; a script
that timed out leaves its request there (`awaited` false).  `seen` and
`KnownEvent` are the deduplicator's answer: the model keeps the time of an
event's last delivery, which is all that `DedupeContract` needs to tell a
duplicate from a new alert.  `HandleNew` records the alert and goes on to the
notification: `BeginSend`, the attempts (`Acknowledge`, `Refuse`, `Unanswered`,
each with what n8n got and what the client saw), `RecordNotification`.
`KillScript` and `KillService` may happen at any step.  `ended` and `dropped` are
history: the alerts whose invocation ran to its end, and those given up with a
line in the log.

The client is modelled enabled; a disabled client, or a body that does not
serialise, is `NotSent`.  A check that an alert was already notified never
succeeds, since the alert id is fresh whenever the handler gets there; so the
check is not a branch of the model.

### Desk

`audit` is the audit log in the order of its ids, with a time per row; `UpTo` is
the order by time and then id in which `for_entity_ids` returns it, and the
assignment, like the case on record, is the last row of its kind (`LastValue`).  An export is
`BeginExport` (reads), `Recover` or `FindNothing` (the search in TheHive),
`CreateCase`, `AddObservable` for each indicator, and `CommitExport`.  Each call
may fail before or after it took effect in TheHive, and `AbandonExport` rolls the
transaction back wherever the export stands.  A search lists one page (`Pages`)
and matches by tag or by the id in the title: `Matches` contains the prefix of a
longer number.  `blind`, `answers` and `wanted` are history.

### DayNumbers

Incident and context ids end in a number of the day, padded to `Width` digits to
the `Base` (4 and 10 in the code), and are compared as strings.  `Size` is how
many digits a number is written with, `Fits` says that they are within the
padding, `Begins` that the digits of one number are the first of another's,
`Below` is the order of the strings and `IsLast` the maximum that SQL's `MAX`
returns.  Only numbers of one day are compared, so the date in front is left out.

### Scoring and Assessment

`Scoring` is arithmetic on the evidence of one alert, under constants that are a
validated policy (`PolicyAssumption` holds the loaders' checks).  A factor is its
points; the sentences explaining it are left out.

`Assessment` starts with the policy files: `LoadAsset` and `LoadEntry` are one
entry of the inventory or the allowlist with every check of the loader, and a
refused file ends the service.  An event is a record of a few fields; a field
holds spellings, each a text and the form it was written in: plain, in capitals or
defanged.  `Forms` says in which forms a type is recognised and `Text` what is
left of one: the local part of an email, the path and the query of a URL keep
their capitals (`InCapitals`), everything else is folded.  A text is also read for
the domain in an email and the host of a URL (`Inside`), which are written in the
form of the whole (`Within`).  Indicators are kept in the order of their texts
(`Place`), which for addresses is not that of their numbers (`TextPlace`).
`Ingest` is the whole chain from the event to
the stored assessment; `Reassess` is the sweep's guarded re-assessment.  What the
providers return is any record of `VtRecords` and `MispRecords` per indicator, or
an exception of the provider; the engine may raise (`degraded_score`).

Read from the code and built in: IPv4 is matched by the defanged pattern but not
refanged before it is parsed, so a defanged address is dropped, also as the host
of a URL that is kept; `max_iocs` cuts
before the allowlist is asked; a label of whitespace only is not filled from the
inventory; the points of a factor may exceed its declared `max`; a degraded
assessment is not repaired while the fingerprint stays the same; the enrichment
status is not part of the fingerprint; a criticality band is known by its aliases
only; the identifiers of a repeated asset are compared in the order they are
listed in.  Which spelling of a name listed twice survives depends on the order of the
file, tier and owner do not (`ListedAssetsAnswer`).

## 3. What the runs check

Deadlock checking is off everywhere because the bounds (deliveries, clock,
requests, alerts) end every behaviour.

| run | instance | distinct states | result |
|---|---|---|---|
| `dedupe` | 3 events in 2 groups, 2 fingerprints (symmetric), `Window` 2, clock 0..5 forward only, 5 deliveries | 1.5 M | `TypeOK`, `SecondAlertOnlyAfterWindow`, `RetentionBounded`, `ImplementsContract` hold |
| `dedupe_clock` | as above, clock steps +3 and -1 within 0..4, 4 deliveries | 1.8 M | `GenerationsAreWindowRuns`, `CountersMatchAudit` hold even so |
| `lifecycle` | 2 incidents, 2 requests, `TTL` 2, batches of 1, clock 1..4 | 193 k | five safety properties and `StaleEventuallyClosed` hold |
| `pipeline` | 3 alerts of one group, batches of 3, one restart, sweep enabled | 8.1 M | `RecordMatchesAudit`, `EscalationHasIncident`, `IncidentsHavePrimaries`, `OpenIncidentsBounded` hold |
| `pipeline_live` | 2 alerts, batches of 2, one restart | 110 k | `NewsReachesRecord` holds |
| `pipeline_two_open` | 2 alerts of one group, batches of 2, no restart | | `OneOpenIncidentPerGroup` is violated |
| `pipeline_restart` | 2 alerts, batches of 2, one restart | | `BacklogAssessed` is violated |
| `correlation` | 4 kinds on 2 hosts (symmetric in pairs), `Window` 2, days of 8 ticks starting at tick 5, numbers of one digit to the base 3, 9 alerts, a lost one counted four times | 420 k | four invariants and `MergesKeepTheEarlier` hold |
| `enrichment` | 2 workers, 2 runs, 2 indicators, 2 providers of which one is limited, a cache of one row filled by an earlier process, 2 attempts, clock 1..2 | 215 k | four invariants and `RunsEnd` hold |
| `delivery` | an alert, one that is refused and one that is filtered; spool of 1 with lifetime 2, batches of 1, `Window` 1, 2 attempts on either side, clock 0..3 | 2.2 M | three invariants and `InvocationEnds` hold |
| `desk` | numbers of one digit to the base 3, pages of 1, 2 indicators (symmetric), 2 cases, 2 audit rows, clock stepping both ways | 2.5 M | five invariants hold |
| `assessment` | the bundled policies; 8 inventory records of which 3 are listed, 5 allowlist entries of which 2 are listed, 9 events, 2 indicators kept per alert; alerts are served from two inventories only (`ServedInventories`) | 18 k | three invariants and `ScoreFollowsIntelligence` hold |

Why the bounds are enough to meet the interesting cases:

* Deduplication: with a window of 2 and a clock to 5 a record expires, is
  re-created and is delivered to exactly at, before and after the edge; a group
  goes through two generations with duplicates between; two events of a group
  let one recur while the other expires; the third shows that a delivery prunes
  its own group only.  Two fingerprints suffice, a divergence compares two.
* Lifecycle: two incidents and batches of one exercise the order of the passes;
  two requests acknowledge and then resolve an incident, or leave one in flight
  over a close; with a TTL of 2 and a clock to 4 an incident goes stale, is
  touched, and goes stale again.  The theorems hold for every bound.
* Pipeline: two alerts of a group race to open an incident, a third can join or
  follow; the restart can fall between any two steps.  Two alerts are enough for
  `pipeline_two_open`: the sweep re-assesses the first while the handler assesses
  the second, and the worker that is second reads its number after the other's
  commit.  Had both read it before, the primary key would stop the second.
* Correlation: two kinds share one indicator and two another; two kinds share
  host and technique, which suffices, two pairs share rule and technique, and two
  kinds only their host, which do not.  Swapping the rules, the techniques and the
  indicators maps the kinds onto each other, a sound symmetry.  Time advances one tick per alert, so a window of 2 has
  candidates inside, at and beyond its edge.  Two alerts arrive on the first day and
  seven on the second, so contexts of both are merged.  Six alerts of a day found
  three contexts, of which two have numbers that fit the padding: the third is
  before the second as a string and is what a merge of the two keeps, or a further
  one meets its number and is lost; and a context can be founded under the id of one
  merged before.  A lost correlation takes the budget of three more alerts.
* Enrichment: one token and one tick of refill make the second lookup rate
  limited or refilled; the stored row expires during the run, so both workers can
  find it, one deletes it and the other stores over it; the cache of one row
  overflows with the second verdict; an indicator of one provider only, one of
  both and an empty batch give every status.
* Delivery: the alert can be posted, time out, be retried while its first request
  is still in hand, be spooled, drained by the next invocation, and arrive again
  within and after the window; the spool's one entry overflows, ages out and
  blocks behind a service that is down.
* Desk: the third incident has a number of two digits, so the fourth would repeat
  a number and a title contains another's id; one page of two cases hides either;
  two rows of the log have equal, rising and falling times.
* Inventory: two records of distinct assets beside others that repeat one of them
  in another spelling, list its addresses in another order (refused), differ in
  tier (refused), claim an address (refused), have no agent or no tier (refused),
  three of them in every order of the file; `ListedAssetsAnswer` looks up the agent
  of one record with the address of another and the name of a third.  Alerts see
  one record each, so they are served from the empty inventory and from one of two
  records, which differ in what an agent and an address lead to.
* Assessment: the events fall into four of the six bands of rule severity, at and
  past the span of a recurrence, at and below the number of tactics that counts
  double, and the records at and below the thresholds of the awards.  The
  allowlist's network is written with a host bit set, addresses in it and on
  both sides of it occur, and another entry is refused for its spelling; an
  address is the host of a URL, in capitals and defanged; an email and a URL occur
  in capitals that normalisation keeps; an event brings three indicators of which
  two are kept.

What the properties say about the code:

* `SecondAlertOnlyAfterWindow`, `ImplementsContract`: although the record that
  recognises a duplicate is deleted, deduplication acts as if the whole log were
  kept.  Both need a clock that does not step back (`MonotoneClock`);
  the properties of `dedupe_clock` do not.
* `OnlyAutoCloseIsOverwritten`, `AuditChain`: the exact extent of the race between
  request and sweeper.  A close by an analyst is final; an automatic close gives
  way only to a request that was in flight, and this is visible in the audit log
  as a break between two consecutive rows.
* `ClosesOnlyStale`: however long a candidate has waited in the pass, at its
  close no analyst has touched it for a TTL.
* `TimestampsWitnessStatus`, `AuditTellsStatus`: the two threads commit row and
  audit in the same order, whatever timestamps they drew.
* `OpenIncidentsBounded`: a group's open incidents never exceed the number of
  workers: the race cannot accumulate.
* `NewsReachesRecord` exempts an alert that is `Blocked`: one that is the
  primary alert of an incident no longer open, in a group without an open one.
  The `UNIQUE` constraint on `primary_alert_id` rolls back each re-assessment
  that would open another incident for it.
* `RelatedAreTogether` and `ContextsConnected` say from both sides that a context
  is a connected component of the evidence: related alerts are never apart, and
  no two groups of alerts are together without evidence that links them.
* `HistoryReconstructable`, `MergesKeepTheEarlier`: the docstrings' claims that
  the audit log tells every membership and that the earlier-created context wins
  survive the reuse of an id, because the rows of a reused id follow those of its
  merge and a number is only reused upwards of all that are left.  The second
  claim is stated for numbers that fit their padding (`Aligned`) and fails beyond;
  that nobody is left behind holds for any numbers.
* `LookupsWithinQuota`: what two workers take from a bucket together stays within
  capacity and refill over every stretch of time.  It counts lookups, not
  requests: retries take no token.
* `ServedVerdictsAreFresh`: a verdict is used only within its lifetime since the
  upstream gave it, whoever stored it and whatever was deleted in between.
* `CacheBounded`: the cache overshoots its limit by one row and never by more.
* `StatusTellsCoverage`: the statuses folded twice, over records and over
  providers, still say how much of what should be asked was answered.
* `NoSilentLoss`: every alert whose invocation ended is recorded, on disk or named
  in the log.  A killed script loses its own alert without a line; it has not
  ended.
* `NotifiedOncePerWindow`, `DeliveredMeansReceived`: retries on three levels (the
  script's, the spool's, the client's) never start a second series of requests
  within the window; the record of a notification is one-sided, a delivery on
  record happened but a delivery that happened may be on record as failed or not
  at all.
* `NumbersStayFresh`, `ExportsAgree`, `CasesAccountedFor`: up to the padding of
  four digits, the day's numbers never repeat and every export of an incident
  answers with the same case of its own.  A second case needs a search that missed
  the first.  At 10 000 incidents in a day the next number is taken for ever, and
  "INC-...-1000" is contained in the title of "INC-...-10000".
* `CountsAreTrue`, `AssignmentsTakeEffect`: what the log says of an export is what
  TheHive holds; the assignee shown is the last one asked for as long as the clock
  does not step back between the writes.
* `ListedAssetsAnswer`: with any inventory that loads, each record answers for what
  it lists, whichever namesakes were dropped before or after it, and an agent
  goes before an address and an address before a name.
* `AllowlistedIsSuppressed`: of the indicators that extraction finds, matching by
  canonical keys and masked networks suppresses those an entry covers and marks no
  other.  It says nothing of what extraction does not find: the indicators beyond
  `max_iocs`, a defanged IPv4 address, and an email or URL
  that differs from the entry in capitals which normalisation keeps.
* `StoredVerdictStands`, `ScoreFollowsIntelligence`: the stored assessment is
  always that of the stored evidence, and a late enrichment moves the score in the
  direction of what it learnt.

### Fairness

`IncidentLifecycle`: weak fairness of `SweepSelect` and of the candidate at the
head of a pass, because `run_sweeper_loop` repeats passes for ever and
`sweep_once` works through its list whatever a candidate's transaction does.
Strong fairness of each incident's `SweepClose`: a database fault or a crash may
befall any attempt but not every one.  No fairness of requests or of the clock.

`TriagePipeline`: weak fairness of both workers' steps and of the sweep's
selection, the loops of `late_enrichment_sweep.py`.  Strong fairness, per alert,
of the chain reporting what the providers know and of a commit: an alert that is
tried again and again is not failed every time.  No fairness of `Record`,
`Learn`, `LeaveOpen` or `Restart`.

`IntelLookup`: weak fairness of each worker's steps, straight-line code on its
own thread; every answer of the upstream, failures for ever included, is allowed.

`Delivery`: weak fairness of the script's steps only, because each of its posts
carries a timeout.  Nothing is assumed of the service, of n8n, of the manager or
of the clock; `InvocationEnds` holds although the service may never answer.

The other modules state safety properties only.

### Disagreements between code and documentation

1. `pipeline_two_open`: `models/repositories.py:592` says alerts of a group join
   the open incident instead of creating a second.  With the sweep enabled two
   workers can create one each.  The sweep is off by default, and without it
   the statement is a theorem (`IngestAloneOpensOne`).
   What it takes is one worker reading `_next_id` after the other's commit, both
   having found no open incident before.
2. `pipeline_restart`: `services/late_enrichment_sweep.py:166` says alerts left
   behind by a restart are re-assessed.  The fingerprint guard skips those whose
   enrichment has not changed, assessed or not.

Seen while reading, with no run of their own:

* `models/incident.py:71` says a closed incident never changes state again.
  `update_status` checks the row it read and updates by primary key; the sweeper
  can close the incident in between.  `OnlyAutoCloseIsOverwritten` states, and
  proves, exactly how far this goes.
* `correlation/service.py:256` says the earliest-created context wins because the
  ids sort chronologically.  From the 10 000th context of a day on they do not:
  "CORR-...-10000" comes before "CORR-...-9999" and before "CORR-...-1001", so a merge
  can keep the context created later (hence `Aligned`), and since `_next_context_id`
  takes the maximum of the strings, further contexts of the day collide and their
  correlations are lost.
* `enrichment/extractor.py:69` says dots in brackets are accepted because
  normalisation rewrites them.  `normalize_ipv4` does not: an address written so,
  alone or as the host of a URL, is captured and dropped, and an allowlist entry for
  it has no effect.  `Assessment` models it so (`Forms`, `Within`).
* `models/repositories.py:278` says a backlog drains.  An examined alert stays in
  the lookback window and each pass takes the oldest 200, so with more in the
  window the newest are not looked at until the older ones age out.
  `NewsReachesRecord` is therefore checked with batches that cover the window.
* `ARCHITECTURE.md:497` says the conditional close requires `resolved_at IS NULL`,
  which is not in the statement's WHERE clause; so an incident reopened as above
  may be stamped a second `resolved_at`.
* `ARCHITECTURE.md:893` describes a retry of pending notifications that no code
  implements.
* `enrichment/cache.py:32` says the cache has at most `max_entries` rows; it may
  hold one more (`CacheBounded`).
* `enrichment/virustotal.py:18` says rate limiting respects 4 requests a minute;
  a retry takes no token (`LookupsWithinQuota` counts lookups).
* A late re-enrichment whose lookup fails replaces a FOUND payload with the
  failure's record, and the score drops with it (`ScoreFollowsIntelligence` bounds
  the direction, not the loss).
* `enrichment/asset_inventory.py:14` says lookups are independent of the file's
  order; the surviving spelling of a repeated name does depend on it.
* `allowlist_from_mapping` has a branch for an entry equal to an existing key's
  under another id that no input reaches.

## 4. What is proved

TLAPS checks the theorems for every value of the constants that satisfies their
module's assumptions.

`DedupeProofs`:

* `TypeCorrect`: `Spec => []TypeOK`, for any clock.
* `SpecRemembers`: under `MonotoneClock` the invariant `Remembered`: what pruning
  forgets can no longer matter.  An alert or an audited delivery is either still
  visible in its event's record or more than a window old (`AlertsCovered`,
  `AuditCovered`); no record lies in the future (`RecordsNotInFuture`); each
  record repeats the last delivery of its event (`RecordsBacked`), and each
  group's `last_seen` that of its last distinct event (`GroupsBacked`).
* `OneAlertPerWindow`: `SecondAlertOnlyAfterWindow` follows.  It is not inductive
  alone: nothing in it says that the record of a recent alert survives pruning.
* `RefinesContract`: `Spec => ImplementsContract`.  `RecordsBacked` gives the
  delivery a duplicate is answered from, `AuditCovered` the absence of one when
  an alert is made, `GroupsBacked` decides between a recurrence and a new
  generation.
* `RecordsStayBounded`: under `MonotoneClock`, `[]RetentionBounded`.
* `StampsFollowGaps` (`[]GenerationsAreWindowRuns`, any clock): inductive with
  `NewestStamped`, which says that a group's row carries the stamps of the group's
  newest alert, whether or not that alert still has a record.
* `CountersRecount` (`[]CountersMatchAudit`, any clock): inductive with
  `AuditedAlertsKnown`, no row of the log names an alert that does not exist, so
  that a fresh alert starts with nothing to count.

`TriagePipelineProofs`:

* `Inv` is `TypeOK`, finiteness of the incident table, `RecordMatchesAudit`,
  `EscalationHasIncident` and `JobBacked` for both workers.  `JobBacked`
  strengthens: a number read without a lock is at most one past the end of the
  table, so at the commit it is the next number or its key is taken, and an
  incident found by `Lookup` keeps its row and its group.
* `TypeCorrect`, `RecordAgreesWithAudit`, `EscalatedBelongs` follow from `Inv`.
* `PrimariesBelong` (`[]IncidentsHavePrimaries`) is inductive given `Inv`.
* `OpenIncidentsAreBounded` (`[]OpenIncidentsBounded`): `RoomToOpen` counts the
  open incidents of a group together with the workers about to open one, which
  are never more than the workers; a worker that found none counts for none of
  the others' incidents.
* `IngestAloneOpensOne`: with `~LateSweepEnabled`, `[]OneOpenIncidentPerGroup`
  (which `pipeline_two_open` refutes with the sweep enabled), from `SoleInv`, which adds that no open incident of the group has appeared
  since the handler found none.

`LifecycleProofs`, for any TTL, batch limit and bounds:

* `Inv` is the shape of the rows and, for each incident, `Told` (the newest status
  row states the status), `Chained`, `Witnessed` and `Timed` (no row is later than
  the clock).  Neither of them is inductive alone: what a request writes depends on
  what it read before the sweeper acted.  `Current` ties the two together: the
  newest row of the incident still tells the status the request has read, or is an
  automatic close of that status.  `SweepSound` does the same for the candidates of
  a pass.
* `LogTellsStatus`, `LogIsChain`, `TimestampsWitness` follow from `Inv`;
  `ClosedStaysClosed` and `SweeperClosesStale` are the steps' properties under it.
  The lemmas are about one incident and two versions of the log: a log to which one
  status row was added (`Extended`) and one to which only other rows were
  (`Padded`).

`CorrelationProofs`, for any kinds, window, length of day and forward clock:

* `Inv` is the shape of the rows, `InOrder` (alerts are recorded in the order of
  their times), `Waits` (a waiting alert is in no context), `EvidenceStaysInside`
  and `RelatedAreTogether`.  `InOrder` makes every related older alert a
  candidate of the newest, `Waits` keeps the membership guard from skipping it.
  `Found` and `Join` are treated as one step, `Links`, whose effect on the
  membership table is the lemma `LinkedRows`.
* `EvidenceInside` and `RelatedTogether` follow from `Inv`.
* `MergesIntoTheEarlier`: `Spec => MergesKeepTheEarlier`, from `IdsInOrder`: the
  order of ids is the order of creation as long as the numbers fit their padding
  (`Earlier`), the day of an id is the day of creation, and no context is newer than
  the newest alert.  Numbers that fit are ordered as their strings
  (`BelowIsLess`), and one more than the maximum fits only if the maximum does
  (`FitsBelow`); so a new context whose number fits comes after all those of the
  day whose numbers fit.
* `EvidenceConnects` (`[]ContextsConnected`): `Renews` is what `Found` and `Join` do
  to both tables.  A part of the new context without evidence across its border
  takes each old context whole, as that was connected, and each peer with the new
  alert; so it is everything or nothing.
* `LogTellsHistory` (`[]HistoryReconstructable`) from `LogTellsContexts`, which says
  the same of alerts yet to come: no row of the log may name them.  `ReplayedOnto`
  is the effect of one more row on the replay.

`AssessmentProofs`, for any policy files, events and answers of the providers:

* `InventoryAnswers`: `Spec => []ListedAssetsAnswer` from `InventorySound`:
  accepted records are pairwise separate in name, agents and addresses, and every
  listed one has an accepted namesake with the same content.
* `AllowlistSuppresses`: `Spec => []AllowlistedIsSuppressed` from `AllowlistSound`:
  every listed entry has an accepted one with the same key and the other way
  round, and the stored alert's matches and decision are those of its indicators.
  `KeyCovers` relates the key (a masked interval) to what an entry covers (equal
  quotients), `MatchCovers` says that a match is nothing else, and `NothingCut` is
  why an alert of at most `MaxIocs` indicators keeps them all.  What a text
  contains is a constant of the module, so the theorem is about the indicators
  extraction finds and not about those a reader would see.
* `VerdictStands`: `Spec => []StoredVerdictStands` from `VerdictsSound`: the stored
  assessment is what the engine, or its fallback, makes of the stored indicators,
  and their records have the types the sums count on.  `SameVerdict` is why writing
  the result back changes nothing the engine reads; `TierHolds` walks the bands of
  the policy from 0 to 100, so every clipped score is in the band that
  names its tier.
* `ScoreFollows`: `Spec => ScoreFollowsIntelligence` from `AllowlistSound`, which
  fixes the allowlist factor of a late enrichment, and `VerdictsSound`.  Award by
  award (`LostAward`, `StrongerAward`; the latter needs the policy's order of its
  weights), then sum by sum, then through the caps and the clipping.
* Both rest on sums over finite sets.  The folds of the community modules define
  their recursive function by CHOOSE, so that there is such a function is shown
  for the subsets of each size in turn (`AdditionExists`); what is claimed of its
  values, that they are integers and that summands that are no greater make a sum
  that is no greater (`SumsCompare`), goes the same way.

The policy's fields are typed by assumptions of `Scoring`, one for each section of
the policy: every weight is a natural number because `scoring/policy.py` declares it
`Field(ge=0)`, save an asset's band and an enrichment status, plain integers
there.  That the bands cover 0 to 100, that weights are ordered and that tiers have
an action (`PolicyAssumption`) are the loader's validators.  A provider's record is
in `Record` because `_evidence_count` reads anything else as 0.

`DeliveryProofs`, for any events, limits and window:

* `ServiceInv` is about the service's part of the state alone: whatever the script
  sends, the deduplicator knows each alert's event at the time of the alert or
  later (`Remembered`), alerts of one event are a window apart (`Spaced`), and the
  row of the alert in hand agrees with the handler's stage (`Serving`): nothing
  received before the series begins, no more receipts than attempts during it, a
  receipt behind every result "delivered".
* `OneSeriesPerWindow` and `RecordedWasReceived` follow.
* `AlertsAreAccountedFor` (`[]NoSilentLoss`) needs the script's side too:
  `DeliveryInv` adds that the script waits for one request at most, that of the
  body in its hands (`AwaitedIsInHand`), and that a 2xx is given for an alert of
  record only (`AnswersAreTrue`), wherever either side was killed before.

`IntelLookupProofs`, for any workers, providers, indicators, lifetimes and limits:

* `QuotaKept`: `Spec => []LookupsWithinQuota`.  The property does not mention what
  is left in the bucket and is not inductive; `Accounted` does: for every token
  taken, those taken since and those left are paid for by a full bucket and the
  refill since.
* `ChainInv` is about each run apart (`RunOK`: the records in hand are `Genuine`,
  the finished providers' statuses agree with what was asked of them, and in a loop
  every indicator of the provider is to do, pending or recorded) and about the
  rows of the cache (`CacheInv`: a row is a definitive answer with the expiry its
  own lookup gives it).  The runs meet in the cache only, so the steps of another
  worker disturb nothing but `CacheInv`.
* `VerdictsAreFresh`, `CacheStaysBounded` and `StatusesTellCoverage` follow.  For
  the first the two readings of the clock matter, at the start of a run and at a
  lookup; for the last `StatusesTell` shows that folding the statuses of the
  providers loses nothing about coverage.

`DeskProofs`, for any base and padding of the numbers, any page size and bounds:

* `NumbersAreFresh`: while they fit, the numbers of a day are `1..N`
  (`Consecutive`): numbers that fit are written with as many digits as the padding
  (`SizeThatFits`), and the order of their strings is that of the numbers
  (`BelowIsLess`).
* `CasesAreAccountedFor`: `CasesCounted` adds that an export about to create a case
  knows whether its lookup missed one, and whose case is in hand.
* `ExportsAgreeOnACase`: `Recorded` says that an incident has one row of its export,
  about a case that is its own as long as the numbers fit, that an export is in
  progress only for an incident without such a row, and that every answer is on
  record.
* `CountsStayTrue` adds `SentIsHeld`: the case in hand holds what was sent and is on
  no row yet.
* `AssignmentsAreShown`: inductive given the types.

Where a proof needs induction over a number (the size of a number, the replay of a log, the
maximum of a finite set) it is by the least element of the set of counterexamples, from the
well-foundedness of `<` on `Nat`: the library's induction theorems take an operator
as a parameter, which the installed provers cannot instantiate.

Only model-checked: the liveness properties (fairness and ENABLED are out of the
prover's reach).

## 5. Not modelled

* The composition of ingest with the lifecycle on one incident table: an alert
  joins an incident without writing its row, so the two share only which incidents
  are open, and `LeaveOpen` is all that `TriagePipeline` sees of it.
* The in-memory deduplicator: the same `decide_delivery`, used by tests only.
* `reassess` and `reassess_persisted`, which no endpoint calls, and the lower
  end of the lookback window.
* The patterns that find indicators in text, and the URL and domain grammars:
  `Assessment` takes what they recognise as a table of forms.
* Read-only endpoints, statistics, the timeline and the sentences of an
  explanation: queries without state; the explanation's check that the factors add
  up is `Reconciles`.
* Configuration, logging, metrics, authentication, storage engine: the locking
  and transaction rules are in the grain of the actions; the rest is set-up.
* The n8n workflows, the console, deployment, MISP seeding and evaluation: other
  programs.

## 6. What is left

* Refinements: `Delivery`'s window as an instance of `DedupeContract`, and a run of
  `IntelLookup` as one step of `TriagePipeline`'s chain.
