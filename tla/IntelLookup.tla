----------------------------- MODULE IntelLookup -----------------------------
(***************************************************************************)
(* Threat-intelligence enrichment: the chain runs every provider over an   *)
(* alert's indicators; a provider serves what its response cache still     *)
(* holds, looks the rest up under a token bucket with bounded retries and  *)
(* stores the definitive verdicts.                                         *)
(*                                                                         *)
(* One chain, with its buckets and its cache, is shared by the ingest      *)
(* handler and by the late-enrichment sweep's thread (main.py), so two     *)
(* runs interleave at every request and at every cache transaction.  The   *)
(* bucket is taken under its lock; a cache put holds the cache's lock, a   *)
(* cache get does not.  The cache's session has autoflush off: what a put  *)
(* reads is the table without its own pending row.                         *)
(***************************************************************************)
EXTENDS Integers, Sequences, FiniteSets, FiniteSetsExt, Functions

CONSTANTS
  Workers,      \* the runs of the chain that may overlap
  Indicators,
  Batches,      \* worker -> the indicators alerts bring it, in ioc_sort_key order
  Providers,    \* the registered providers, in order; all of them HTTP-backed
  Handles,      \* handled_types: provider -> indicators; {} for a disabled one
  Limited,      \* the providers with a rate limiter
  TTL,          \* ttl_for: indicator -> ticks
  MaxEntries,   \* policy.max_entries
  Capacity,     \* tokens of a full bucket
  TokenTicks,   \* ticks that refill one token
  MaxAttempts,  \* RetryConfig.max_attempts
  Stored,       \* the rows an earlier process left in the cache
  MaxRuns,      \* bound of the model: runs of the chain
  MaxTime       \* bound of the model: the clock stops at MaxTime

\* Each of an alert's indicators is listed once, and each provider has its name.
Distinct(seq) == \A i, j \in DOMAIN seq : seq[i] = seq[j] => i = j

ASSUME BatchAssumption ==
  \A w \in Workers : \A b \in Batches[w] : b \in Seq(Indicators) /\ Distinct(b)
ASSUME ProvidersAssumption == Providers \in Seq(Range(Providers)) /\ Distinct(Providers)
ASSUME PolicyAssumption == /\ MaxEntries \in Nat \ {0}
                           /\ Capacity \in Nat \ {0}
                           /\ TokenTicks \in Nat \ {0}
                           /\ MaxAttempts \in Nat \ {0}
                           /\ TTL \in [Indicators -> Nat \ {0}]

VARIABLES
  now,        \* the clock; the wall clock and the monotonic clock advance alike
  workers,    \* worker -> where its run of the chain stands
  bucket,     \* provider -> tokens (in ticks of refill) and the last update
  taken,      \* provider -> the times its tokens were taken (history)
  cache,      \* enrichment_cache: key -> row
  lock,       \* holders of the cache's lock, at most one
  runs        \* runs started (bound only)

vars == <<now, workers, bucket, taken, cache, lock, runs>>

-----------------------------------------------------------------------------
(* Statuses *)

\* The statuses of a lookup, as far as caching and aggregation tell them apart:
\* found and not_found are definitive; error, rate_limited and timeout are not.
Definitive == "found_or_not_found"
Failure == "error_or_rate_limited_or_timeout"
Successful == {Definitive}

Skipped == "skipped"
Complete == "complete"
Partial == "partial"
Failed == "failed"

\* Mutant of AggregateRecords: a failed lookup counts as no lookup.
AggregateRecords_IgnoreFailures(statuses) ==
  CASE statuses = {}                        -> Skipped
    [] statuses \cap Successful /= {}       -> Complete
    [] OTHER                                -> Failed

\* _aggregate_status: a provider's status from those of its records.
AggregateRecords(statuses) ==
  CASE statuses = {}                        -> Skipped
    [] statuses /= {} /\ statuses \subseteq Successful      -> Complete
    [] statuses /= {} /\ statuses \cap Successful = {}      -> Failed
    [] OTHER                                -> Partial

\* _aggregate: the alert's status from those of the providers.
AggregateProviders(statuses) ==
  LET meaningful == statuses \ {Skipped}
  IN CASE meaningful = {}         -> Skipped
       [] meaningful = {Complete} -> Complete
       [] meaningful = {Failed}   -> Failed
       [] OTHER                   -> Partial

\* A LookupRecord; when a failure was recorded tells nothing apart.  `answered`
\* is not a field of the code's record: it is when the upstream gave the answer,
\* for the properties.
Record(p, status, at, answered) ==
  [provider |-> p, status |-> status, at |-> at, answered |-> answered]

-----------------------------------------------------------------------------
(* A run of the chain *)

Idle == [pc |-> "idle", position |-> 0, iocs |-> <<>>, asOf |-> 0, todo |-> {},
         pending |-> {}, records |-> <<>>, row |-> 0, at |-> 0, attempts |-> 0,
         outcome |-> <<>>]

Provider(s) == Providers[s.position]

\* The indicators a provider handles, and the first of those a loop still has.
Handled(s, p) == Range(s.iocs) \cap Handles[p]
Current(s) == s.iocs[Min({i \in DOMAIN s.iocs : s.iocs[i] \in s.todo})]

\* A dict with one more entry.
With(f, key, value) == [x \in DOMAIN f \cup {key} |-> IF x = key THEN value ELSE f[x]]

\* (provider, indicator_type, indicator_value).
Key(p, ioc) == <<p, ioc>>

\* The status of a run, once every provider's is known.
RunStatus(outcome) == AggregateProviders({outcome[p].status : p \in DOMAIN outcome})

\* What the chain keeps of a provider: its status, and for which indicators it
\* attached a definitive payload.
Result(status, records) ==
  [status |-> status,
   answered |-> {k \in DOMAIN records : records[k].status \in Successful}]

\* A provider's enrich ends with its records.
Close(s) ==
  [s EXCEPT !.pc = "chain", !.todo = {}, !.pending = {},
            !.outcome = With(@, Provider(s),
               Result(AggregateRecords({s.records[k].status : k \in DOMAIN s.records}),
                      s.records))]

\* A worker leaves the loops it has finished: the gets, the lookups of what was
\* not cached, the puts of what was answered.
Answers(s) == {k \in s.pending : s.records[k].status \in Successful}

Settle(s) ==
  CASE s.todo /= {}                                          -> s
    [] s.todo = {} /\ s.pc = "get" /\ s.pending /= {}        ->
         [s EXCEPT !.pc = "lookup", !.todo = s.pending]
    [] s.todo = {} /\ s.pc = "lookup" /\ Answers(s) /= {}    ->
         [s EXCEPT !.pc = "put", !.todo = Answers(s)]
    [] OTHER                                                 -> Close(s)

\* The current indicator has its record; on to the next one.
Recorded(s, pc, record) ==
  LET k == Current(s)
  IN Settle([s EXCEPT !.pc = pc, !.todo = @ \ {k}, !.at = 0, !.attempts = 0,
                      !.records = With(@, k, record)])

Missed(s) ==
  LET k == Current(s)
  IN Settle([s EXCEPT !.pc = "get", !.row = 0, !.todo = @ \ {k}, !.pending = @ \cup {k}])

Step(w, pc, s) == /\ workers[w].pc = pc
                  /\ workers' = [workers EXCEPT ![w] = s]

\* EnrichmentChain.enrich is called for an alert's indicators.
Start(w, iocs) ==
  /\ runs < MaxRuns
  /\ runs' = runs + 1
  /\ Step(w, "idle", [Idle EXCEPT !.pc = "chain", !.iocs = iocs])
  /\ UNCHANGED <<now, bucket, taken, cache, lock>>

\* The next provider's enrich begins, with its own reading of the clock, or
\* handles none of the indicators; without indicators no provider is called.
NextProvider(w) ==
  LET s == workers[w]
      p == Providers[s.position + 1]
      handled == Handled(s, p)
  IN
  /\ s.position < Len(Providers)
  /\ s.iocs /= <<>>
  /\ Step(w, "chain",
          IF handled = {}
            THEN [s EXCEPT !.position = @ + 1,
                           !.outcome = With(@, p, Result(Skipped, <<>>)), !.records = <<>>]
            ELSE [s EXCEPT !.pc = "get", !.position = @ + 1, !.asOf = now,
                           !.todo = handled, !.pending = {}, !.records = <<>>])
  /\ UNCHANGED <<now, bucket, taken, cache, lock, runs>>

\* Every provider has been asked: the run returns its outcome.
Finished(s) == s.pc = "chain" /\ (s.position = Len(Providers) \/ s.iocs = <<>>)

Finish(w) ==
  /\ Finished(workers[w])
  /\ Step(w, "chain", Idle)
  /\ UNCHANGED <<now, bucket, taken, cache, lock, runs>>

-----------------------------------------------------------------------------
(* Reading the cache *)

\* A fresh row is served as it was stored; a missing one is a miss; an expired
\* one is a miss whose row is about to be deleted.
CacheGet(w) ==
  LET s == workers[w]
      k == Key(Provider(s), Current(s))
  IN
  /\ Step(w, "get",
          IF k \notin DOMAIN cache
            THEN Missed(s)
            ELSE IF cache[k].expiresAt <= s.asOf
              THEN [s EXCEPT !.pc = "expire", !.row = cache[k].id]
              ELSE Recorded(s, "get", cache[k].record))
  /\ UNCHANGED <<now, bucket, taken, cache, lock, runs>>

\* The delete of an expired row reaches the database: by its id, whatever the
\* row holds by now.
CacheExpire(w) ==
  LET s == workers[w]
  IN
  /\ Step(w, "expire", Missed(s))
  /\ cache' = [k \in {q \in DOMAIN cache : cache[q].id /= s.row} |-> cache[k]]
  /\ UNCHANGED <<now, bucket, taken, lock, runs>>

\* A database failure or a row that does not parse is a miss; the row is
\* discarded when the database lets it be.
CacheGetFails(w) ==
  LET s == workers[w]
      k == Key(Provider(s), Current(s))
  IN
  /\ Step(w, "get", Missed(s))
  /\ cache' \in {cache, [q \in DOMAIN cache \ {k} |-> cache[q]]}
  /\ UNCHANGED <<now, bucket, taken, lock, runs>>

-----------------------------------------------------------------------------
(* Looking an indicator up *)

\* Mutant of Refilled: an idle bucket fills without limit.
Refilled_Unbounded(p) == bucket[p].tokens + (now - bucket[p].updated)

\* The tokens of a bucket at this moment, in ticks of refill.
Refilled(p) ==
  Min({Capacity * TokenTicks, bucket[p].tokens + (now - bucket[p].updated)})

\* _lookup_one stamps the record, then takes a token: without one the lookup is
\* rate limited and no request is made.
Acquire(w) ==
  LET s == workers[w]
      p == Provider(s)
      granted == p \in Limited => Refilled(p) >= TokenTicks
  IN
  /\ Step(w, "lookup",
          IF granted THEN [s EXCEPT !.pc = "attempt", !.at = now]
                     ELSE Recorded(s, "lookup", Record(p, Failure, 0, 0)))
  /\ IF p \in Limited
       THEN bucket' = [bucket EXCEPT ![p] =
              [tokens |-> Refilled(p) - (IF granted THEN TokenTicks ELSE 0), updated |-> now]]
       ELSE bucket' = bucket
  /\ taken' = IF p \in Limited /\ granted THEN [taken EXCEPT ![p] = Append(@, now)] ELSE taken
  /\ UNCHANGED <<now, cache, lock, runs>>

\* The request is answered: a report, or none (404, or an empty body).
Answer(w) ==
  LET s == workers[w]
  IN
  /\ Step(w, "attempt", Recorded(s, "lookup", Record(Provider(s), Definitive, s.at, now)))
  /\ UNCHANGED <<now, bucket, taken, cache, lock, runs>>

\* Mutant of Transient: the attempts start over.
Transient_StartsOver(w) ==
  LET s == workers[w]
  IN
  /\ Step(w, "attempt", [s EXCEPT !.attempts = (@ + 1) % MaxAttempts])
  /\ UNCHANGED <<now, bucket, taken, cache, lock, runs>>

\* A timeout, a network error, 429 or 500, 502-504: tried again after a
\* pause, the last one recorded as a failure.
Transient(w) ==
  LET s == workers[w]
  IN
  /\ Step(w, "attempt",
          IF s.attempts + 1 < MaxAttempts
            THEN [s EXCEPT !.attempts = @ + 1]
            ELSE Recorded(s, "lookup", Record(Provider(s), Failure, 0, 0)))
  /\ UNCHANGED <<now, bucket, taken, cache, lock, runs>>

\* Another 4xx or 5xx, a malformed body, another transport error: never tried again.
Reject(w) ==
  LET s == workers[w]
  IN
  /\ Step(w, "attempt", Recorded(s, "lookup", Record(Provider(s), Failure, 0, 0)))
  /\ UNCHANGED <<now, bucket, taken, cache, lock, runs>>

\* The provider raises what it does not catch: the chain records it as failed,
\* without results, and goes on with the next one.
Raise(w) ==
  LET s == workers[w]
  IN
  /\ Step(w, "attempt",
          [s EXCEPT !.pc = "chain", !.todo = {}, !.pending = {}, !.records = <<>>,
                    !.at = 0, !.attempts = 0,
                    !.outcome = With(@, Provider(s), Result(Failed, <<>>))])
  /\ UNCHANGED <<now, bucket, taken, cache, lock, runs>>

-----------------------------------------------------------------------------
(* Storing verdicts *)

\* put takes the lock and looks for the row of its key.
PutRead(w) ==
  LET s == workers[w]
      k == Key(Provider(s), Current(s))
  IN
  /\ lock = {}
  /\ lock' = {w}
  /\ Step(w, "put", [s EXCEPT !.pc = "write",
                              !.row = IF k \in DOMAIN cache THEN cache[k].id ELSE 0])
  /\ UNCHANGED <<now, bucket, taken, cache, runs>>

\* Mutant of Victims: overflow is noticed one row late.
Victims_Late ==
  LET overflow == Cardinality(DOMAIN cache) - MaxEntries - 1
      Before(a, b) == \/ cache[a].expiresAt < cache[b].expiresAt
                      \/ cache[a].expiresAt = cache[b].expiresAt /\ cache[a].id < cache[b].id
  IN {k \in DOMAIN cache : Cardinality({q \in DOMAIN cache : Before(q, k)}) < overflow}

\* The rows beyond max_entries, soonest to expire first, as the table stands
\* before the pending row is flushed.
Victims ==
  LET overflow == Cardinality(DOMAIN cache) - MaxEntries
      Before(a, b) == \/ cache[a].expiresAt < cache[b].expiresAt
                      \/ cache[a].expiresAt = cache[b].expiresAt /\ cache[a].id < cache[b].id
  IN {k \in DOMAIN cache : Cardinality({q \in DOMAIN cache : Before(q, k)}) < overflow}

\* Mutant of Expiry: the lifetime counts from the store.
Expiry_FromStore(ioc, record) == now + TTL[ioc]

Expiry(ioc, record) == record.at + TTL[ioc]

\* The flush: an update of the row found, an insert under the next id, the
\* victims' deletes; an update whose row is gone fails the whole put, which is
\* swallowed.  A victim that was just refreshed is deleted all the same.
PutWrite(w) ==
  LET s == workers[w]
      k == Key(Provider(s), Current(s))
      ids == {cache[q].id : q \in DOMAIN cache}
      id == IF s.row /= 0 THEN s.row ELSE Max(ids \cup {0}) + 1
      row == [id |-> id, record |-> s.records[Current(s)],
              expiresAt |-> Expiry(Current(s), s.records[Current(s)])]
      gone == s.row /= 0 /\ s.row \notin ids
      kept == DOMAIN cache \ Victims
  IN
  /\ Step(w, "write", Settle([s EXCEPT !.pc = "put", !.row = 0, !.todo = @ \ {Current(s)}]))
  /\ cache' = IF gone THEN cache
              ELSE [q \in kept \cup (IF k \in Victims THEN {} ELSE {k}) |->
                      IF q = k THEN row ELSE cache[q]]
  /\ lock' = {}
  /\ UNCHANGED <<now, bucket, taken, runs>>

\* A put that the database refuses leaves the table as it was.
PutFails(w) ==
  LET s == workers[w]
  IN
  /\ Step(w, "write", Settle([s EXCEPT !.pc = "put", !.row = 0, !.todo = @ \ {Current(s)}]))
  /\ lock' = {}
  /\ UNCHANGED <<now, bucket, taken, cache, runs>>

Tick == /\ now < MaxTime
        /\ now' = now + 1
        /\ UNCHANGED <<workers, bucket, taken, cache, lock, runs>>

-----------------------------------------------------------------------------
\* The earlier process stored what it was answered, under the same policy.
ASSUME StoredAssumption ==
  /\ IsFiniteSet(DOMAIN Stored) /\ Cardinality(DOMAIN Stored) <= MaxEntries + 1
  /\ \A p \in Range(Providers) : \A k \in Indicators : Key(p, k) \in DOMAIN Stored =>
       LET row == Stored[Key(p, k)]
       IN /\ row.id \in Nat \ {0}
          /\ row.record.at \in Nat /\ row.record.answered \in Nat
          /\ row.record.at <= row.record.answered
          /\ row.record = Record(p, Definitive, row.record.at, row.record.answered)
          /\ row.expiresAt = row.record.at + TTL[k]
  /\ DOMAIN Stored \subseteq {Key(p, k) : p \in Range(Providers), k \in Indicators}

Init == /\ now = 1
        /\ workers = [w \in Workers |-> Idle]
        /\ bucket = [p \in Limited |-> [tokens |-> Capacity * TokenTicks, updated |-> 1]]
        /\ taken = [p \in Limited |-> <<>>]
        /\ cache = Stored
        /\ lock = {}
        /\ runs = 0

Lookup(w) == \/ Acquire(w)
             \/ Answer(w)
             \/ Transient(w)
             \/ Reject(w)
             \/ Raise(w)

Work(w) == \/ NextProvider(w)
           \/ Finish(w)
           \/ CacheGet(w)
           \/ CacheExpire(w)
           \/ CacheGetFails(w)
           \/ Lookup(w)
           \/ PutRead(w)
           \/ PutWrite(w)
           \/ PutFails(w)

Next == \/ \E w \in Workers : Work(w) \/ \E iocs \in Batches[w] : Start(w, iocs)
        \/ Tick

\* A run that has begun goes on: it is straight-line code on its thread.
Spec == Init /\ [][Next]_vars /\ \A w \in Workers : WF_vars(Work(w))

-----------------------------------------------------------------------------
(* Properties *)

\* Over any stretch of time a limited provider starts at most as many lookups
\* as a full bucket holds and the stretch refills, whichever workers start them
\* and however long the bucket was idle (TokenBucket.try_acquire).
LookupsWithinQuota ==
  \A p \in Limited : \A i, j \in DOMAIN taken[p] :
    i <= j => (j - i + 1) * TokenTicks
                <= Capacity * TokenTicks + (taken[p][j] - taken[p][i])

\* A definitive record that a run holds, looked up or served from the cache,
\* is that provider's answer and was given less than the indicator's lifetime
\* before the run read the clock; failures are never served as answers
\* (PersistentEnrichmentCache.get and put, across workers).
ServedVerdictsAreFresh ==
  \A w \in Workers :
    LET s == workers[w]
    IN \A k \in DOMAIN s.records :
         s.records[k].status \in Successful =>
           /\ s.records[k].provider = Provider(s)
           /\ s.records[k].answered > s.asOf - TTL[k]

\* The cache never holds more than one row above max_entries: a put counts the
\* rows before its own is flushed, and evicts the excess of the put before it
\* (_evict_overflow).
CacheBounded == Cardinality(DOMAIN cache) <= MaxEntries + 1

\* The status of a finished run tells its coverage: complete when every
\* provider answered for every indicator it handles, failed when none answered
\* for any, skipped when none had anything to do, partial otherwise; a provider
\* that fails takes nothing from another's answers (EnrichmentChain.enrich).
StatusTellsCoverage ==
  \A w \in Workers :
    Finished(workers[w]) =>
      LET out == workers[w].outcome
          asked == {a \in Range(Providers) \X Range(workers[w].iocs) : a[2] \in Handles[a[1]]}
          answered == {a \in asked : a[2] \in out[a[1]].answered}
      IN RunStatus(out) = CASE asked = {}        -> Skipped
                            [] asked /= {} /\ answered = asked -> Complete
                            [] asked /= {} /\ answered = {}    -> Failed
                            [] OTHER             -> Partial

\* Every run of the chain ends, whatever the upstream does: retries are
\* counted and the bucket never waits (BaseHTTPThreatIntelProvider._get).
RunsEnd == \A w \in Workers : workers[w].pc = "chain" ~> workers[w].pc = "idle"
=============================================================================
