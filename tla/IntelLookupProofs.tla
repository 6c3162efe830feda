-------------------------- MODULE IntelLookupProofs --------------------------
(***************************************************************************)
(* Proofs about IntelLookup, for every number of workers, every set of     *)
(* providers and indicators, and every capacity, lifetime and row limit.   *)
(* What the workers take from a bucket over any stretch of time is bounded *)
(* by a full bucket and the refill.  The verdicts a run holds were fresh   *)
(* when it read the clock, the cache stays within its limit, and the       *)
(* status of a finished run tells its coverage: these rest on one          *)
(* invariant of the cache's rows and of each run apart (ChainInv), for the *)
(* runs meet only in the cache.                                            *)
(***************************************************************************)
EXTENDS IntelLookup, FiniteSetTheorems, WellFoundedInduction, TLAPS

Full == Capacity * TokenTicks

(* What a bucket still owes to each token taken: the tokens taken since    *)
(* token i and those left are paid for by a full bucket and the ticks from *)
(* taking it to the bucket's last update.                                  *)
Accounted(p) ==
  LET n == Len(taken[p])
  IN \A i \in 1..n :
       /\ taken[p][i] <= bucket[p].updated
       /\ (n - i + 1) * TokenTicks + bucket[p].tokens
            <= Full + (bucket[p].updated - taken[p][i])

Quota(p) ==
  \A i, j \in 1..Len(taken[p]) :
    i <= j => (j - i + 1) * TokenTicks <= Full + (taken[p][j] - taken[p][i])

BucketInv ==
  /\ now \in Nat
  /\ bucket \in [Limited -> [tokens : Nat, updated : Nat]]
  /\ taken \in [Limited -> Seq(Nat)]
  /\ \A p \in Limited : /\ bucket[p].updated <= now
                        /\ bucket[p].tokens <= Full
                        /\ Accounted(p)
                        /\ Quota(p)

LEMMA FullBucket == Full \in Nat /\ TokenTicks \in Nat \ {0} /\ TokenTicks <= Full
BY PolicyAssumption DEF Full

LEMMA MinOfTwo ==
  ASSUME NEW a \in Int, NEW b \in Int
  PROVE  /\ Min({a, b}) \in {a, b}
         /\ Min({a, b}) <= a
         /\ Min({a, b}) <= b
<1>1. \E x \in {a, b} : \A y \in {a, b} : x <= y
  <2>1. CASE a <= b
    BY <2>1
  <2>2. CASE b <= a
    BY <2>2
  <2> QED
    BY <2>1, <2>2
<1> QED
  BY <1>1 DEF Min

LEMMA Clocks ==
  ASSUME BucketInv, NEW p \in Limited
  PROVE  /\ now \in Nat /\ bucket[p].tokens \in Nat /\ bucket[p].updated \in Nat
         /\ bucket[p].updated <= now
BY DEF BucketInv

LEMMA RefilledBounds ==
  ASSUME BucketInv, NEW p \in Limited
  PROVE  /\ Refilled(p) \in Nat
         /\ Refilled(p) <= Full
         /\ Refilled(p) <= bucket[p].tokens + (now - bucket[p].updated)
<1> DEFINE t == bucket[p].tokens + (now - bucket[p].updated)
<1>1. t \in Nat /\ Full \in Nat
  BY FullBucket DEF BucketInv
<1>2. Refilled(p) = Min({Full, t})
  BY DEF Refilled, Full
<1> HIDE DEF t
<1>3. Refilled(p) \in {Full, t} /\ Refilled(p) <= Full /\ Refilled(p) <= t
  BY <1>1, <1>2, MinOfTwo
<1> QED
  BY <1>1, <1>3 DEF t

(* What is owed at the last update is owed now, with the tokens refilled.   *)
LEMMA StillOwed ==
  ASSUME BucketInv, NEW p \in Limited, NEW i \in 1..Len(taken[p])
  PROVE  /\ taken[p][i] \in Nat /\ taken[p][i] <= now
         /\ (Len(taken[p]) - i + 1) * TokenTicks \in Int
         /\ (Len(taken[p]) - i + 1) * TokenTicks + Refilled(p) <= Full + (now - taken[p][i])
<1> DEFINE cost == (Len(taken[p]) - i + 1) * TokenTicks
           start == taken[p][i]
           tokens == bucket[p].tokens
           updated == bucket[p].updated
           refilled == Refilled(p)
<1>1. cost \in Int /\ start \in Nat
  BY FullBucket DEF BucketInv
<1>2. tokens \in Nat /\ updated \in Nat /\ now \in Nat /\ updated <= now
  BY Clocks
<1>3. refilled \in Nat /\ refilled <= tokens + (now - updated)
  BY RefilledBounds
<1>4. start <= updated /\ cost + tokens <= Full + (updated - start)
  BY DEF BucketInv, Accounted
<1>5. Full \in Nat
  BY FullBucket
<1> HIDE DEF cost, start, tokens, updated, refilled
<1>6. start <= now /\ cost + refilled <= Full + (now - start)
  BY <1>1, <1>2, <1>3, <1>4, <1>5
<1> QED
  BY <1>1, <1>6 DEF cost, start, refilled

LEMMA BucketInit == Init => BucketInv
<1> SUFFICES ASSUME Init PROVE BucketInv
  OBVIOUS
<1>1. /\ now = 1
      /\ bucket \in [Limited -> [tokens : Nat, updated : Nat]]
      /\ \A p \in Limited : bucket[p].updated = 1 /\ bucket[p].tokens = Full
  BY FullBucket DEF Init, Full
<1>2. <<>> \in Seq(Nat) /\ Len(<<>>) = 0
  OBVIOUS
<1>3. taken \in [Limited -> Seq(Nat)] /\ \A p \in Limited : Len(taken[p]) = 0
  BY <1>2 DEF Init
<1>4. \A p \in Limited : Accounted(p) /\ Quota(p)
  BY <1>3 DEF Accounted, Quota
<1> QED
  BY <1>1, <1>3, <1>4, FullBucket DEF BucketInv

(* Time passes, the buckets stay.                                          *)
LEMMA BucketWaits ==
  ASSUME BucketInv, UNCHANGED <<bucket, taken>>, now' = now \/ now' = now + 1
  PROVE  BucketInv'
<1>1. now' \in Nat /\ now <= now'
  BY DEF BucketInv
<1>2. \A p \in Limited : Accounted(p)' /\ Quota(p)'
  BY FullBucket DEF BucketInv, Accounted, Quota, Full
<1> QED
  BY <1>1, <1>2 DEF BucketInv, Full

(* One bucket is brought up to date without giving a token.                *)
LEMMA BucketRefuses ==
  ASSUME BucketInv, NEW p \in Limited, UNCHANGED <<now, taken>>,
         bucket' = [bucket EXCEPT ![p] = [tokens |-> Refilled(p), updated |-> now]]
  PROVE  BucketInv'
<1>1. /\ bucket' \in [Limited -> [tokens : Nat, updated : Nat]]
      /\ bucket'[p].tokens = Refilled(p) /\ bucket'[p].updated = now
      /\ \A q \in Limited : q # p => bucket'[q] = bucket[q]
  BY RefilledBounds DEF BucketInv
<1>2. Accounted(p)'
  <2> SUFFICES ASSUME NEW i \in 1..Len(taken[p])
               PROVE  /\ taken[p][i] <= now
                      /\ (Len(taken[p]) - i + 1) * TokenTicks + Refilled(p)
                           <= Full + (now - taken[p][i])
    BY <1>1 DEF Accounted, Full
  <2> QED
    BY StillOwed
<1>3. \A q \in Limited : q # p => Accounted(q)'
  BY <1>1 DEF BucketInv, Accounted, Full
<1>4. \A q \in Limited : Quota(q)'
  BY DEF BucketInv, Quota, Full
<1>5. \A q \in Limited : bucket'[q].updated <= now /\ bucket'[q].tokens <= Full
  BY <1>1, RefilledBounds, FullBucket DEF BucketInv
<1> QED
  BY <1>1, <1>2, <1>3, <1>4, <1>5 DEF BucketInv, Full

(* One bucket gives a token.                                               *)
LEMMA BucketGives ==
  ASSUME BucketInv, NEW p \in Limited, UNCHANGED now,
         Refilled(p) >= TokenTicks,
         bucket' = [bucket EXCEPT ![p] = [tokens |-> Refilled(p) - TokenTicks, updated |-> now]],
         taken' = [taken EXCEPT ![p] = Append(@, now)]
  PROVE  BucketInv'
<1> DEFINE n == Len(taken[p])
           left == Refilled(p) - TokenTicks
<1>1. left \in Nat /\ left <= Full /\ left + TokenTicks = Refilled(p)
  BY RefilledBounds, FullBucket
<1>2. /\ bucket' \in [Limited -> [tokens : Nat, updated : Nat]]
      /\ bucket'[p].tokens = left /\ bucket'[p].updated = now
      /\ \A q \in Limited : q # p => bucket'[q] = bucket[q] /\ taken'[q] = taken[q]
  BY <1>1 DEF BucketInv
<1>3. /\ taken' \in [Limited -> Seq(Nat)]
      /\ n \in Nat /\ Len(taken'[p]) = n + 1 /\ taken'[p][n + 1] = now
      /\ \A i \in 1..n : taken[p][i] \in Nat /\ taken'[p][i] = taken[p][i]
  BY DEF BucketInv
<1> HIDE DEF left, n
(* The tokens since i, the new one included, and those left.               *)
<1>4. ASSUME NEW i \in 1..(n + 1)
      PROVE  /\ taken'[p][i] <= now
             /\ (n + 1 - i + 1) * TokenTicks + left <= Full + (now - taken'[p][i])
  <2>1. CASE i = n + 1
    <3>1. (n + 1 - i + 1) * TokenTicks = TokenTicks
      BY <2>1, <1>3, FullBucket
    <3> QED
      BY <2>1, <3>1, <1>1, <1>3, RefilledBounds, FullBucket DEF BucketInv
  <2>2. CASE i \in 1..n
    <3> DEFINE cost == (n - i + 1) * TokenTicks
    <3>1. (n + 1 - i + 1) * TokenTicks = cost + TokenTicks /\ cost \in Int
      BY <2>2, <1>3, FullBucket
    <3>2. taken[p][i] <= now /\ cost + Refilled(p) <= Full + (now - taken[p][i])
      BY <2>2, StillOwed DEF n
    <3> HIDE DEF cost
    <3>3. cost + TokenTicks + left = cost + Refilled(p)
      BY <3>1, <1>1, FullBucket
    <3> QED
      BY <2>2, <3>1, <3>2, <3>3, <1>3
  <2> QED
    BY <2>1, <2>2, <1>3
<1>5. Accounted(p)'
  BY <1>2, <1>3, <1>4 DEF Accounted, Full
<1>6. Quota(p)'
  <2> SUFFICES ASSUME NEW i \in 1..(n + 1), NEW j \in 1..(n + 1), i <= j
               PROVE  (j - i + 1) * TokenTicks <= Full + (taken'[p][j] - taken'[p][i])
    BY <1>3 DEF Quota, Full
  <2>1. CASE j = n + 1
    <3> DEFINE cost == (n + 1 - i + 1) * TokenTicks
    <3>1. cost \in Int /\ taken'[p][i] \in Nat /\ now \in Nat
      BY <1>3, FullBucket DEF BucketInv
    <3>2. cost + left <= Full + (now - taken'[p][i])
      BY <1>4
    <3> HIDE DEF cost
    <3> DEFINE at == taken'[p][i]
    <3>3. at \in Nat /\ cost + left <= Full + (now - at)
      BY <3>1, <3>2
    <3> HIDE DEF at
    <3>4. cost <= Full + (now - at)
      BY <3>1, <3>3, <1>1, FullBucket
    <3> QED
      BY <2>1, <3>4, <1>3 DEF cost, at
  <2>2. CASE j \in 1..n
    <3>1. i \in 1..n
      BY <2>2, <1>3
    <3> QED
      BY <2>2, <3>1, <1>3 DEF BucketInv, Quota, n
  <2> QED
    BY <2>1, <2>2, <1>3
<1>7. \A q \in Limited : q # p => Accounted(q)' /\ Quota(q)'
  BY <1>2 DEF BucketInv, Accounted, Quota, Full
<1>8. \A q \in Limited : bucket'[q].updated <= now /\ bucket'[q].tokens <= Full
  BY <1>1, <1>2, FullBucket DEF BucketInv
<1> QED
  BY <1>2, <1>3, <1>5, <1>6, <1>7, <1>8 DEF BucketInv, Full

LEMMA BucketAcquire == ASSUME BucketInv, NEW w \in Workers, Acquire(w) PROVE BucketInv'
<1> DEFINE p == Provider(workers[w])
           granted == p \in Limited => Refilled(p) >= TokenTicks
<1>1. /\ now' = now
      /\ p \notin Limited => bucket' = bucket /\ taken' = taken
      /\ p \in Limited =>
           bucket' = [bucket EXCEPT ![p] =
             [tokens |-> Refilled(p) - (IF granted THEN TokenTicks ELSE 0), updated |-> now]]
      /\ p \in Limited /\ granted => taken' = [taken EXCEPT ![p] = Append(@, now)]
      /\ ~granted => taken' = taken
  BY DEF Acquire
<1> HIDE DEF p
<1>2. CASE p \notin Limited
  BY <1>1, <1>2, BucketWaits
<1>3. CASE p \in Limited /\ Refilled(p) >= TokenTicks
  BY <1>1, <1>3, BucketGives
<1>4. CASE p \in Limited /\ ~(Refilled(p) >= TokenTicks)
  <2>1. Refilled(p) - 0 = Refilled(p)
    BY <1>4, RefilledBounds
  <2> QED
    BY <1>1, <1>4, <2>1, BucketRefuses
<1> QED
  BY <1>2, <1>3, <1>4

LEMMA BucketStep == BucketInv /\ [Next]_vars => BucketInv'
<1> SUFFICES ASSUME BucketInv, [Next]_vars PROVE BucketInv'
  OBVIOUS
<1>1. ASSUME NEW w \in Workers, Work(w) PROVE BucketInv'
  <2>1. CASE Acquire(w)
    BY <2>1, BucketAcquire
  <2>2. CASE NextProvider(w) \/ Finish(w)
    BY <2>2, BucketWaits DEF NextProvider, Finish
  <2>3. CASE CacheGet(w) \/ CacheExpire(w) \/ CacheGetFails(w)
    BY <2>3, BucketWaits DEF CacheGet, CacheExpire, CacheGetFails
  <2>4. CASE Answer(w) \/ Transient(w) \/ Reject(w) \/ Raise(w)
    BY <2>4, BucketWaits DEF Answer, Transient, Reject, Raise
  <2>5. CASE PutRead(w) \/ PutWrite(w) \/ PutFails(w)
    BY <2>5, BucketWaits DEF PutRead, PutWrite, PutFails
  <2> QED
    BY <1>1, <2>1, <2>2, <2>3, <2>4, <2>5 DEF Work, Lookup
<1>2. ASSUME NEW w \in Workers, NEW iocs \in Batches[w], Start(w, iocs) PROVE BucketInv'
  BY <1>2, BucketWaits DEF Start
<1>3. CASE Tick
  BY <1>3, BucketWaits DEF Tick
<1>4. CASE UNCHANGED vars
  BY <1>4, BucketWaits DEF vars
<1> QED
  BY <1>1, <1>2, <1>3, <1>4 DEF Next

(* Over any stretch of time a limited provider starts at most as many      *)
(* lookups as a full bucket holds and the stretch refills, however many    *)
(* workers share the bucket (TokenBucket.try_acquire).                     *)
THEOREM QuotaKept == Spec => []LookupsWithinQuota
<1>1. BucketInv => LookupsWithinQuota
  <2> SUFFICES ASSUME BucketInv, NEW p \in Limited PROVE
                 \A i, j \in DOMAIN taken[p] :
                   i <= j => (j - i + 1) * TokenTicks
                               <= Capacity * TokenTicks + (taken[p][j] - taken[p][i])
    BY DEF LookupsWithinQuota
  <2>1. DOMAIN taken[p] = 1..Len(taken[p]) /\ Quota(p)
    BY DEF BucketInv
  <2> QED
    BY <2>1 DEF Quota, Full
<1>2. Spec => []BucketInv
  BY BucketInit, BucketStep, PTL DEF Spec
<1> QED
  BY <1>1, <1>2, PTL

-----------------------------------------------------------------------------
(* Numbers and finite sets of them.                                        *)

LEMMA LeastOf ==
  ASSUME NEW S \in SUBSET Nat, S # {}
  PROVE  \E x \in S : \A y \in S : x <= y
<1>0. PICK R : R = OpToRel(<, Nat)
  OBVIOUS
<1>1. IsWellFoundedOn(R, Nat)
  BY <1>0, NatLessThanWellFounded
<1>2. PICK x \in S : \A y \in S : ~(<<y, x>> \in R)
  BY <1>1, WFMin
<1>3. \A y, z \in Nat : y < z => <<y, z>> \in R
  BY <1>0 DEF OpToRel
<1>4. \A y \in S : x \in Nat /\ y \in Nat /\ ~(y < x)
  BY <1>2, <1>3
<1> QED
  BY <1>4

(* A finite set of numbers has a greatest one: of the sizes of its subsets *)
(* that have none, there is no least.                                      *)
LEMMA GreatestOf ==
  ASSUME NEW S \in SUBSET Nat, S # {}, IsFiniteSet(S)
  PROVE  \E x \in S : \A y \in S : y <= x
<1> DEFINE Greatest(T) == \E x \in T : \A y \in T : y <= x
           bad == {n \in Nat : \E T \in SUBSET S : T # {} /\ Cardinality(T) = n /\ ~Greatest(T)}
<1> SUFFICES ASSUME ~Greatest(S) PROVE FALSE
  OBVIOUS
<1>1. bad # {}
  <2>1. Cardinality(S) \in Nat
    BY FS_CardinalityType
  <2> QED
    BY <2>1
<1>2. PICK n \in bad : \A m \in bad : n <= m
  BY <1>1, LeastOf
<1>3. PICK T \in SUBSET S : T # {} /\ Cardinality(T) = n /\ ~Greatest(T)
  BY <1>2
<1>4. PICK x \in T : TRUE
  BY <1>3
<1> DEFINE U == T \ {x}
<1>5. IsFiniteSet(T)
  BY FS_Subset
<1>6. IsFiniteSet(U) /\ Cardinality(U) = Cardinality(T) - 1
  BY <1>4, <1>5, FS_RemoveElement
<1>7. Cardinality(U) \in Nat
  BY <1>6, FS_CardinalityType
<1>8. U # {}
  <2> SUFFICES ASSUME U = {} PROVE FALSE
    OBVIOUS
  <2>1. T = {x}
    BY <1>4
  <2> QED
    BY <1>3, <2>1
<1>9. Greatest(U)
  <2> SUFFICES ASSUME ~Greatest(U) PROVE FALSE
    OBVIOUS
  <2>1. Cardinality(U) \in bad
    BY <1>7, <1>8
  <2>2. n \in Nat /\ n <= Cardinality(U)
    <3> HIDE DEF bad, U
    <3>1. bad \subseteq Nat
      BY DEF bad
    <3> QED
      BY <1>2, <2>1, <3>1
  <2>3. Cardinality(U) = n - 1
    BY <1>3, <1>6
  <2> QED
    BY <1>7, <2>2, <2>3
<1>10. PICK y \in U : \A z \in U : z <= y
  BY <1>9
<1>11. x \in Nat /\ y \in Nat /\ U \subseteq Nat
  OBVIOUS
<1>12. CASE x <= y
  <2>1. \A z \in T : z <= y
    BY <1>10, <1>12
  <2> QED
    BY <1>3, <2>1
<1>13. CASE y <= x
  <2>1. \A z \in T : z <= x
    BY <1>10, <1>11, <1>13
  <2> QED
    BY <1>3, <1>4, <2>1
<1> QED
  BY <1>11, <1>12, <1>13

LEMMA NextIdTyped ==
  ASSUME NEW S \in SUBSET Nat, IsFiniteSet(S)
  PROVE  Max(S \cup {0}) + 1 \in Nat \ {0}
<1>1. IsFiniteSet(S \cup {0})
  BY FS_AddElement
<1>2. \E x \in S \cup {0} : \A y \in S \cup {0} : y <= x
  BY <1>1, GreatestOf
<1>3. Max(S \cup {0}) \in S \cup {0}
  <2>1. PICK x \in S \cup {0} : \A y \in S \cup {0} : x >= y
    BY <1>2
  <2> QED
    BY <2>1 DEF Max
<1>4. ASSUME NEW x \in S \cup {0} PROVE x + 1 \in Nat \ {0}
  <2>1. CASE x \in S
    BY <2>1
  <2>2. CASE x = 0
    BY <2>2
  <2> QED
    BY <2>1, <2>2
<1> QED
  BY <1>3, <1>4

(* A loop over some of a run's indicators has a first one.                 *)
LEMMA CurrentInLoop ==
  ASSUME NEW s, s.iocs \in Seq(Indicators), s.todo # {}, s.todo \subseteq Range(s.iocs)
  PROVE  Current(s) \in s.todo
<1> DEFINE places == {i \in DOMAIN s.iocs : s.iocs[i] \in s.todo}
<1>1. places \in SUBSET Nat /\ places # {}
  BY DEF Range
<1>2. Min(places) \in places
  BY <1>1, LeastOf DEF Min
<1> QED
  BY <1>2 DEF Current

-----------------------------------------------------------------------------
(* What one run of the chain holds.                                        *)

Fields == {"pc", "position", "iocs", "asOf", "todo", "pending", "records", "row", "at",
           "attempts", "outcome"}
Between == {"idle", "chain"}
Inside == {"get", "expire", "lookup", "attempt", "put", "write"}

(* A provider's answer, not older than the indicator's lifetime.           *)
Genuine(r, p, k, asOf) ==
  r.status \in Successful => /\ r.provider = p
                             /\ r.at \in Nat /\ r.answered \in Nat /\ r.at <= r.answered
                             /\ r.answered > asOf - TTL[k]

Coverage(asked, answered) ==
  CASE asked = {}                         -> Skipped
    [] asked # {} /\ answered = asked     -> Complete
    [] asked # {} /\ answered = {}        -> Failed
    [] OTHER                              -> Partial

Agrees(result, asked) ==
  result.answered \subseteq asked /\ result.status = Coverage(asked, result.answered)

(* The providers that are done, and what is kept of them.                  *)
Done(s) == IF s.pc \in Between THEN s.position ELSE s.position - 1
Covers(s) ==
  /\ DOMAIN s.outcome = {Providers[i] : i \in 1..Done(s)}
  /\ \A i \in 1..Done(s) : Agrees(s.outcome[Providers[i]], Handled(s, Providers[i]))

(* The indicators of the provider in hand are in the loop, wait for the    *)
(* next one or have their record.                                          *)
InLoop(s) ==
  LET asked == Handled(s, Provider(s))
      recorded == DOMAIN s.records
  IN /\ s.position # 0 /\ s.iocs # <<>> /\ asked # {}
     /\ s.todo \subseteq asked /\ s.pending \subseteq asked /\ recorded \subseteq asked
     /\ s.pc \in {"get", "expire"} => asked \subseteq s.todo \cup s.pending \cup recorded
     /\ s.pc \in {"lookup", "attempt"} => asked \subseteq s.todo \cup recorded
     /\ s.pc \in {"put", "write"} =>
          /\ asked \subseteq recorded
          /\ \A k \in s.todo : s.records[k].status \in Successful

RunOK(s, t) ==
  /\ DOMAIN s = Fields
  /\ s.pc \in Between \cup Inside
  /\ s.position \in 0..Len(Providers)
  /\ s.iocs \in Seq(Indicators)
  /\ s.asOf \in Nat /\ s.asOf <= t
  /\ s.at \in Nat /\ s.at <= t
  /\ s.row \in Nat
  /\ s.iocs = <<>> => s.position = 0
  /\ DOMAIN s.records \subseteq Indicators
  /\ \A k \in DOMAIN s.records : Genuine(s.records[k], Provider(s), k, s.asOf)
  /\ Covers(s)
  /\ s.pc \in Inside => InLoop(s)

Going(s) == s.pc \in Inside => s.todo # {}

LEMMA WithFields ==
  ASSUME NEW f, NEW key, NEW value
  PROVE  /\ DOMAIN With(f, key, value) = DOMAIN f \cup {key}
         /\ With(f, key, value)[key] = value
         /\ \A x \in DOMAIN f : x # key => With(f, key, value)[x] = f[x]
BY DEF With

LEMMA ProviderInHand ==
  ASSUME NEW s, s.position \in 1..Len(Providers)
  PROVE  Provider(s) \in Range(Providers)
BY ProvidersAssumption DEF Provider, Range

(* A provider's result is added to those of the providers before it.       *)
LEMMA CoversNext ==
  ASSUME NEW s, NEW s2, NEW result,
         DOMAIN s.outcome = {Providers[i] : i \in 1..(s2.position - 1)},
         \A i \in 1..(s2.position - 1) :
           Agrees(s.outcome[Providers[i]], Handled(s, Providers[i])),
         s2.pc = "chain", s2.position \in 1..Len(Providers),
         s2.iocs = s.iocs,
         s2.outcome = With(s.outcome, Providers[s2.position], result),
         Agrees(result, Handled(s, Providers[s2.position]))
  PROVE  Covers(s2)
<1> DEFINE n == s2.position
           p == Providers[n]
<1>1. n \in Nat /\ n >= 1 /\ n <= Len(Providers) /\ Len(Providers) \in Nat
  BY ProvidersAssumption
<1>2. Done(s2) = n
  BY DEF Done, Between
<1>3. \A i \in 1..(n - 1) : Providers[i] # p
  BY <1>1, ProvidersAssumption DEF Distinct
<1>4. \A q : Handled(s2, q) = Handled(s, q)
  BY DEF Handled
<1>0. /\ DOMAIN s2.outcome = DOMAIN s.outcome \cup {p}
      /\ s2.outcome[p] = result
      /\ \A x \in DOMAIN s.outcome : x # p => s2.outcome[x] = s.outcome[x]
  <2>1. PICK f : f = s.outcome
    OBVIOUS
  <2>2. s2.outcome = With(f, p, result)
    BY <2>1
  <2>3. /\ DOMAIN With(f, p, result) = DOMAIN f \cup {p}
        /\ With(f, p, result)[p] = result
        /\ \A x \in DOMAIN f : x # p => With(f, p, result)[x] = f[x]
    BY DEF With
  <2> QED
    BY <2>1, <2>2, <2>3
<1>5. DOMAIN s2.outcome = {Providers[i] : i \in 1..n}
  <2>1. DOMAIN s2.outcome = {Providers[i] : i \in 1..(n - 1)} \cup {p}
    BY <1>0
  <2>2. \A i : i \in 1..n <=> i \in 1..(n - 1) \/ i = n
    BY <1>1
  <2> QED
    BY <2>1, <2>2
<1>6. ASSUME NEW i \in 1..n
      PROVE  Agrees(s2.outcome[Providers[i]], Handled(s2, Providers[i]))
  <2>1. CASE i = n
    BY <2>1, <1>0, <1>4
  <2>2. CASE i # n
    <3>1. i \in 1..(n - 1)
      BY <2>2, <1>1
    <3>2. s2.outcome[Providers[i]] = s.outcome[Providers[i]]
      BY <3>1, <1>0, <1>3
    <3> QED
      BY <3>1, <3>2, <1>4
  <2> QED
    BY <2>1, <2>2
<1> QED
  BY <1>2, <1>5, <1>6 DEF Covers

(* A provider whose indicators all have their record.                      *)
LEMMA AllRecorded ==
  ASSUME NEW records, DOMAIN records # {}
  PROVE  Agrees(Result(AggregateRecords({records[k].status : k \in DOMAIN records}), records),
                DOMAIN records)
<1> DEFINE statuses == {records[k].status : k \in DOMAIN records}
           answered == {k \in DOMAIN records : records[k].status \in Successful}
<1>1. statuses # {}
  OBVIOUS
<1>2. statuses \subseteq Successful <=> answered = DOMAIN records
  OBVIOUS
<1>3. statuses \cap Successful = {} <=> answered = {}
  OBVIOUS
<1> HIDE DEF statuses, answered
<1>4. AggregateRecords(statuses) = Coverage(DOMAIN records, answered)
  BY <1>1, <1>2, <1>3 DEF AggregateRecords, Coverage
<1>5. answered \subseteq DOMAIN records
  BY DEF answered
<1> QED
  BY <1>4, <1>5 DEF Agrees, Result, statuses, answered

LEMMA NothingAnswered ==
  ASSUME NEW asked
  PROVE  /\ asked = {} => Agrees(Result(Skipped, <<>>), asked)
         /\ asked # {} => Agrees(Result(Failed, <<>>), asked)
BY DEF Agrees, Result, Coverage

(* A step inside a provider's loops: the provider, the indicators and the  *)
(* results of earlier providers stay.                                      *)
LEMMA LoopMoves ==
  ASSUME NEW s, NEW s2, NEW t \in Nat,
         RunOK(s, t), s.pc \in Inside,
         DOMAIN s2 = Fields, s2.pc \in Inside,
         s2.position = s.position, s2.iocs = s.iocs, s2.asOf = s.asOf,
         s2.outcome = s.outcome,
         s2.row \in Nat, s2.at \in Nat, s2.at <= t,
         InLoop(s2),
         \A k \in DOMAIN s2.records : Genuine(s2.records[k], Provider(s), k, s.asOf)
  PROVE  RunOK(s2, t)
<1>1. Provider(s2) = Provider(s) /\ \A q : Handled(s2, q) = Handled(s, q)
  BY DEF Provider, Handled
<1>2. Done(s2) = Done(s)
  BY DEF Done, Between, Inside
<1>3. Covers(s2)
  BY <1>1, <1>2 DEF RunOK, Covers
<1>4. DOMAIN s2.records \subseteq Indicators
  <2>1. Range(s.iocs) \subseteq Indicators
    BY DEF RunOK, Range
  <2> QED
    BY <2>1 DEF InLoop, Handled
<1>5. s2.position \in 0..Len(Providers) /\ s2.iocs \in Seq(Indicators)
      /\ s2.asOf \in Nat /\ s2.asOf <= t /\ (s2.iocs = <<>> => s2.position = 0)
  BY DEF RunOK
<1> QED
  BY <1>1, <1>3, <1>4, <1>5 DEF RunOK

LEMMA InHandPlace ==
  ASSUME NEW s, NEW t, RunOK(s, t), s.pc \in Inside
  PROVE  /\ s.position \in 1..Len(Providers)
         /\ Done(s) = s.position - 1
         /\ Provider(s) = Providers[s.position]
BY ProvidersAssumption DEF RunOK, InLoop, Done, Inside, Between, Provider

(* A provider's enrich ends with a result that agrees with its records.    *)
LEMMA ProviderEnds ==
  ASSUME NEW s, NEW s2, NEW t \in Nat, NEW result,
         RunOK(s, t), s.pc \in Inside,
         DOMAIN s2 = Fields, s2.pc = "chain",
         s2.position = s.position, s2.iocs = s.iocs, s2.asOf = s.asOf,
         s2.row \in Nat, s2.at \in Nat, s2.at <= t,
         s2.outcome = With(s.outcome, Provider(s), result),
         Agrees(result, Handled(s, Provider(s))),
         DOMAIN s2.records \subseteq DOMAIN s.records,
         \A k \in DOMAIN s2.records : s2.records[k] = s.records[k]
  PROVE  RunOK(s2, t) /\ Going(s2)
<1>1. /\ s.position \in 1..Len(Providers)
      /\ Done(s) = s.position - 1
      /\ Provider(s) = Providers[s.position]
  BY InHandPlace
<1>2. /\ DOMAIN s.outcome = {Providers[i] : i \in 1..(s2.position - 1)}
      /\ \A i \in 1..(s2.position - 1) :
           Agrees(s.outcome[Providers[i]], Handled(s, Providers[i]))
  BY <1>1 DEF RunOK, Covers
<1>3. Covers(s2)
  BY <1>1, <1>2, CoversNext
<1>4. Provider(s2) = Provider(s)
  BY DEF Provider
<1>5. /\ DOMAIN s2.records \subseteq Indicators
      /\ \A k \in DOMAIN s2.records : Genuine(s2.records[k], Provider(s2), k, s2.asOf)
  BY <1>4 DEF RunOK
<1>6. s2.pc \in Between \cup Inside /\ s2.pc \notin Inside
  BY DEF Between, Inside
<1>7. s2.position \in 0..Len(Providers) /\ s2.iocs \in Seq(Indicators)
      /\ s2.asOf \in Nat /\ s2.asOf <= t /\ (s2.iocs = <<>> => s2.position = 0)
  BY DEF RunOK
<1> QED
  BY <1>3, <1>5, <1>6, <1>7 DEF RunOK, Going

LEMMA CloseOK ==
  ASSUME NEW s, NEW t \in Nat, RunOK(s, t), s.pc \in Inside,
         DOMAIN s.records = Handled(s, Provider(s))
  PROVE  RunOK(Close(s), t) /\ Going(Close(s))
<1> DEFINE result == Result(AggregateRecords({s.records[k].status : k \in DOMAIN s.records}),
                            s.records)
           p == Provider(s)
<1>1. Close(s) = [s EXCEPT !.pc = "chain", !.todo = {}, !.pending = {},
                           !.outcome = With(s.outcome, p, result)]
  BY DEF Close, RunOK, Fields
<1>2. Agrees(result, Handled(s, p))
  <2>1. DOMAIN s.records # {}
    BY DEF RunOK, InLoop
  <2>2. PICK r : r = s.records
    OBVIOUS
  <2>3. Agrees(Result(AggregateRecords({r[k].status : k \in DOMAIN r}), r), DOMAIN r)
    BY <2>1, <2>2, AllRecorded
  <2> QED
    BY <2>2, <2>3
<1>3. PICK out : out = With(s.outcome, p, result)
  OBVIOUS
<1> HIDE DEF result, p
<1>4. PICK s2 : s2 = [s EXCEPT !.pc = "chain", !.todo = {}, !.pending = {}, !.outcome = out]
  OBVIOUS
<1>5. /\ DOMAIN s2 = Fields /\ s2.pc = "chain"
      /\ s2.position = s.position /\ s2.iocs = s.iocs /\ s2.asOf = s.asOf
      /\ s2.row = s.row /\ s2.at = s.at /\ s2.outcome = out /\ s2.records = s.records
  BY <1>4 DEF RunOK, Fields
<1>6. s2.row \in Nat /\ s2.at \in Nat /\ s2.at <= t
  BY <1>5 DEF RunOK
<1>7. s2.outcome = With(s.outcome, Provider(s), result)
  BY <1>3, <1>5 DEF p
<1>8. Agrees(result, Handled(s, Provider(s)))
  BY <1>2 DEF p
<1>9. RunOK(s2, t) /\ Going(s2)
  BY <1>5, <1>6, <1>7, <1>8, ProviderEnds
<1> QED
  BY <1>1, <1>3, <1>4, <1>9

LEMMA SettleOK ==
  ASSUME NEW s, NEW t \in Nat, RunOK(s, t), s.pc \in {"get", "lookup", "put"}
  PROVE  RunOK(Settle(s), t) /\ Going(Settle(s))
<1>1. s.pc \in Inside /\ InLoop(s)
  BY DEF RunOK, Inside
<1>2. CASE s.todo # {}
  <2>1. Settle(s) = s
    BY <1>2 DEF Settle
  <2> QED
    BY <1>2, <2>1 DEF Going
<1>3. CASE s.todo = {} /\ s.pc = "get" /\ s.pending # {}
  <2>1. PICK s2 : s2 = [s EXCEPT !.pc = "lookup", !.todo = s.pending]
    OBVIOUS
  <2>2. Settle(s) = s2
    BY <1>3, <2>1 DEF Settle
  <2>3. /\ DOMAIN s2 = Fields /\ s2.pc = "lookup" /\ s2.todo = s.pending
        /\ s2.pending = s.pending /\ s2.records = s.records
        /\ s2.position = s.position /\ s2.iocs = s.iocs /\ s2.asOf = s.asOf
        /\ s2.row = s.row /\ s2.at = s.at /\ s2.outcome = s.outcome
    BY <2>1 DEF RunOK, Fields
  <2>4. InLoop(s2)
    BY <1>1, <1>3, <2>3 DEF InLoop, Handled, Provider
  <2>5. s2.pc \in Inside /\ s2.row \in Nat /\ s2.at \in Nat /\ s2.at <= t
        /\ \A k \in DOMAIN s2.records : Genuine(s2.records[k], Provider(s), k, s.asOf)
    BY <2>3 DEF RunOK, Inside
  <2>6. RunOK(s2, t)
    BY <1>1, <2>3, <2>4, <2>5, LoopMoves
  <2> QED
    BY <1>3, <2>2, <2>3, <2>6 DEF Going
<1>4. CASE s.todo = {} /\ s.pc = "lookup" /\ Answers(s) # {}
  <2>1. PICK s2 : s2 = [s EXCEPT !.pc = "put", !.todo = Answers(s)]
    OBVIOUS
  <2>2. Settle(s) = s2
    BY <1>4, <2>1 DEF Settle
  <2>3. /\ DOMAIN s2 = Fields /\ s2.pc = "put" /\ s2.todo = Answers(s)
        /\ s2.pending = s.pending /\ s2.records = s.records
        /\ s2.position = s.position /\ s2.iocs = s.iocs /\ s2.asOf = s.asOf
        /\ s2.row = s.row /\ s2.at = s.at /\ s2.outcome = s.outcome
    BY <2>1 DEF RunOK, Fields
  <2>4. InLoop(s2)
    BY <1>1, <1>4, <2>3 DEF InLoop, Handled, Provider, Answers
  <2>5. s2.pc \in Inside /\ s2.row \in Nat /\ s2.at \in Nat /\ s2.at <= t
        /\ \A k \in DOMAIN s2.records : Genuine(s2.records[k], Provider(s), k, s.asOf)
    BY <2>3 DEF RunOK, Inside
  <2>6. RunOK(s2, t)
    BY <1>1, <2>3, <2>4, <2>5, LoopMoves
  <2> QED
    BY <1>4, <2>2, <2>3, <2>6 DEF Going
<1>5. CASE /\ s.todo = {}
           /\ ~(s.pc = "get" /\ s.pending # {})
           /\ ~(s.pc = "lookup" /\ Answers(s) # {})
  <2>1. Settle(s) = Close(s)
    BY <1>5 DEF Settle
  <2>2. DOMAIN s.records = Handled(s, Provider(s))
    BY <1>1, <1>5 DEF InLoop
  <2> QED
    BY <1>1, <2>1, <2>2, CloseOK
<1> QED
  BY <1>2, <1>3, <1>4, <1>5

(* The loop goes on to its next indicator, with one record more.           *)
LEMMA RecordedOK ==
  ASSUME NEW s, NEW t \in Nat, NEW pc, NEW record,
         RunOK(s, t), s.todo # {},
         \/ s.pc = "get" /\ pc = "get"
         \/ s.pc \in {"lookup", "attempt"} /\ pc = "lookup",
         Genuine(record, Provider(s), Current(s), s.asOf)
  PROVE  RunOK(Recorded(s, pc, record), t) /\ Going(Recorded(s, pc, record))
<1> DEFINE asked == Handled(s, Provider(s))
<1>1. s.pc \in Inside /\ pc \in Inside /\ InLoop(s)
  BY DEF RunOK, Inside
<1>2. PICK k : k = Current(s)
  OBVIOUS
<1>3. k \in s.todo
  <2>1. s.todo \subseteq Range(s.iocs)
    BY <1>1 DEF InLoop, Handled
  <2>2. s.iocs \in Seq(Indicators)
    BY DEF RunOK
  <2> QED
    BY <1>2, <2>1, <2>2, CurrentInLoop
<1>4. PICK records : records = With(s.records, k, record)
  OBVIOUS
<1>5. PICK s2 : s2 = [s EXCEPT !.pc = pc, !.todo = s.todo \ {k}, !.at = 0, !.attempts = 0,
                               !.records = records]
  OBVIOUS
<1>6. Recorded(s, pc, record) = Settle(s2)
  BY <1>2, <1>4, <1>5 DEF Recorded, RunOK, Fields
<1>7. /\ DOMAIN s2 = Fields /\ s2.pc = pc /\ s2.todo = s.todo \ {k}
      /\ s2.pending = s.pending /\ s2.records = records
      /\ s2.position = s.position /\ s2.iocs = s.iocs /\ s2.asOf = s.asOf
      /\ s2.row = s.row /\ s2.at = 0 /\ s2.outcome = s.outcome
  BY <1>5 DEF RunOK, Fields
<1>8. /\ DOMAIN records = DOMAIN s.records \cup {k}
      /\ records[k] = record
      /\ \A x \in DOMAIN s.records : x # k => records[x] = s.records[x]
  <2>1. PICK f : f = s.records
    OBVIOUS
  <2>2. records = With(f, k, record)
    BY <1>4, <2>1
  <2>3. /\ DOMAIN With(f, k, record) = DOMAIN f \cup {k}
        /\ With(f, k, record)[k] = record
        /\ \A x \in DOMAIN f : x # k => With(f, k, record)[x] = f[x]
    BY DEF With
  <2> QED
    BY <2>1, <2>2, <2>3
<1>9. Handled(s2, Provider(s2)) = asked
  BY <1>7 DEF Handled, Provider
<1>10. InLoop(s2)
  <2>1. /\ s2.position # 0 /\ s2.iocs # <<>> /\ asked # {}
        /\ s2.todo \subseteq asked /\ s2.pending \subseteq asked /\ DOMAIN s2.records \subseteq asked
    BY <1>1, <1>3, <1>7, <1>8 DEF InLoop
  <2>2. s2.pc \in {"get", "expire"} => asked \subseteq s2.todo \cup s2.pending \cup DOMAIN s2.records
    BY <1>1, <1>7, <1>8 DEF InLoop
  <2>3. s2.pc \in {"lookup", "attempt"} => asked \subseteq s2.todo \cup DOMAIN s2.records
    BY <1>1, <1>7, <1>8 DEF InLoop
  <2>4. s2.pc \notin {"put", "write"}
    BY <1>7
  <2> QED
    BY <1>9, <2>1, <2>2, <2>3, <2>4 DEF InLoop
<1>11. \A x \in DOMAIN s2.records : Genuine(s2.records[x], Provider(s), x, s.asOf)
  BY <1>2, <1>7, <1>8 DEF RunOK
<1>12. s2.row \in Nat /\ s2.at \in Nat /\ s2.at <= t /\ s2.pc \in {"get", "lookup", "put"}
       /\ s2.pc \in Inside
  BY <1>1, <1>7 DEF RunOK
<1>13. RunOK(s2, t)
  BY <1>1, <1>7, <1>10, <1>11, <1>12, LoopMoves
<1> QED
  BY <1>6, <1>12, <1>13, SettleOK

LEMMA MissedOK ==
  ASSUME NEW s, NEW t \in Nat, RunOK(s, t), s.todo # {}, s.pc \in {"get", "expire"}
  PROVE  RunOK(Missed(s), t) /\ Going(Missed(s))
<1> DEFINE asked == Handled(s, Provider(s))
<1>1. s.pc \in Inside /\ InLoop(s)
  BY DEF RunOK, Inside
<1>2. PICK k : k = Current(s)
  OBVIOUS
<1>3. k \in s.todo
  <2>1. s.todo \subseteq Range(s.iocs)
    BY <1>1 DEF InLoop, Handled
  <2>2. s.iocs \in Seq(Indicators)
    BY DEF RunOK
  <2> QED
    BY <1>2, <2>1, <2>2, CurrentInLoop
<1>5. PICK s2 : s2 = [s EXCEPT !.pc = "get", !.row = 0, !.todo = s.todo \ {k},
                               !.pending = s.pending \cup {k}]
  OBVIOUS
<1>6. Missed(s) = Settle(s2)
  BY <1>2, <1>5 DEF Missed, RunOK, Fields
<1>7. /\ DOMAIN s2 = Fields /\ s2.pc = "get" /\ s2.todo = s.todo \ {k}
      /\ s2.pending = s.pending \cup {k} /\ s2.records = s.records
      /\ s2.position = s.position /\ s2.iocs = s.iocs /\ s2.asOf = s.asOf
      /\ s2.row = 0 /\ s2.at = s.at /\ s2.outcome = s.outcome
  BY <1>5 DEF RunOK, Fields
<1>9. Handled(s2, Provider(s2)) = asked
  BY <1>7 DEF Handled, Provider
<1>10. InLoop(s2)
  <2>1. /\ s2.position # 0 /\ s2.iocs # <<>> /\ asked # {}
        /\ s2.todo \subseteq asked /\ s2.pending \subseteq asked /\ DOMAIN s2.records \subseteq asked
    BY <1>1, <1>3, <1>7 DEF InLoop
  <2>2. asked \subseteq s2.todo \cup s2.pending \cup DOMAIN s2.records
    BY <1>1, <1>7 DEF InLoop
  <2> QED
    BY <1>7, <1>9, <2>1, <2>2 DEF InLoop
<1>11. s2.row \in Nat /\ s2.at \in Nat /\ s2.at <= t /\ s2.pc \in Inside
       /\ s2.pc \in {"get", "lookup", "put"}
       /\ \A x \in DOMAIN s2.records : Genuine(s2.records[x], Provider(s), x, s.asOf)
  BY <1>7 DEF RunOK, Inside
<1>13. RunOK(s2, t)
  BY <1>1, <1>7, <1>10, <1>11, LoopMoves
<1> QED
  BY <1>6, <1>11, <1>13, SettleOK

LEMMA StoredOK ==
  ASSUME NEW s, NEW t \in Nat, RunOK(s, t), s.todo # {}, s.pc = "write",
         NEW s2, s2 = [s EXCEPT !.pc = "put", !.row = 0, !.todo = @ \ {Current(s)}]
  PROVE  RunOK(Settle(s2), t) /\ Going(Settle(s2))
<1>1. s.pc \in Inside /\ InLoop(s)
  BY DEF RunOK, Inside
<1>2. PICK k : k = Current(s)
  OBVIOUS
<1>7. /\ DOMAIN s2 = Fields /\ s2.pc = "put" /\ s2.todo = s.todo \ {k}
      /\ s2.pending = s.pending /\ s2.records = s.records
      /\ s2.position = s.position /\ s2.iocs = s.iocs /\ s2.asOf = s.asOf
      /\ s2.row = 0 /\ s2.at = s.at /\ s2.outcome = s.outcome
  BY <1>2 DEF RunOK, Fields
<1>8. InLoop(s2)
  BY <1>1, <1>7 DEF InLoop, Handled, Provider
<1>9. s2.row \in Nat /\ s2.at \in Nat /\ s2.at <= t /\ s2.pc \in Inside
       /\ s2.pc \in {"get", "lookup", "put"}
       /\ \A x \in DOMAIN s2.records : Genuine(s2.records[x], Provider(s), x, s.asOf)
  BY <1>7 DEF RunOK, Inside
<1>10. RunOK(s2, t)
  BY <1>1, <1>7, <1>8, <1>9, LoopMoves
<1> QED
  BY <1>9, <1>10, SettleOK

-----------------------------------------------------------------------------
(* The runs and the cache they share.                                      *)

(* A row holds its provider's answer and expires within the lifetime of    *)
(* the answer.                                                             *)
RowOK(row, p, k) ==
  /\ row.id \in Nat \ {0} /\ row.expiresAt \in Nat
  /\ row.record.status \in Successful =>
       /\ row.record.provider = p
       /\ row.record.at \in Nat /\ row.record.answered \in Nat
       /\ row.record.at <= row.record.answered
       /\ row.expiresAt <= row.record.at + TTL[k]

RowsOK(table) ==
  \A q \in DOMAIN table :
    \E p \in Range(Providers) : \E k \in Indicators : q = Key(p, k) /\ RowOK(table[q], p, k)

CacheInv == /\ IsFiniteSet(DOMAIN cache)
            /\ Cardinality(DOMAIN cache) <= MaxEntries + 1
            /\ RowsOK(cache)

ChainInv == /\ now \in Nat
            /\ DOMAIN workers = Workers
            /\ \A w \in Workers : RunOK(workers[w], now) /\ Going(workers[w])
            /\ CacheInv

LEMMA RowAt ==
  ASSUME CacheInv, NEW p, NEW k, Key(p, k) \in DOMAIN cache
  PROVE  RowOK(cache[Key(p, k)], p, k)
BY DEF CacheInv, RowsOK, Key

LEMMA StepKeeps ==
  ASSUME ChainInv, NEW w \in Workers, NEW s, NEW pc, Step(w, pc, s),
         RunOK(s, now) /\ Going(s), now' = now, CacheInv'
  PROVE  ChainInv'
<1>1. /\ DOMAIN workers' = Workers
      /\ workers'[w] = s
      /\ \A v \in Workers : v # w => workers'[v] = workers[v]
  BY DEF ChainInv, Step
<1>2. \A v \in Workers : RunOK(workers'[v], now) /\ Going(workers'[v])
  BY <1>1 DEF ChainInv
<1> QED
  BY <1>1, <1>2 DEF ChainInv

LEMMA CacheSame == ASSUME CacheInv, UNCHANGED cache PROVE CacheInv'
BY DEF CacheInv, RowsOK

(* Rows that go leave the others as they were.                             *)
LEMMA CacheShrinks ==
  ASSUME CacheInv, NEW left \in SUBSET DOMAIN cache, cache' = [q \in left |-> cache[q]]
  PROVE  CacheInv'
<1>1. DOMAIN cache' = left /\ \A q \in left : cache'[q] = cache[q]
  OBVIOUS
<1>2. IsFiniteSet(left) /\ Cardinality(left) <= Cardinality(DOMAIN cache)
  BY FS_Subset DEF CacheInv
<1>3. Cardinality(left) \in Nat /\ Cardinality(DOMAIN cache) \in Nat
  BY <1>2, FS_CardinalityType DEF CacheInv
<1>4. Cardinality(left) <= MaxEntries + 1
  BY <1>2, <1>3, PolicyAssumption DEF CacheInv
<1>5. RowsOK(cache')
  BY <1>1 DEF CacheInv, RowsOK
<1> QED
  BY <1>1, <1>2, <1>4, <1>5 DEF CacheInv

LEMMA RunOf ==
  ASSUME ChainInv, NEW w \in Workers
  PROVE  RunOK(workers[w], now) /\ Going(workers[w]) /\ now \in Nat
BY DEF ChainInv

LEMMA IdleOK ==
  ASSUME NEW t \in Nat, NEW iocs, iocs \in Seq(Indicators), NEW s,
         s = Idle \/ s = [Idle EXCEPT !.pc = "chain", !.iocs = iocs]
  PROVE  RunOK(s, t) /\ Going(s)
<1>1. <<>> \in Seq(Indicators) /\ DOMAIN <<>> = {}
  OBVIOUS
<1>2. PICK pc \in Between, ii \in Seq(Indicators) :
        s = [pc |-> pc, position |-> 0, iocs |-> ii, asOf |-> 0, todo |-> {},
             pending |-> {}, records |-> <<>>, row |-> 0, at |-> 0, attempts |-> 0,
             outcome |-> <<>>]
  BY <1>1 DEF Idle, Between
<1>3. /\ DOMAIN s = Fields /\ s.pc = pc /\ s.position = 0 /\ s.iocs = ii /\ s.asOf = 0
      /\ s.row = 0 /\ s.at = 0 /\ DOMAIN s.records = {} /\ DOMAIN s.outcome = {}
  BY <1>1, <1>2 DEF Fields
<1>4. Done(s) = 0
  BY <1>3 DEF Done
<1>5. Covers(s)
  BY <1>3, <1>4 DEF Covers
<1>6. s.pc \in Between \cup Inside /\ s.pc \notin Inside
  BY <1>3 DEF Between, Inside
<1>7. 0 \in 0..Len(Providers)
  BY ProvidersAssumption
<1> QED
  BY <1>3, <1>5, <1>6, <1>7 DEF RunOK, Going

LEMMA ChainStart ==
  ASSUME ChainInv, NEW w \in Workers, NEW iocs \in Batches[w], Start(w, iocs)
  PROVE  ChainInv'
<1>1. iocs \in Seq(Indicators) /\ now \in Nat
  BY BatchAssumption DEF ChainInv
<1>2. PICK s : s = [Idle EXCEPT !.pc = "chain", !.iocs = iocs]
  OBVIOUS
<1>3. RunOK(s, now) /\ Going(s)
  BY <1>1, <1>2, IdleOK
<1>4. Step(w, "idle", s) /\ now' = now /\ CacheInv'
  BY <1>2, CacheSame DEF Start, ChainInv
<1> QED
  BY <1>3, <1>4, StepKeeps

LEMMA ChainFinish ==
  ASSUME ChainInv, NEW w \in Workers, Finish(w)
  PROVE  ChainInv'
<1>1. <<>> \in Seq(Indicators) /\ now \in Nat
  BY DEF ChainInv
<1>2. PICK s : s = Idle
  OBVIOUS
<1>3. RunOK(s, now) /\ Going(s)
  BY <1>1, <1>2, IdleOK
<1>4. Step(w, "chain", s) /\ now' = now /\ CacheInv'
  BY <1>2, CacheSame DEF Finish, ChainInv
<1> QED
  BY <1>3, <1>4, StepKeeps

LEMMA ChainNextProvider ==
  ASSUME ChainInv, NEW w \in Workers, NextProvider(w)
  PROVE  ChainInv'
<1>1. PICK s : s = workers[w]
  OBVIOUS
<1>2. RunOK(s, now) /\ now \in Nat /\ s.pc = "chain" /\ s.iocs # <<>>
      /\ s.position < Len(Providers)
  BY <1>1, RunOf DEF NextProvider, Step
<1> DEFINE n == s.position + 1
<1>3. PICK p : p = Providers[n]
  OBVIOUS
<1>4. n \in 1..Len(Providers) /\ n - 1 = s.position /\ s.position \in Nat
  BY <1>2, ProvidersAssumption DEF RunOK
<1>5. PICK asked : asked = Handled(s, p)
  OBVIOUS
<1>6. now' = now /\ CacheInv'
  BY CacheSame DEF NextProvider, ChainInv
<1>7. Done(s) = n - 1
  BY <1>2, <1>4 DEF Done, Between
<1>8. CASE asked = {}
  <2>1. PICK out : out = With(s.outcome, p, Result(Skipped, <<>>))
    OBVIOUS
  <2>2. PICK s2 : s2 = [s EXCEPT !.position = n, !.outcome = out, !.records = <<>>]
    OBVIOUS
  <2>3. Step(w, "chain", s2)
    BY <1>1, <1>3, <1>5, <1>8, <2>1, <2>2 DEF NextProvider, RunOK, Fields
  <2>4. /\ DOMAIN s2 = Fields /\ s2.pc = "chain" /\ s2.position = n
        /\ s2.iocs = s.iocs /\ s2.asOf = s.asOf /\ s2.row = s.row /\ s2.at = s.at
        /\ s2.outcome = out /\ s2.records = <<>>
    BY <1>2, <2>2 DEF RunOK, Fields
  <2>5. Agrees(Result(Skipped, <<>>), asked)
    BY <1>8, NothingAnswered
  <2>6. Covers(s2)
    <3>1. /\ DOMAIN s.outcome = {Providers[i] : i \in 1..(s2.position - 1)}
          /\ \A i \in 1..(s2.position - 1) :
               Agrees(s.outcome[Providers[i]], Handled(s, Providers[i]))
      BY <1>2, <1>4, <1>7, <2>4 DEF RunOK, Covers
    <3>2. s2.position \in 1..Len(Providers)
      BY <1>4, <2>4
    <3>3. /\ s2.outcome = With(s.outcome, Providers[s2.position], Result(Skipped, <<>>))
          /\ Agrees(Result(Skipped, <<>>), Handled(s, Providers[s2.position]))
      BY <1>3, <1>5, <2>1, <2>4, <2>5
    <3> QED
      BY <2>4, <3>1, <3>2, <3>3, CoversNext
  <2>7. DOMAIN s2.records = {}
    BY <2>4
  <2>8. s2.pc \in Between \cup Inside /\ s2.pc \notin Inside /\ n \in 0..Len(Providers)
    BY <1>4, <2>4 DEF Between, Inside
  <2>9. RunOK(s2, now) /\ Going(s2)
    BY <1>2, <1>4, <2>4, <2>6, <2>7, <2>8 DEF RunOK, Going
  <2> QED
    BY <1>6, <2>3, <2>9, StepKeeps
<1>9. CASE asked # {}
  <2>2. PICK s2 : s2 = [s EXCEPT !.pc = "get", !.position = n, !.asOf = now, !.todo = asked,
                                 !.pending = {}, !.records = <<>>]
    OBVIOUS
  <2>3. Step(w, "chain", s2)
    BY <1>1, <1>3, <1>5, <1>9, <2>2 DEF NextProvider, RunOK, Fields
  <2>4. /\ DOMAIN s2 = Fields /\ s2.pc = "get" /\ s2.position = n
        /\ s2.iocs = s.iocs /\ s2.asOf = now /\ s2.row = s.row /\ s2.at = s.at
        /\ s2.todo = asked /\ s2.pending = {} /\ s2.outcome = s.outcome /\ s2.records = <<>>
    BY <1>2, <2>2 DEF RunOK, Fields
  <2>5. DOMAIN s2.records = {} /\ Handled(s2, Provider(s2)) = asked
        /\ \A q : Handled(s2, q) = Handled(s, q)
    BY <1>3, <1>5, <2>4 DEF Handled, Provider
  <2>6. Done(s2) = n - 1
    BY <2>4 DEF Done, Between
  <2>7. Covers(s2)
    BY <1>2, <1>7, <2>4, <2>5, <2>6 DEF RunOK, Covers
  <2>8. InLoop(s2)
    BY <1>2, <1>4, <1>9, <2>4, <2>5 DEF InLoop
  <2>9. s2.pc \in Between \cup Inside /\ n \in 0..Len(Providers)
    BY <1>4, <2>4 DEF Between, Inside
  <2>10. RunOK(s2, now) /\ Going(s2)
    BY <1>2, <1>9, <2>4, <2>5, <2>7, <2>8, <2>9 DEF RunOK, Going
  <2> QED
    BY <1>6, <2>3, <2>10, StepKeeps
<1> QED
  BY <1>8, <1>9

(* The provider, the indicator and the key a run inside a loop is at.      *)
LEMMA AtKey ==
  ASSUME NEW s, NEW t, RunOK(s, t), Going(s), s.pc \in Inside
  PROVE  /\ s.todo # {} /\ InLoop(s)
         /\ Provider(s) \in Range(Providers)
         /\ Current(s) \in s.todo
         /\ Current(s) \in Indicators
<1>1. s.todo # {} /\ InLoop(s) /\ s.iocs \in Seq(Indicators)
  BY DEF RunOK, Going
<1>2. s.todo \subseteq Range(s.iocs)
  BY <1>1 DEF InLoop, Handled
<1>3. Current(s) \in s.todo
  BY <1>1, <1>2, CurrentInLoop
<1>4. Range(s.iocs) \subseteq Indicators
  BY <1>1 DEF Range
<1>5. Provider(s) \in Range(Providers)
  BY InHandPlace, ProviderInHand
<1> QED
  BY <1>1, <1>2, <1>3, <1>4, <1>5

LEMMA ChainCacheGet ==
  ASSUME ChainInv, NEW w \in Workers, CacheGet(w)
  PROVE  ChainInv'
<1>1. PICK s : s = workers[w]
  OBVIOUS
<1>2. RunOK(s, now) /\ Going(s) /\ now \in Nat /\ s.pc = "get"
  BY <1>1, RunOf DEF CacheGet, Step
<1>3. PICK p, k : p = Provider(s) /\ k = Current(s)
  OBVIOUS
<1>4. s.pc \in Inside /\ s.todo # {} /\ InLoop(s) /\ k \in Indicators
  BY <1>2, <1>3, AtKey DEF Inside
<1>5. now' = now /\ CacheInv' /\ CacheInv
  BY CacheSame DEF CacheGet, ChainInv
<1>6. CASE Key(p, k) \notin DOMAIN cache
  <2>1. PICK s2 : s2 = Missed(s)
    OBVIOUS
  <2>2. Step(w, "get", s2)
    BY <1>1, <1>3, <1>6, <2>1 DEF CacheGet
  <2>3. RunOK(s2, now) /\ Going(s2)
    BY <1>2, <1>4, <2>1, MissedOK
  <2> QED
    BY <1>5, <2>2, <2>3, StepKeeps
<1>7. CASE Key(p, k) \in DOMAIN cache
  <2>0. PICK row : row = cache[Key(p, k)]
    OBVIOUS
  <2>1. RowOK(row, p, k)
    BY <1>5, <1>7, <2>0, RowAt
  <2>2. CASE row.expiresAt <= s.asOf
    <3>1. PICK s2 : s2 = [s EXCEPT !.pc = "expire", !.row = row.id]
      OBVIOUS
    <3>2. Step(w, "get", s2)
      BY <1>1, <1>3, <1>7, <2>0, <2>2, <3>1 DEF CacheGet
    <3>3. /\ DOMAIN s2 = Fields /\ s2.pc = "expire" /\ s2.todo = s.todo
          /\ s2.pending = s.pending /\ s2.records = s.records
          /\ s2.position = s.position /\ s2.iocs = s.iocs /\ s2.asOf = s.asOf
          /\ s2.row = row.id /\ s2.at = s.at /\ s2.outcome = s.outcome
      BY <1>2, <3>1 DEF RunOK, Fields
    <3>4. InLoop(s2) /\ Going(s2)
      BY <1>2, <1>4, <3>3 DEF InLoop, Handled, Provider, Going
    <3>5. s2.row \in Nat /\ s2.at \in Nat /\ s2.at <= now /\ s2.pc \in Inside
          /\ \A x \in DOMAIN s2.records : Genuine(s2.records[x], Provider(s), x, s.asOf)
      BY <1>2, <2>1, <3>3 DEF RunOK, Inside, RowOK
    <3>6. RunOK(s2, now)
      BY <1>2, <1>4, <3>3, <3>4, <3>5, LoopMoves
    <3> QED
      BY <1>5, <3>2, <3>4, <3>6, StepKeeps
  <2>3. CASE ~(row.expiresAt <= s.asOf)
    <3>1. Genuine(row.record, p, k, s.asOf)
      <4>1. s.asOf \in Nat /\ TTL[k] \in Nat
        BY <1>2, <1>4, PolicyAssumption DEF RunOK
      <4> QED
        BY <2>1, <2>3, <4>1 DEF RowOK, Genuine
    <3>2. PICK s2 : s2 = Recorded(s, "get", row.record)
      OBVIOUS
    <3>3. Step(w, "get", s2)
      BY <1>1, <1>3, <1>7, <2>0, <2>3, <3>2 DEF CacheGet
    <3>4. RunOK(s2, now) /\ Going(s2)
      BY <1>2, <1>3, <1>4, <3>1, <3>2, RecordedOK
    <3> QED
      BY <1>5, <3>3, <3>4, StepKeeps
  <2> QED
    BY <2>2, <2>3
<1> QED
  BY <1>6, <1>7

LEMMA ChainExpire ==
  ASSUME ChainInv, NEW w \in Workers, CacheExpire(w) \/ CacheGetFails(w)
  PROVE  ChainInv'
<1>1. PICK s : s = workers[w]
  OBVIOUS
<1>2. RunOK(s, now) /\ Going(s) /\ now \in Nat /\ s.pc \in {"get", "expire"}
  BY <1>1, RunOf DEF CacheExpire, CacheGetFails, Step
<1>3. s.todo # {}
  BY <1>2 DEF Going, Inside
<1>4. PICK s2 : s2 = Missed(s)
  OBVIOUS
<1>5. RunOK(s2, now) /\ Going(s2)
  BY <1>2, <1>3, <1>4, MissedOK
<1>6. PICK pc : Step(w, pc, s2)
  BY <1>1, <1>4 DEF CacheExpire, CacheGetFails
<1>7. cache' = cache \/ \E left \in SUBSET DOMAIN cache : cache' = [q \in left |-> cache[q]]
  <2>1. CASE CacheExpire(w)
    <3> DEFINE left == {q \in DOMAIN cache : cache[q].id # workers[w].row}
    <3>1. cache' = [q \in left |-> cache[q]]
      BY <2>1 DEF CacheExpire
    <3> QED
      BY <3>1
  <2>2. CASE CacheGetFails(w)
    <3> DEFINE left == DOMAIN cache \ {Key(Provider(workers[w]), Current(workers[w]))}
    <3>1. cache' = cache \/ cache' = [q \in left |-> cache[q]]
      BY <2>2 DEF CacheGetFails
    <3> QED
      BY <3>1
  <2> QED
    BY <2>1, <2>2
<1>8. now' = now /\ CacheInv'
  BY <1>7, CacheSame, CacheShrinks DEF CacheExpire, CacheGetFails, ChainInv
<1> QED
  BY <1>5, <1>6, <1>8, StepKeeps

LEMMA FailureRecord ==
  ASSUME NEW p, NEW k, NEW asOf
  PROVE  Genuine(Record(p, Failure, 0, 0), p, k, asOf)
BY DEF Genuine, Record, Failure, Successful, Definitive

LEMMA ChainAcquire ==
  ASSUME ChainInv, NEW w \in Workers, Acquire(w)
  PROVE  ChainInv'
<1>1. PICK s : s = workers[w]
  OBVIOUS
<1>2. RunOK(s, now) /\ Going(s) /\ now \in Nat /\ s.pc = "lookup"
  BY <1>1, RunOf DEF Acquire, Step
<1>3. s.pc \in Inside /\ s.todo # {} /\ InLoop(s)
  BY <1>2, AtKey DEF Inside
<1>4. now' = now /\ CacheInv'
  BY CacheSame DEF Acquire, ChainInv
<1>5. PICK s2 : s2 = [s EXCEPT !.pc = "attempt", !.at = now]
  OBVIOUS
<1>6. PICK s3 : s3 = Recorded(s, "lookup", Record(Provider(s), Failure, 0, 0))
  OBVIOUS
<1>7. Step(w, "lookup", s2) \/ Step(w, "lookup", s3)
  BY <1>1, <1>5, <1>6 DEF Acquire
<1>8. RunOK(s2, now) /\ Going(s2)
  <2>1. /\ DOMAIN s2 = Fields /\ s2.pc = "attempt" /\ s2.todo = s.todo
        /\ s2.pending = s.pending /\ s2.records = s.records
        /\ s2.position = s.position /\ s2.iocs = s.iocs /\ s2.asOf = s.asOf
        /\ s2.row = s.row /\ s2.at = now /\ s2.outcome = s.outcome
    BY <1>2, <1>5 DEF RunOK, Fields
  <2>2. InLoop(s2) /\ Going(s2)
    BY <1>2, <1>3, <2>1 DEF InLoop, Handled, Provider, Going
  <2>3. s2.row \in Nat /\ s2.at \in Nat /\ s2.at <= now /\ s2.pc \in Inside
        /\ \A x \in DOMAIN s2.records : Genuine(s2.records[x], Provider(s), x, s.asOf)
    BY <1>2, <2>1 DEF RunOK, Inside
  <2>4. RunOK(s2, now)
    BY <1>2, <1>3, <2>1, <2>2, <2>3, LoopMoves
  <2> QED
    BY <2>2, <2>4
<1>9. RunOK(s3, now) /\ Going(s3)
  BY <1>2, <1>3, <1>6, FailureRecord, RecordedOK
<1> QED
  BY <1>4, <1>7, <1>8, <1>9, StepKeeps

(* The attempts of a lookup end with a record, and go on without one.      *)
LEMMA ChainAttempt ==
  ASSUME ChainInv, NEW w \in Workers, Answer(w) \/ Transient(w) \/ Reject(w)
  PROVE  ChainInv'
<1>1. PICK s : s = workers[w]
  OBVIOUS
<1>2. RunOK(s, now) /\ Going(s) /\ now \in Nat /\ s.pc = "attempt"
  BY <1>1, RunOf DEF Answer, Transient, Reject, Step
<1>3. s.pc \in Inside /\ s.todo # {} /\ InLoop(s) /\ Current(s) \in Indicators
  BY <1>2, AtKey DEF Inside
<1>4. now' = now /\ CacheInv'
  BY CacheSame DEF Answer, Transient, Reject, ChainInv
<1>5. PICK s2 : s2 = Recorded(s, "lookup", Record(Provider(s), Definitive, s.at, now))
  OBVIOUS
<1>6. PICK s3 : s3 = Recorded(s, "lookup", Record(Provider(s), Failure, 0, 0))
  OBVIOUS
<1>7. PICK s4 : s4 = [s EXCEPT !.attempts = @ + 1]
  OBVIOUS
<1>8. Step(w, "attempt", s2) \/ Step(w, "attempt", s3) \/ Step(w, "attempt", s4)
  BY <1>1, <1>5, <1>6, <1>7 DEF Answer, Transient, Reject
<1>9. RunOK(s2, now) /\ Going(s2)
  <2>1. TTL[Current(s)] \in Nat \ {0}
    BY <1>3, PolicyAssumption
  <2>2. now > s.asOf - TTL[Current(s)] /\ s.at \in Nat /\ s.at <= now
    BY <1>2, <2>1 DEF RunOK
  <2>3. Genuine(Record(Provider(s), Definitive, s.at, now), Provider(s), Current(s), s.asOf)
    BY <1>2, <2>2 DEF Genuine, Record
  <2> QED
    BY <1>2, <1>3, <1>5, <2>3, RecordedOK
<1>10. RunOK(s3, now) /\ Going(s3)
  BY <1>2, <1>3, <1>6, FailureRecord, RecordedOK
<1>11. RunOK(s4, now) /\ Going(s4)
  <2>1. /\ DOMAIN s4 = Fields /\ s4.pc = s.pc /\ s4.todo = s.todo
        /\ s4.pending = s.pending /\ s4.records = s.records
        /\ s4.position = s.position /\ s4.iocs = s.iocs /\ s4.asOf = s.asOf
        /\ s4.row = s.row /\ s4.at = s.at /\ s4.outcome = s.outcome
    BY <1>2, <1>7 DEF RunOK, Fields
  <2>2. InLoop(s4) /\ Going(s4)
    BY <1>2, <1>3, <2>1 DEF InLoop, Handled, Provider, Going
  <2>3. s4.row \in Nat /\ s4.at \in Nat /\ s4.at <= now /\ s4.pc \in Inside
        /\ \A x \in DOMAIN s4.records : Genuine(s4.records[x], Provider(s), x, s.asOf)
    BY <1>2, <1>3, <2>1 DEF RunOK
  <2>4. RunOK(s4, now)
    BY <1>2, <1>3, <2>1, <2>2, <2>3, LoopMoves
  <2> QED
    BY <2>2, <2>4
<1> QED
  BY <1>4, <1>8, <1>9, <1>10, <1>11, StepKeeps

LEMMA ChainRaise ==
  ASSUME ChainInv, NEW w \in Workers, Raise(w)
  PROVE  ChainInv'
<1>1. PICK s : s = workers[w]
  OBVIOUS
<1>2. RunOK(s, now) /\ Going(s) /\ now \in Nat /\ s.pc = "attempt"
  BY <1>1, RunOf DEF Raise, Step
<1>3. s.pc \in Inside /\ InLoop(s)
  BY <1>2, AtKey DEF Inside
<1>4. now' = now /\ CacheInv'
  BY CacheSame DEF Raise, ChainInv
<1>5. PICK out : out = With(s.outcome, Provider(s), Result(Failed, <<>>))
  OBVIOUS
<1>6. PICK s2 : s2 = [s EXCEPT !.pc = "chain", !.todo = {}, !.pending = {}, !.records = <<>>,
                               !.at = 0, !.attempts = 0, !.outcome = out]
  OBVIOUS
<1>7. Step(w, "attempt", s2)
  BY <1>1, <1>2, <1>5, <1>6 DEF Raise, RunOK, Fields
<1>8. /\ DOMAIN s2 = Fields /\ s2.pc = "chain"
      /\ s2.position = s.position /\ s2.iocs = s.iocs /\ s2.asOf = s.asOf
      /\ s2.row = s.row /\ s2.at = 0 /\ s2.outcome = out /\ s2.records = <<>>
  BY <1>2, <1>6 DEF RunOK, Fields
<1>9. DOMAIN s2.records = {}
  BY <1>8
<1>10. Agrees(Result(Failed, <<>>), Handled(s, Provider(s)))
  BY <1>3, NothingAnswered DEF InLoop
<1>11. s2.row \in Nat /\ s2.at \in Nat /\ s2.at <= now
  BY <1>2, <1>8 DEF RunOK
<1>12. s2.outcome = With(s.outcome, Provider(s), Result(Failed, <<>>))
  BY <1>5, <1>8
<1>13. /\ DOMAIN s2.records \subseteq DOMAIN s.records
       /\ \A k \in DOMAIN s2.records : s2.records[k] = s.records[k]
  BY <1>9
<1>14. RunOK(s2, now) /\ Going(s2)
  BY <1>2, <1>3, <1>8, <1>10, <1>11, <1>12, <1>13, ProviderEnds
<1> QED
  BY <1>4, <1>7, <1>14, StepKeeps

LEMMA ChainPutRead ==
  ASSUME ChainInv, NEW w \in Workers, PutRead(w)
  PROVE  ChainInv'
<1>1. PICK s : s = workers[w]
  OBVIOUS
<1>2. RunOK(s, now) /\ Going(s) /\ now \in Nat /\ s.pc = "put"
  BY <1>1, RunOf DEF PutRead, Step
<1>3. s.pc \in Inside /\ InLoop(s)
  BY <1>2, AtKey DEF Inside
<1>4. now' = now /\ CacheInv' /\ CacheInv
  BY CacheSame DEF PutRead, ChainInv
<1>5. PICK q : q = Key(Provider(s), Current(s))
  OBVIOUS
<1>6. PICK row : row = IF q \in DOMAIN cache THEN cache[q].id ELSE 0
  OBVIOUS
<1>7. row \in Nat
  BY <1>4, <1>5, <1>6, RowAt DEF RowOK
<1>8. PICK s2 : s2 = [s EXCEPT !.pc = "write", !.row = row]
  OBVIOUS
<1>9. Step(w, "put", s2)
  BY <1>1, <1>5, <1>6, <1>8 DEF PutRead
<1>10. /\ DOMAIN s2 = Fields /\ s2.pc = "write" /\ s2.todo = s.todo
       /\ s2.pending = s.pending /\ s2.records = s.records
       /\ s2.position = s.position /\ s2.iocs = s.iocs /\ s2.asOf = s.asOf
       /\ s2.row = row /\ s2.at = s.at /\ s2.outcome = s.outcome
  BY <1>2, <1>8 DEF RunOK, Fields
<1>11. InLoop(s2) /\ Going(s2)
  BY <1>2, <1>3, <1>10 DEF InLoop, Handled, Provider, Going
<1>12. s2.row \in Nat /\ s2.at \in Nat /\ s2.at <= now /\ s2.pc \in Inside
       /\ \A x \in DOMAIN s2.records : Genuine(s2.records[x], Provider(s), x, s.asOf)
  BY <1>2, <1>7, <1>10 DEF RunOK, Inside
<1>13. RunOK(s2, now)
  BY <1>2, <1>3, <1>10, <1>11, <1>12, LoopMoves
<1> QED
  BY <1>4, <1>9, <1>11, <1>13, StepKeeps

(* A full cache has a row that expires before the others, the oldest of    *)
(* them, and it goes.                                                      *)
LEMMA OverflowEvicts ==
  ASSUME CacheInv, Cardinality(DOMAIN cache) = MaxEntries + 1
  PROVE  DOMAIN cache \ Victims # DOMAIN cache
<1>1. \A q \in DOMAIN cache : cache[q].id \in Nat /\ cache[q].expiresAt \in Nat
  BY DEF CacheInv, RowsOK, RowOK
<1>2. DOMAIN cache # {}
  BY FS_EmptySet, PolicyAssumption
<1> DEFINE times == {cache[q].expiresAt : q \in DOMAIN cache}
<1>3. times \in SUBSET Nat /\ times # {}
  BY <1>1, <1>2
<1>4. PICK soonest \in times : \A t \in times : soonest <= t
  BY <1>3, LeastOf
<1> DEFINE first == {q \in DOMAIN cache : cache[q].expiresAt = soonest}
           ids == {cache[q].id : q \in first}
<1>5. ids \in SUBSET Nat /\ ids # {}
  BY <1>1, <1>4
<1>6. PICK oldest \in ids : \A i \in ids : oldest <= i
  BY <1>5, LeastOf
<1>7. PICK v \in first : cache[v].id = oldest
  BY <1>6
<1>8. \A q \in DOMAIN cache :
        ~(\/ cache[q].expiresAt < cache[v].expiresAt
          \/ cache[q].expiresAt = cache[v].expiresAt /\ cache[q].id < cache[v].id)
  <2>1. v \in DOMAIN cache /\ cache[v].expiresAt = soonest /\ cache[v].id = oldest
    BY <1>7
  <2>2. \A q \in DOMAIN cache : soonest <= cache[q].expiresAt
    BY <1>4
  <2>3. \A q \in DOMAIN cache : cache[q].expiresAt = soonest => oldest <= cache[q].id
    BY <1>6
  <2> HIDE DEF times, first, ids
  <2>4. /\ \A q \in DOMAIN cache : cache[q].id \in Nat /\ cache[q].expiresAt \in Nat
        /\ soonest \in Nat /\ oldest \in Nat
    BY <1>1, <2>1
  <2> QED BY <2>1, <2>2, <2>3, <2>4
<1> DEFINE before == {q \in DOMAIN cache :
             \/ cache[q].expiresAt < cache[v].expiresAt
             \/ cache[q].expiresAt = cache[v].expiresAt /\ cache[q].id < cache[v].id}
<1>9. before = {}
  BY <1>8
<1>10. Cardinality(before) < Cardinality(DOMAIN cache) - MaxEntries
  <2>1. Cardinality(before) = 0
    BY <1>9, FS_EmptySet
  <2> DEFINE n == Cardinality(DOMAIN cache)
  <2>2. n = MaxEntries + 1
    OBVIOUS
  <2> HIDE DEF n, before
  <2>3. Cardinality(before) < n - MaxEntries
    BY <2>1, <2>2, PolicyAssumption
  <2> QED
    BY <2>3 DEF n
<1>11. v \in Victims
  BY <1>7, <1>10 DEF Victims
<1> QED
  BY <1>7, <1>11

LEMMA TableBound ==
  ASSUME CacheInv, NEW kept \in SUBSET DOMAIN cache, NEW q, NEW rows \in SUBSET (kept \cup {q}),
         Cardinality(DOMAIN cache) = MaxEntries + 1 => kept # DOMAIN cache
  PROVE  IsFiniteSet(rows) /\ Cardinality(rows) <= MaxEntries + 1
<1>1. IsFiniteSet(DOMAIN cache) /\ Cardinality(DOMAIN cache) \in Nat
      /\ Cardinality(DOMAIN cache) <= MaxEntries + 1
  BY FS_CardinalityType DEF CacheInv
<1>2. /\ IsFiniteSet(kept) /\ Cardinality(kept) <= Cardinality(DOMAIN cache)
      /\ Cardinality(DOMAIN cache) = Cardinality(kept) => DOMAIN cache = kept
  BY <1>1, FS_Subset
<1>3. Cardinality(kept) \in Nat
  BY <1>2, FS_CardinalityType
<1>4. Cardinality(kept) <= MaxEntries
  BY <1>1, <1>2, <1>3, PolicyAssumption
<1>5. IsFiniteSet(kept \cup {q}) /\ Cardinality(kept \cup {q}) <= Cardinality(kept) + 1
  BY <1>2, <1>3, FS_AddElement
<1>6. Cardinality(kept \cup {q}) \in Nat
  BY <1>5, FS_CardinalityType
<1>7. IsFiniteSet(rows) /\ Cardinality(rows) <= Cardinality(kept \cup {q})
  BY <1>5, FS_Subset
<1>8. Cardinality(rows) \in Nat
  BY <1>7, FS_CardinalityType
<1> QED
  BY <1>3, <1>4, <1>5, <1>6, <1>7, <1>8, PolicyAssumption

LEMMA ChainPutFails ==
  ASSUME ChainInv, NEW w \in Workers, PutFails(w)
  PROVE  ChainInv'
<1>1. PICK s : s = workers[w]
  OBVIOUS
<1>2. RunOK(s, now) /\ Going(s) /\ now \in Nat /\ s.pc = "write" /\ s.todo # {}
  BY <1>1, RunOf DEF PutFails, Step, Going, Inside
<1>3. PICK s2 : s2 = [s EXCEPT !.pc = "put", !.row = 0, !.todo = @ \ {Current(s)}]
  OBVIOUS
<1>4. PICK s3 : s3 = Settle(s2)
  OBVIOUS
<1>5. RunOK(s3, now) /\ Going(s3)
  BY <1>2, <1>3, <1>4, StoredOK
<1>6. Step(w, "write", s3) /\ now' = now /\ CacheInv'
  BY <1>1, <1>3, <1>4, CacheSame DEF PutFails, ChainInv
<1> QED
  BY <1>5, <1>6, StepKeeps

LEMMA ChainPutWrite ==
  ASSUME ChainInv, NEW w \in Workers, PutWrite(w)
  PROVE  ChainInv'
<1>1. PICK s : s = workers[w]
  OBVIOUS
<1>2. RunOK(s, now) /\ Going(s) /\ now \in Nat /\ s.pc = "write" /\ s.todo # {} /\ CacheInv
  BY <1>1, RunOf DEF PutWrite, Step, Going, Inside, ChainInv
<1>3. PICK p, k : p = Provider(s) /\ k = Current(s)
  OBVIOUS
<1>4. /\ p \in Range(Providers) /\ k \in s.todo /\ k \in Indicators
      /\ InLoop(s)
  BY <1>2, <1>3, AtKey DEF Inside
<1>5. PICK s2 : s2 = [s EXCEPT !.pc = "put", !.row = 0, !.todo = @ \ {Current(s)}]
  OBVIOUS
<1>6. PICK s3 : s3 = Settle(s2)
  OBVIOUS
<1>7. RunOK(s3, now) /\ Going(s3)
  BY <1>2, <1>5, <1>6, StoredOK
<1>8. Step(w, "write", s3) /\ now' = now
  BY <1>1, <1>5, <1>6 DEF PutWrite
<1>9. PICK ids : ids = {cache[q].id : q \in DOMAIN cache}
  OBVIOUS
<1>10. ids \in SUBSET Nat /\ IsFiniteSet(ids)
  <2>1. \A q \in DOMAIN cache : cache[q].id \in Nat
    BY <1>2 DEF CacheInv, RowsOK, RowOK
  <2> DEFINE f == [q \in DOMAIN cache |-> cache[q].id]
  <2>2. f \in Surjection(DOMAIN cache, ids)
    BY <1>9 DEF Surjection
  <2>3. IsFiniteSet(ids)
    BY <1>2, <2>2, FS_Surjection DEF CacheInv
  <2> QED
    BY <1>9, <2>1, <2>3
<1>11. PICK id : id = IF s.row # 0 THEN s.row ELSE Max(ids \cup {0}) + 1
  OBVIOUS
<1>12. id \in Nat \ {0}
  <2>1. Max(ids \cup {0}) + 1 \in Nat \ {0}
    BY <1>10, NextIdTyped
  <2>2. s.row \in Nat
    BY <1>2 DEF RunOK
  <2> QED
    BY <1>11, <2>1, <2>2
<1>13. PICK record : record = s.records[k]
  OBVIOUS
<1>14. PICK row : row = [id |-> id, record |-> record, expiresAt |-> Expiry(k, record)]
  OBVIOUS
<1>15. RowOK(row, p, k)
  <2>1. k \in DOMAIN s.records /\ record.status \in Successful
    BY <1>2, <1>4, <1>13 DEF InLoop
  <2>2. /\ record.provider = p
        /\ record.at \in Nat /\ record.answered \in Nat /\ record.at <= record.answered
    BY <1>2, <1>3, <1>13, <2>1 DEF RunOK, Genuine
  <2>3. TTL[k] \in Nat
    BY <1>4, PolicyAssumption
  <2>4. row.id = id /\ row.record = record /\ row.expiresAt = record.at + TTL[k]
    BY <1>14 DEF Expiry
  <2> QED
    BY <1>12, <2>2, <2>3, <2>4 DEF RowOK
<1> DEFINE gone == s.row # 0 /\ s.row \notin ids
           q == Key(p, k)
<1>16. PICK kept : kept = DOMAIN cache \ Victims
  OBVIOUS
<1>17. PICK rows : rows = kept \cup (IF q \in Victims THEN {} ELSE {q})
  OBVIOUS
<1>18. cache' = IF gone THEN cache ELSE [x \in rows |-> IF x = q THEN row ELSE cache[x]]
  BY <1>1, <1>3, <1>9, <1>11, <1>13, <1>14, <1>16, <1>17 DEF PutWrite
<1>19. CASE gone
  <2>1. CacheInv'
    BY <1>2, <1>18, <1>19, CacheSame
  <2> QED
    BY <1>7, <1>8, <2>1, StepKeeps
<1>20. CASE ~gone
  <2>1. /\ DOMAIN cache' = rows
        /\ \A x \in rows : cache'[x] = IF x = q THEN row ELSE cache[x]
    BY <1>18, <1>20
  <2>2. IsFiniteSet(rows) /\ Cardinality(rows) <= MaxEntries + 1
    <3>1. kept \in SUBSET DOMAIN cache /\ rows \in SUBSET (kept \cup {q})
      BY <1>16, <1>17
    <3>2. Cardinality(DOMAIN cache) = MaxEntries + 1 => kept # DOMAIN cache
      BY <1>2, <1>16, OverflowEvicts
    <3> QED
      BY <1>2, <3>1, <3>2, TableBound
  <2>3. RowsOK(cache')
    <3> SUFFICES ASSUME NEW x \in rows
                 PROVE  \E p2 \in Range(Providers) : \E k2 \in Indicators :
                          x = Key(p2, k2) /\ RowOK(cache'[x], p2, k2)
      BY <2>1 DEF RowsOK
    <3>1. CASE x = q
      BY <1>4, <1>15, <2>1, <3>1
    <3>2. CASE x # q
      <4>1. x \in DOMAIN cache /\ cache'[x] = cache[x]
        BY <1>16, <1>17, <2>1, <3>2
      <4> QED
        BY <1>2, <4>1 DEF CacheInv, RowsOK
    <3> QED
      BY <3>1, <3>2
  <2>4. CacheInv'
    BY <2>1, <2>2, <2>3 DEF CacheInv
  <2> QED
    BY <1>7, <1>8, <2>4, StepKeeps
<1> QED
  BY <1>19, <1>20

LEMMA ChainTick == ASSUME ChainInv, Tick PROVE ChainInv'
<1>1. now \in Nat /\ now' = now + 1 /\ UNCHANGED <<workers, cache>>
  BY DEF Tick, ChainInv
<1>2. \A w \in Workers : RunOK(workers[w], now + 1)
  BY <1>1 DEF ChainInv, RunOK
<1>3. CacheInv'
  BY <1>1, CacheSame DEF ChainInv
<1> QED
  BY <1>1, <1>2, <1>3 DEF ChainInv

LEMMA ChainInit == Init => ChainInv
<1> SUFFICES ASSUME Init PROVE ChainInv
  OBVIOUS
<1>1. now \in Nat /\ DOMAIN workers = Workers /\ \A w \in Workers : workers[w] = Idle
  BY DEF Init
<1>2. PICK s : s = Idle
  OBVIOUS
<1>3. RunOK(s, now) /\ Going(s)
  <2>1. <<>> \in Seq(Indicators)
    OBVIOUS
  <2> QED
    BY <1>1, <1>2, <2>1, IdleOK
<1>4. cache = Stored
  BY DEF Init
<1>5. ASSUME NEW p \in Range(Providers), NEW k \in Indicators, Key(p, k) \in DOMAIN Stored
      PROVE  RowOK(Stored[Key(p, k)], p, k)
  <2>1. PICK row : row = Stored[Key(p, k)]
    OBVIOUS
  <2>2. /\ row.id \in Nat \ {0}
        /\ row.record.at \in Nat /\ row.record.answered \in Nat
        /\ row.record.at <= row.record.answered
        /\ row.record = Record(p, Definitive, row.record.at, row.record.answered)
        /\ row.expiresAt = row.record.at + TTL[k]
    BY <1>5, <2>1, StoredAssumption
  <2>3. row.record.provider = p
    BY <2>2 DEF Record
  <2>4. TTL[k] \in Nat
    BY PolicyAssumption
  <2> QED
    BY <2>1, <2>2, <2>3, <2>4 DEF RowOK
<1>6. RowsOK(cache)
  <2>1. \A q \in DOMAIN Stored : \E p \in Range(Providers) : \E k \in Indicators : q = Key(p, k)
    BY StoredAssumption
  <2> QED
    BY <1>4, <1>5, <2>1 DEF RowsOK
<1>7. CacheInv
  BY <1>4, <1>6, StoredAssumption DEF CacheInv
<1> QED
  BY <1>1, <1>2, <1>3, <1>7 DEF ChainInv

LEMMA ChainStep == ChainInv /\ [Next]_vars => ChainInv'
<1> SUFFICES ASSUME ChainInv, [Next]_vars PROVE ChainInv'
  OBVIOUS
<1>1. ASSUME NEW w \in Workers, Work(w) PROVE ChainInv'
  <2>1. CASE NextProvider(w)
    BY <2>1, ChainNextProvider
  <2>2. CASE Finish(w)
    BY <2>2, ChainFinish
  <2>3. CASE CacheGet(w)
    BY <2>3, ChainCacheGet
  <2>4. CASE CacheExpire(w) \/ CacheGetFails(w)
    BY <2>4, ChainExpire
  <2>5. CASE Acquire(w)
    BY <2>5, ChainAcquire
  <2>6. CASE Answer(w) \/ Transient(w) \/ Reject(w)
    BY <2>6, ChainAttempt
  <2>7. CASE Raise(w)
    BY <2>7, ChainRaise
  <2>8. CASE PutRead(w)
    BY <2>8, ChainPutRead
  <2>9. CASE PutWrite(w)
    BY <2>9, ChainPutWrite
  <2>10. CASE PutFails(w)
    BY <2>10, ChainPutFails
  <2> QED
    BY <1>1, <2>1, <2>2, <2>3, <2>4, <2>5, <2>6, <2>7, <2>8, <2>9, <2>10 DEF Work, Lookup
<1>2. ASSUME NEW w \in Workers, NEW iocs \in Batches[w], Start(w, iocs) PROVE ChainInv'
  BY <1>2, ChainStart
<1>3. CASE Tick
  BY <1>3, ChainTick
<1>4. CASE UNCHANGED vars
  BY <1>4, CacheSame DEF vars, ChainInv
<1> QED
  BY <1>1, <1>2, <1>3, <1>4 DEF Next

LEMMA SpecChain == Spec => []ChainInv
BY ChainInit, ChainStep, PTL DEF Spec

(* A definitive record that a run holds is its provider's answer, given    *)
(* less than the indicator's lifetime before the run read the clock,       *)
(* however the runs overlap in the cache (PersistentEnrichmentCache.get    *)
(* and put).                                                               *)
THEOREM VerdictsAreFresh == Spec => []ServedVerdictsAreFresh
<1>1. ChainInv => ServedVerdictsAreFresh
  BY DEF ChainInv, RunOK, Genuine, ServedVerdictsAreFresh
<1> QED
  BY <1>1, SpecChain, PTL

(* The cache never holds more than one row above max_entries, whichever    *)
(* runs put and expire rows (_evict_overflow).                             *)
THEOREM CacheStaysBounded == Spec => []CacheBounded
<1>1. ChainInv => CacheBounded
  BY DEF ChainInv, CacheInv, CacheBounded
<1> QED
  BY <1>1, SpecChain, PTL

(* The statuses of the providers together tell the coverage of the alert.  *)
LEMMA StatusesTell ==
  ASSUME NEW out, NEW names, DOMAIN out = names,
         NEW AskedOf, \A p \in names : Agrees(out[p], AskedOf[p]),
         NEW asked, asked = UNION {{p} \X AskedOf[p] : p \in names},
         NEW answered, answered = {a \in asked : a[2] \in out[a[1]].answered}
  PROVE  RunStatus(out) = Coverage(asked, answered)
<1> DEFINE statuses == {out[p].status : p \in DOMAIN out}
           meaningful == statuses \ {Skipped}
<1>1. ASSUME NEW p \in names
      PROVE  /\ out[p].answered \subseteq AskedOf[p]
             /\ out[p].status = Skipped <=> AskedOf[p] = {}
             /\ out[p].status = Complete <=> AskedOf[p] # {} /\ out[p].answered = AskedOf[p]
             /\ out[p].status = Failed <=> AskedOf[p] # {} /\ out[p].answered = {}
  BY DEF Agrees, Coverage, Skipped, Complete, Failed, Partial
<1>2. \A p \in names : \A k \in AskedOf[p] : /\ <<p, k>> \in asked
                                             /\ <<p, k>> \in answered <=> k \in out[p].answered
  OBVIOUS
<1>3. \A a \in asked : \E p \in names : \E k \in AskedOf[p] : a = <<p, k>>
  OBVIOUS
<1>4. answered \subseteq asked
  OBVIOUS
<1>5. meaningful = {} <=> asked = {}
  <2>1. ASSUME meaningful = {} PROVE asked = {}
    <3>1. \A p \in names : out[p].status = Skipped
      BY <2>1
    <3>2. \A p \in names : AskedOf[p] = {}
      BY <1>1, <3>1
    <3> QED
      BY <1>3, <3>2
  <2>2. ASSUME asked = {}, NEW p \in names PROVE out[p].status = Skipped
    <3>1. AskedOf[p] = {}
      BY <1>2, <2>2
    <3> QED
      BY <1>1, <3>1
  <2>3. asked = {} => meaningful = {}
    BY <2>2
  <2> QED
    BY <2>1, <2>3
<1>6. meaningful \subseteq {Complete} <=> answered = asked
  <2>1. ASSUME meaningful \subseteq {Complete}, NEW p \in names, NEW k \in AskedOf[p]
        PROVE  <<p, k>> \in answered
    <3>1. out[p].status # Skipped
      BY <1>1
    <3>2. out[p].status = Complete
      BY <2>1, <3>1
    <3> QED
      BY <3>2, <1>1, <1>2
  <2>2. ASSUME answered = asked, NEW p \in names, out[p].status # Skipped
        PROVE  out[p].status = Complete
    <3>1. AskedOf[p] # {} /\ out[p].answered \subseteq AskedOf[p]
      BY <1>1, <2>2
    <3>2. \A k \in AskedOf[p] : k \in out[p].answered
      BY <1>2, <2>2
    <3>3. out[p].answered = AskedOf[p]
      BY <3>1, <3>2
    <3> QED
      BY <1>1, <3>1, <3>3
  <2>3. meaningful \subseteq {Complete} => answered = asked
    BY <2>1, <1>3, <1>4
  <2> QED
    BY <2>2, <2>3
<1>7. meaningful \subseteq {Failed} <=> answered = {}
  <2>1. ASSUME meaningful \subseteq {Failed}, NEW p \in names, NEW k \in AskedOf[p]
        PROVE  <<p, k>> \notin answered
    <3>1. out[p].status # Skipped
      BY <1>1
    <3>2. out[p].status = Failed
      BY <2>1, <3>1
    <3>3. out[p].answered = {}
      BY <3>2, <1>1
    <3> QED
      BY <3>3, <1>2
  <2>2. ASSUME answered = {}, NEW p \in names, out[p].status # Skipped
        PROVE  out[p].status = Failed
    <3>1. AskedOf[p] # {} /\ out[p].answered \subseteq AskedOf[p]
      BY <1>1, <2>2
    <3>2. \A k \in AskedOf[p] : k \notin out[p].answered
      BY <1>2, <2>2
    <3>3. out[p].answered = {}
      BY <3>1, <3>2
    <3> QED
      BY <1>1, <3>1, <3>3
  <2>3. meaningful \subseteq {Failed} => answered = {}
    BY <2>1, <1>3, <1>4
  <2> QED
    BY <2>2, <2>3
<1>8. RunStatus(out) = AggregateProviders(statuses)
  BY DEF RunStatus
<1>9. AggregateProviders(statuses) =
        CASE meaningful = {}         -> Skipped
          [] meaningful = {Complete} -> Complete
          [] meaningful = {Failed}   -> Failed
          [] OTHER                   -> Partial
  BY DEF AggregateProviders
<1> HIDE DEF statuses, meaningful
<1>10. CASE asked = {}
  BY <1>5, <1>8, <1>9, <1>10 DEF Coverage
<1>11. CASE asked # {} /\ answered = asked
  <2>1. meaningful = {Complete}
    BY <1>5, <1>6, <1>11
  <2> QED
    BY <1>8, <1>9, <1>11, <2>1 DEF Coverage, Complete, Failed
<1>12. CASE asked # {} /\ answered = {}
  <2>1. meaningful = {Failed}
    BY <1>5, <1>7, <1>12
  <2> QED
    BY <1>8, <1>9, <1>12, <2>1 DEF Coverage, Complete, Failed
<1>13. CASE asked # {} /\ answered # asked /\ answered # {}
  <2>1. meaningful # {} /\ meaningful # {Complete} /\ meaningful # {Failed}
    BY <1>5, <1>6, <1>7, <1>13
  <2> QED
    BY <1>8, <1>9, <1>13, <2>1 DEF Coverage
<1> QED
  BY <1>10, <1>11, <1>12, <1>13

(* The status of a finished run tells its coverage, whatever failed in it  *)
(* (EnrichmentChain.enrich).                                               *)
THEOREM StatusesTellCoverage == Spec => []StatusTellsCoverage
<1>1. ChainInv => StatusTellsCoverage
  <2> SUFFICES ASSUME ChainInv, NEW w \in Workers, Finished(workers[w])
               PROVE  LET out == workers[w].outcome
                          asked == {a \in Range(Providers) \X Range(workers[w].iocs) :
                                      a[2] \in Handles[a[1]]}
                          answered == {a \in asked : a[2] \in out[a[1]].answered}
                      IN RunStatus(out) = CASE asked = {}        -> Skipped
                                            [] asked /= {} /\ answered = asked -> Complete
                                            [] asked /= {} /\ answered = {}    -> Failed
                                            [] OTHER             -> Partial
    BY DEF StatusTellsCoverage
  <2>1. PICK s : s = workers[w]
    OBVIOUS
  <2>2. RunOK(s, now) /\ s.pc = "chain" /\ (s.position = Len(Providers) \/ s.iocs = <<>>)
    BY <2>1 DEF ChainInv, Finished
  <2>3. PICK out : out = s.outcome
    OBVIOUS
  <2> DEFINE asked == {a \in Range(Providers) \X Range(s.iocs) : a[2] \in Handles[a[1]]}
             answered == {a \in asked : a[2] \in out[a[1]].answered}
             names == DOMAIN out
             AskedOf == [p \in names |-> Handled(s, p)]
  <2>4. /\ names = {Providers[i] : i \in 1..s.position}
        /\ \A i \in 1..s.position : Agrees(out[Providers[i]], Handled(s, Providers[i]))
    BY <2>2, <2>3 DEF RunOK, Covers, Done, Between
  <2>5. \A p \in names : Agrees(out[p], AskedOf[p])
    BY <2>4
  <2>6. asked = UNION {{p} \X AskedOf[p] : p \in names}
    <3>1. CASE s.iocs = <<>>
      <4>1. Range(s.iocs) = {} /\ s.position = 0
        BY <2>2, <3>1 DEF Range, RunOK
      <4>2. names = {}
        BY <2>4, <4>1
      <4> QED
        BY <4>1, <4>2
    <3>2. CASE s.position = Len(Providers)
      <4>1. names = Range(Providers)
        BY <2>4, <3>2, ProvidersAssumption DEF Range
      <4> QED
        BY <4>1 DEF Handled
    <3> QED
      BY <2>2, <3>1, <3>2
  <2>7. RunStatus(out) = Coverage(asked, answered)
    <3> HIDE DEF asked, AskedOf
    <3> QED
      BY <2>5, <2>6, StatusesTell
  <2> QED
    BY <2>1, <2>3, <2>7 DEF Coverage
<1> QED
  BY <1>1, SpecChain, PTL
=============================================================================
