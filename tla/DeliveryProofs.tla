--------------------------- MODULE DeliveryProofs ---------------------------
(***************************************************************************)
(* Proofs about Delivery, for every set of events and every limit: n8n     *)
(* gets one series of requests per alert and alerts of one event are a     *)
(* window apart, and a delivery on record happened.  Both rest on the      *)
(* service's part of the state alone, whatever the script sends it.  That  *)
(* no alert is lost without a line in the log needs both sides, and what   *)
(* connects them: whose request is answered, and that a 2xx is true.       *)
(***************************************************************************)
EXTENDS Delivery, FiniteSetTheorems, TLAPS

AlertRow == [event : Events, at : Nat, series : {0, 1}, receipts : Nat,
             row : {"none", "delivered", "failed"}]
HandlerState == [stage : {"free", "check", "send", "record"}, alert : Nat, attempts : Nat,
                 result : {"none", "delivered", "failed"}]

(* What the row of the alert says while its handler is at this stage.      *)
Serving(h, r) ==
  \/ h.stage = "check" /\ h.attempts = 0 /\ r.series = 0 /\ r.receipts = 0
  \/ h.stage = "send" /\ h.attempts < MaxRetries /\ r.receipts <= h.attempts
  \/ h.stage = "record" /\ (h.result = "delivered" => r.receipts > 0)

Counted(r) == /\ r.receipts <= MaxRetries
              /\ r.row = "delivered" => r.receipts > 0

(* The deduplicator knows every alert's event, at the time of the alert or *)
(* later.                                                                  *)
Remembered ==
  /\ \A a \in DOMAIN alerts : /\ alerts[a].event \in DOMAIN seen
                              /\ alerts[a].at <= seen[alerts[a].event]
  /\ \A e \in DOMAIN seen : seen[e] \in Nat /\ seen[e] <= now

Spaced ==
  \A a, b \in DOMAIN alerts :
    a < b /\ alerts[a].event = alerts[b].event => alerts[b].at - alerts[a].at > Window

ServiceInv ==
  /\ now \in Nat
  /\ alerts \in Seq(AlertRow)
  /\ handler \in HandlerState
  /\ \A a \in DOMAIN alerts : Counted(alerts[a])
  /\ handler # Free => /\ handler.alert \in DOMAIN alerts
                       /\ Serving(handler, alerts[handler.alert])
  /\ Remembered
  /\ Spaced

LEMMA InThePast ==
  ASSUME ServiceInv
  PROVE  \A a \in DOMAIN alerts : alerts[a].at \in Nat /\ alerts[a].at <= now
<1>1. \A a \in DOMAIN alerts : alerts[a] \in AlertRow
  BY DEF ServiceInv
<1>2. \A a \in DOMAIN alerts : alerts[a].at \in Nat
  BY <1>1 DEF AlertRow
<1> QED
  BY <1>2 DEF ServiceInv, Remembered

(* The rows of the alerts as one action on the row in hand leaves them.    *)
LEMMA RowChanged ==
  ASSUME ServiceInv, NEW r \in AlertRow,
         handler.alert \in DOMAIN alerts,
         r.event = alerts[handler.alert].event,
         r.at = alerts[handler.alert].at,
         Counted(r),
         alerts' = [alerts EXCEPT ![handler.alert] = r],
         UNCHANGED <<now, seen>>
  PROVE  /\ alerts' \in Seq(AlertRow)
         /\ DOMAIN alerts' = DOMAIN alerts
         /\ \A a \in DOMAIN alerts' : Counted(alerts'[a])
         /\ alerts'[handler.alert] = r
         /\ Remembered'
         /\ Spaced'
<1>1. /\ alerts' \in Seq(AlertRow)
      /\ DOMAIN alerts' = DOMAIN alerts
      /\ alerts'[handler.alert] = r
      /\ \A a \in DOMAIN alerts : a # handler.alert => alerts'[a] = alerts[a]
  BY DEF ServiceInv
<1>2. \A a \in DOMAIN alerts : /\ alerts'[a].event = alerts[a].event
                               /\ alerts'[a].at = alerts[a].at
                               /\ Counted(alerts'[a])
  BY <1>1 DEF ServiceInv
<1>3. Remembered'
  BY <1>1, <1>2 DEF ServiceInv, Remembered
<1>4. Spaced'
  BY <1>1, <1>2 DEF ServiceInv, Spaced
<1> QED
  BY <1>1, <1>2, <1>3, <1>4

LEMMA ServiceInit == Init => ServiceInv
<1> SUFFICES ASSUME Init PROVE ServiceInv
  OBVIOUS
<1>1. alerts \in Seq(AlertRow) /\ DOMAIN alerts = {}
  BY DEF Init
<1>2. Free \in HandlerState
  BY DEF Free, HandlerState
<1>3. Remembered /\ Spaced
  BY <1>1 DEF Init, Remembered, Spaced
<1> QED
  BY <1>1, <1>2, <1>3 DEF Init, ServiceInv

(* A step that leaves the service's part alone.                            *)
LEMMA ServiceKept ==
  ASSUME ServiceInv, UNCHANGED <<handler, seen, alerts>>, now' = now
  PROVE  ServiceInv'
BY DEF ServiceInv, Remembered, Spaced, Counted, Serving

LEMMA ServiceTick == ASSUME ServiceInv, Tick PROVE ServiceInv'
<1>1. now' = now + 1 /\ now' \in Nat /\ UNCHANGED <<handler, seen, alerts>>
  BY DEF ServiceInv, Tick, serviceVars
<1>2. Remembered'
  BY <1>1 DEF ServiceInv, Remembered
<1> QED
  BY <1>1, <1>2 DEF ServiceInv, Spaced, Counted, Serving

LEMMA ServiceDuplicate == ASSUME ServiceInv, NEW e \in Events, HandleDuplicate(e) PROVE ServiceInv'
<1>1. /\ UNCHANGED <<now, handler, alerts>>
      /\ e \in DOMAIN seen
      /\ seen' = [seen EXCEPT ![e] = now]
  BY DEF HandleDuplicate, Reply, KnownEvent
<1>2. Remembered'
  BY <1>1, InThePast DEF ServiceInv, Remembered
<1> QED
  BY <1>1, <1>2 DEF ServiceInv, Spaced, Counted, Serving

LEMMA ServiceNew == ASSUME ServiceInv, NEW e \in Events, HandleNew(e) PROVE ServiceInv'
<1> DEFINE r == [event |-> e, at |-> now, series |-> 0, receipts |-> 0, row |-> "none"]
           n == Len(alerts) + 1
<1>1. /\ now' = now /\ now \in Nat
      /\ ~KnownEvent(e)
      /\ seen' = [x \in DOMAIN seen \cup {e} |-> IF x = e THEN now ELSE seen[x]]
      /\ alerts' = Append(alerts, r)
  BY DEF HandleNew, ServiceInv
<1>2. handler' = [stage |-> "check", alert |-> n, attempts |-> 0, result |-> "none"]
  BY DEF HandleNew, Free
<1>3. r \in AlertRow /\ Counted(r)
  BY <1>1, LimitsAssumption DEF AlertRow, Counted
<1> HIDE DEF r
<1>4. /\ alerts' \in Seq(AlertRow)
      /\ n \in Nat
      /\ DOMAIN alerts' = DOMAIN alerts \cup {n}
      /\ alerts'[n] = r
      /\ \A a \in DOMAIN alerts : a \in Nat /\ a < n /\ alerts'[a] = alerts[a]
  BY <1>1, <1>3 DEF ServiceInv
<1>5. r.event = e /\ r.at = now /\ r.series = 0 /\ r.receipts = 0
  BY DEF r
<1>6. \A a \in DOMAIN alerts' : Counted(alerts'[a])
  BY <1>3, <1>4 DEF ServiceInv
<1>7. \A a \in DOMAIN alerts : alerts[a].at \in Nat /\ alerts[a].at <= now
  BY InThePast
<1>8. Remembered'
  <2>1. \A x \in DOMAIN seen' : seen'[x] \in Nat /\ seen'[x] <= now'
    BY <1>1 DEF ServiceInv, Remembered
  <2>2. \A a \in DOMAIN alerts' : /\ alerts'[a].event \in DOMAIN seen'
                                  /\ alerts'[a].at <= seen'[alerts'[a].event]
    BY <1>1, <1>4, <1>5, <1>7 DEF ServiceInv, Remembered
  <2> QED
    BY <2>1, <2>2 DEF Remembered
<1>9. \A a \in DOMAIN alerts : alerts[a].event = e => now - alerts[a].at > Window
  BY <1>1, <1>7, LimitsAssumption DEF ServiceInv, Remembered, KnownEvent
<1>10. Spaced'
  BY <1>4, <1>5, <1>9 DEF ServiceInv, Spaced
<1>11. handler' \in HandlerState
  BY <1>2, <1>4 DEF HandlerState
<1>12. handler'.alert \in DOMAIN alerts' /\ Serving(handler', alerts'[handler'.alert])
  BY <1>2, <1>4, <1>5 DEF Serving
<1> QED
  BY <1>1, <1>4, <1>6, <1>8, <1>10, <1>11, <1>12 DEF ServiceInv

(* The handler with its row, when it is not free.                          *)
LEMMA InHandRow ==
  ASSUME ServiceInv, handler.stage # "free"
  PROVE  /\ handler # Free
         /\ handler.alert \in DOMAIN alerts
         /\ alerts[handler.alert] \in AlertRow
         /\ Counted(alerts[handler.alert])
         /\ Serving(handler, alerts[handler.alert])
BY DEF ServiceInv, Free

LEMMA ServiceFree ==
  ASSUME ServiceInv, handler' = Free, UNCHANGED <<now, seen, alerts>>
  PROVE  ServiceInv'
<1>1. Free \in HandlerState
  BY DEF Free, HandlerState
<1> QED
  BY <1>1 DEF ServiceInv, Remembered, Spaced, Counted

(* A step of the handler that leaves it in hand and changes its row to r.  *)
LEMMA ServiceProceeds ==
  ASSUME ServiceInv, handler.stage # "free", NEW r \in AlertRow,
         r.event = alerts[handler.alert].event,
         r.at = alerts[handler.alert].at,
         Counted(r),
         alerts' = [alerts EXCEPT ![handler.alert] = r],
         UNCHANGED <<now, seen>>,
         handler' \in HandlerState,
         handler' = Free \/ (handler'.alert = handler.alert /\ Serving(handler', r))
  PROVE  ServiceInv'
<1>1. handler.alert \in DOMAIN alerts
  BY InHandRow
<1>2. /\ alerts' \in Seq(AlertRow)
      /\ DOMAIN alerts' = DOMAIN alerts
      /\ \A a \in DOMAIN alerts' : Counted(alerts'[a])
      /\ alerts'[handler.alert] = r
      /\ Remembered'
      /\ Spaced'
  BY <1>1, RowChanged
<1>3. handler' # Free => /\ handler'.alert \in DOMAIN alerts'
                         /\ Serving(handler', alerts'[handler'.alert])
  BY <1>1, <1>2
<1> QED
  BY <1>2, <1>3 DEF ServiceInv

LEMMA ServiceBegin == ASSUME ServiceInv, BeginSend PROVE ServiceInv'
<1> DEFINE old == alerts[handler.alert]
           r == [old EXCEPT !.series = 1]
<1>1. handler.stage = "check" /\ UNCHANGED <<now, seen>>
  BY DEF BeginSend
<1>2. /\ handler.alert \in DOMAIN alerts /\ old \in AlertRow /\ Counted(old)
      /\ handler.attempts = 0 /\ old.series = 0 /\ old.receipts = 0
  BY <1>1, InHandRow DEF Serving
<1>3. /\ r \in AlertRow /\ r.event = old.event /\ r.at = old.at
      /\ r.receipts = old.receipts /\ r.row = old.row
  BY <1>2 DEF AlertRow
<1>4. alerts' = [alerts EXCEPT ![handler.alert] = r]
  BY <1>2 DEF BeginSend
<1>5. /\ handler' \in HandlerState
      /\ handler'.stage = "send" /\ handler'.alert = handler.alert
      /\ handler'.attempts = handler.attempts
  BY DEF BeginSend, ServiceInv, HandlerState
<1> HIDE DEF r
<1>6. Counted(r) /\ Serving(handler', r)
  BY <1>2, <1>3, <1>5, LimitsAssumption DEF Counted, Serving
<1>7. handler.stage # "free"
  BY <1>1
<1> QED
  BY <1>1, <1>3, <1>4, <1>5, <1>6, <1>7, ServiceProceeds

(* One request of the series.                                              *)
LEMMA ServiceSends ==
  ASSUME ServiceInv, NEW received \in BOOLEAN,
         handler.stage = "send",
         Received(received),
         UNCHANGED <<now, seen>>,
         \/ Sent("failed")
         \/ received = TRUE /\ Sent("delivered")
         \/ handler.attempts + 1 < MaxRetries /\ handler' = [handler EXCEPT !.attempts = @ + 1]
  PROVE  ServiceInv'
<1> DEFINE old == alerts[handler.alert]
           count == IF received THEN old.receipts + 1 ELSE old.receipts
           r == [old EXCEPT !.receipts = count]
<1>1. /\ handler.alert \in DOMAIN alerts /\ old \in AlertRow /\ Counted(old)
      /\ handler.attempts \in Nat /\ handler.attempts < MaxRetries
      /\ old.receipts <= handler.attempts
  BY InHandRow DEF Serving, ServiceInv, HandlerState
<1>2. /\ old.receipts \in Nat /\ count \in Nat
      /\ old.receipts <= count /\ count <= handler.attempts + 1
      /\ received = TRUE => count > 0
  BY <1>1 DEF AlertRow
<1> HIDE DEF count
<1>3. /\ r \in AlertRow /\ r.event = old.event /\ r.at = old.at
      /\ r.receipts = count /\ r.row = old.row
  BY <1>1, <1>2 DEF AlertRow
<1>4. alerts' = [alerts EXCEPT ![handler.alert] = r]
  BY <1>1 DEF Received, count
<1> HIDE DEF r
<1>5. Counted(r)
  BY <1>1, <1>2, <1>3, LimitsAssumption DEF Counted
<1>6. /\ handler' \in HandlerState /\ handler'.alert = handler.alert
      /\ Serving(handler', r)
  <2>0. ASSUME NEW result \in {"delivered", "failed"}, Sent(result)
        PROVE  /\ handler' \in HandlerState /\ handler'.alert = handler.alert
               /\ handler'.stage = "record" /\ handler'.result = result
    <3> DEFINE h1 == [handler EXCEPT !.stage = "record"]
               h2 == [h1 EXCEPT !.attempts = handler.attempts + 1]
               h3 == [h2 EXCEPT !.result = result]
    <3>1. h1 \in HandlerState /\ h1.alert = handler.alert /\ h1.stage = "record"
      BY DEF ServiceInv, HandlerState
    <3> HIDE DEF h1
    <3>2. h2 \in HandlerState /\ h2.alert = handler.alert /\ h2.stage = "record"
      BY <1>1, <3>1 DEF HandlerState
    <3> HIDE DEF h2
    <3>3. /\ h3 \in HandlerState /\ h3.alert = handler.alert /\ h3.stage = "record"
          /\ h3.result = result
      BY <3>2 DEF HandlerState
    <3>4. handler' = h3
      BY <2>0 DEF Sent, ServiceInv, HandlerState, h1, h2
    <3> QED
      BY <3>3, <3>4
  <2>1. CASE Sent("failed")
    BY <2>0, <2>1 DEF Serving
  <2>2. CASE received = TRUE /\ Sent("delivered")
    BY <2>0, <2>2, <1>2, <1>3 DEF Serving
  <2>3. CASE handler.attempts + 1 < MaxRetries /\ handler' = [handler EXCEPT !.attempts = @ + 1]
    <3>1. /\ handler' \in HandlerState /\ handler'.alert = handler.alert
          /\ handler'.stage = "send" /\ handler'.attempts = handler.attempts + 1
      BY <2>3, <1>1 DEF ServiceInv, HandlerState
    <3> QED
      BY <2>3, <3>1, <1>2, <1>3 DEF Serving
  <2> QED
    BY <2>1, <2>2, <2>3
<1>7. handler.stage # "free"
  OBVIOUS
<1> QED
  BY <1>3, <1>4, <1>5, <1>6, <1>7, ServiceProceeds

LEMMA ServiceNotSent == ASSUME ServiceInv, NotSent PROVE ServiceInv'
<1>1. /\ handler.stage = "send" /\ UNCHANGED <<now, seen, alerts>>
      /\ handler' \in HandlerState /\ handler'.stage = "record"
      /\ handler'.alert = handler.alert /\ handler'.result = "failed"
  BY DEF NotSent, ServiceInv, HandlerState
<1>2. handler'.alert \in DOMAIN alerts /\ Serving(handler', alerts[handler'.alert])
  BY <1>1, InHandRow DEF Serving
<1> QED
  BY <1>1, <1>2 DEF ServiceInv, Remembered, Spaced, Counted

LEMMA ServiceRecords == ASSUME ServiceInv, RecordNotification PROVE ServiceInv'
<1> DEFINE old == alerts[handler.alert]
           r == [old EXCEPT !.row = handler.result]
<1>1. /\ handler.stage = "record" /\ handler' = Free
      /\ UNCHANGED <<now, seen>>
      /\ alerts' = [alerts EXCEPT ![handler.alert] = r] \/ alerts' = alerts
  BY DEF RecordNotification, Reply, Noted
<1>2. /\ handler.alert \in DOMAIN alerts /\ old \in AlertRow /\ Counted(old)
      /\ handler.result = "delivered" => old.receipts > 0
      /\ handler.result \in {"none", "delivered", "failed"}
  BY <1>1, InHandRow DEF Serving, ServiceInv, HandlerState
<1>3. /\ r \in AlertRow /\ r.event = old.event /\ r.at = old.at
      /\ r.receipts = old.receipts /\ r.row = handler.result
  BY <1>2 DEF AlertRow
<1> HIDE DEF r
<1>4. Counted(r)
  BY <1>2, <1>3 DEF Counted
<1>5. Free \in HandlerState /\ handler.stage # "free"
  BY <1>1 DEF Free, HandlerState
<1>6. CASE alerts' = alerts
  BY <1>1, <1>6, ServiceFree
<1>7. CASE alerts' = [alerts EXCEPT ![handler.alert] = r]
  BY <1>1, <1>3, <1>4, <1>5, <1>7, ServiceProceeds
<1> QED
  BY <1>1, <1>6, <1>7

LEMMA ServiceStep == ServiceInv /\ [Next]_vars => ServiceInv'
<1> SUFFICES ASSUME ServiceInv, [Next]_vars PROVE ServiceInv'
  OBVIOUS
<1>1. CASE \E e \in Events : Invoke(e)
  BY <1>1, ServiceKept DEF Invoke, serviceVars
<1>2. CASE ScriptSteps
  BY <1>2, ServiceKept DEF ScriptSteps, Filter, Post, PostFails, PostTimesOut, Discard,
     DiscardUnreadable, Retry, StopFlush, End, Enqueue, serviceVars
<1>3. CASE KillScript
  BY <1>3, ServiceKept DEF KillScript, serviceVars
<1>4. CASE ServiceSteps
  <2>1. ASSUME NEW e \in Events, HandleInvalid(e) \/ HandleStorageFailure(e) PROVE ServiceInv'
    BY <2>1, ServiceKept DEF HandleInvalid, HandleStorageFailure, Reply, serviceVars
  <2>2. ASSUME NEW e \in Events, HandleDuplicate(e) PROVE ServiceInv'
    BY <2>2, ServiceDuplicate
  <2>3. ASSUME NEW e \in Events, HandleNew(e) PROVE ServiceInv'
    BY <2>3, ServiceNew
  <2>4. CASE Unbuildable
    BY <2>4, ServiceFree DEF Unbuildable, Reply
  <2>5. CASE BeginSend
    BY <2>5, ServiceBegin
  <2>6. CASE NotSent
    BY <2>6, ServiceNotSent
  <2>7. CASE Acknowledge
    BY <2>7, ServiceSends DEF Acknowledge
  <2>8. ASSUME NEW received \in BOOLEAN, Refuse(received) PROVE ServiceInv'
    BY <2>8, ServiceSends DEF Refuse
  <2>9. ASSUME NEW received \in BOOLEAN, Unanswered(received) PROVE ServiceInv'
    <3>1. /\ handler.stage = "send" /\ Received(received) /\ UNCHANGED <<now, seen>>
          /\ \/ Sent("failed")
             \/ handler.attempts + 1 < MaxRetries /\ handler' = [handler EXCEPT !.attempts = @ + 1]
      BY <2>9 DEF Unanswered
    <3> QED
      BY <3>1, ServiceSends
  <2>10. CASE RecordNotification
    BY <2>10, ServiceRecords
  <2> QED
    BY <1>4, <2>1, <2>2, <2>3, <2>4, <2>5, <2>6, <2>7, <2>8, <2>9, <2>10 DEF ServiceSteps
<1>5. CASE KillService
  BY <1>5, ServiceFree DEF KillService
<1>6. CASE Tick
  BY <1>6, ServiceTick
<1>7. CASE UNCHANGED vars
  BY <1>7, ServiceKept DEF vars, serviceVars
<1> QED
  BY <1>1, <1>2, <1>3, <1>4, <1>5, <1>6, <1>7 DEF Next

LEMMA SpecService == Spec => []ServiceInv
BY ServiceInit, ServiceStep, PTL DEF Spec

(* However often a body is posted, an alert has at most one series of      *)
(* requests to n8n, and two alerts of one event are more than a window     *)
(* apart (ingest_alert, _notify_n8n).                                      *)
THEOREM OneSeriesPerWindow == Spec => []NotifiedOncePerWindow
<1>1. ServiceInv => NotifiedOncePerWindow
  <2> SUFFICES ASSUME ServiceInv PROVE NotifiedOncePerWindow
    OBVIOUS
  <2>1. \A a \in DOMAIN alerts : alerts[a] \in AlertRow
    BY DEF ServiceInv
  <2>2. \A a \in DOMAIN alerts : alerts[a].series <= 1
    BY <2>1 DEF AlertRow
  <2> QED
    BY <2>2 DEF ServiceInv, Spaced, NotifiedOncePerWindow
<1> QED
  BY <1>1, SpecService, PTL

(* A notification on record as delivered reached n8n, which got the alert  *)
(* at most max_retries times (N8NWebhookClient.send,                       *)
(* NotificationRepository.record).                                         *)
THEOREM RecordedWasReceived == Spec => []DeliveredMeansReceived
<1>1. ServiceInv => DeliveredMeansReceived
  BY DEF ServiceInv, Counted, DeliveredMeansReceived
<1> QED
  BY <1>1, SpecService, PTL

-----------------------------------------------------------------------------
(* The script's part: no alert is lost without a line in the log.          *)

Invocations == Events \cup {NoEvent}
Files == [event : Events, at : Nat]
Posts == [event : Events, awaited : BOOLEAN]
ScriptState == [pc : {"idle", "ready", "waiting", "answered"}, event : Invocations,
                queue : Seq(Events), attempt : Nat,
                reply : {NoEvent, "delivered", "rejected", "transient"}]

ScriptTyped ==
  /\ script \in ScriptState
  /\ script.pc # "idle" => script.event \in Events
  /\ todo \subseteq Events
  /\ spool \in Seq(Files)
  /\ inbox \in Seq(Posts)

(* The script waits for one request at most, that of the body in hand.     *)
AwaitedIsInHand ==
  /\ \A i \in DOMAIN inbox :
       inbox[i].awaited => script.pc = "waiting" /\ inbox[i].event = InHand
  /\ \A i, j \in DOMAIN inbox : inbox[i].awaited /\ inbox[j].awaited => i = j

(* An answer 2xx is given for an alert of record only: the handler serves  *)
(* the first request, and a duplicate is a duplicate of something.         *)
AnswersAreTrue ==
  /\ script.pc = "answered" /\ script.reply = "delivered" => InHand \in Accepted
  /\ handler # Free => inbox # <<>> /\ Head(inbox).event = alerts[handler.alert].event
  /\ DOMAIN seen \subseteq Accepted

DeliveryInv == ServiceInv /\ ScriptTyped /\ AwaitedIsInHand /\ AnswersAreTrue /\ NoSilentLoss

LEMMA DeliveryInit == Init => DeliveryInv
<1> SUFFICES ASSUME Init PROVE DeliveryInv
  OBVIOUS
<1>1. <<>> \in Seq(Files) /\ <<>> \in Seq(Posts) /\ <<>> \in Seq(Events)
  OBVIOUS
<1>2. Idle \in ScriptState /\ Idle.pc = "idle"
  BY <1>1 DEF Idle, ScriptState, Invocations, NoEvent
<1>3. ScriptTyped
  BY <1>1, <1>2 DEF Init, ScriptTyped
<1>4. AwaitedIsInHand /\ AnswersAreTrue /\ NoSilentLoss
  BY <1>2 DEF Init, AwaitedIsInHand, AnswersAreTrue, NoSilentLoss
<1> QED
  BY <1>3, <1>4, ServiceInit DEF DeliveryInv

(* Pruning leaves files; discarding one leaves all the others.             *)
LEMMA FreshFiles == ASSUME NEW s \in Seq(Files) PROVE Fresh(s) \in Seq(Files)
<1>1. IsFiniteSet(DOMAIN s)
  BY FS_Interval
<1>2. IsFiniteSet(Aged(s))
  BY <1>1, FS_Subset DEF Aged
<1>3. Cardinality(Aged(s)) \in Nat
  BY <1>2, FS_CardinalityType
<1> DEFINE n == Cardinality(Aged(s))
<1> HIDE DEF n
<1>4. n \in Nat
  BY <1>3 DEF n
<1>5. SubSeq(s, n + 1, Len(s)) \in Seq(Files)
  BY <1>4
<1> QED
  BY <1>5 DEF Fresh, n

LEMMA DiscardedOnly ==
  ASSUME NEW s \in Seq(Files), NEW e
  PROVE  /\ Without(s, e) \in Seq(Files)
         /\ \A i \in DOMAIN s : s[i].event # e =>
              \E j \in DOMAIN Without(s, e) : Without(s, e)[j] = s[i]
<1> DEFINE files == {i \in DOMAIN s : s[i].event = e}
           k == CHOOSE i \in files : TRUE
<1>1. CASE files = {}
  BY <1>1 DEF Without
<1>2. CASE files # {}
  <2>1. k \in DOMAIN s /\ s[k].event = e
    BY <1>2
  <2>2. Without(s, e) = SubSeq(s, 1, k - 1) \o SubSeq(s, k + 1, Len(s))
    BY <1>2 DEF Without, RemoveAt
  <2> HIDE DEF k
  <2>3. /\ Without(s, e) \in Seq(Files)
        /\ Len(Without(s, e)) = Len(s) - 1
        /\ \A j \in 1..(Len(s) - 1) : Without(s, e)[j] = IF j < k THEN s[j] ELSE s[j + 1]
    <3> DEFINE a == SubSeq(s, 1, k - 1)
               b == SubSeq(s, k + 1, Len(s))
    <3>1. k \in Nat /\ 1 <= k /\ k <= Len(s) /\ Len(s) \in Nat
      BY <2>1
    <3>2. /\ a \in Seq(Files) /\ Len(a) = k - 1
          /\ \A j \in 1..(k - 1) : a[j] = s[j]
      BY <3>1
    <3>3. /\ b \in Seq(Files) /\ Len(b) = Len(s) - k
          /\ \A j \in 1..(Len(s) - k) : b[j] = s[j + k]
      BY <3>1
    <3>4. Without(s, e) = a \o b
      BY <2>2
    <3> HIDE DEF a, b
    <3>5. a \o b \in Seq(Files) /\ Len(a \o b) = Len(s) - 1
      BY <3>1, <3>2, <3>3
    <3>6. ASSUME NEW j \in 1..(Len(s) - 1)
          PROVE  (a \o b)[j] = IF j < k THEN s[j] ELSE s[j + 1]
      <4>1. CASE j < k
        BY <3>1, <3>2, <3>3, <4>1
      <4>2. CASE j >= k
        <5>1. (a \o b)[j] = b[j - (k - 1)]
          BY <3>1, <3>2, <3>3, <4>2
        <5>2. j - (k - 1) \in 1..(Len(s) - k) /\ (j - (k - 1)) + k = j + 1
          BY <3>1, <4>2
        <5> QED
          BY <3>1, <3>3, <4>2, <5>1, <5>2
      <4>3. j < k \/ j >= k
        BY <3>1
      <4> QED
        BY <4>1, <4>2, <4>3
    <3> QED
      BY <3>4, <3>5, <3>6
  <2>4. ASSUME NEW i \in DOMAIN s, s[i].event # e
        PROVE  \E j \in DOMAIN Without(s, e) : Without(s, e)[j] = s[i]
    <3>1. i # k /\ i \in Nat /\ k \in Nat
      BY <2>1, <2>4
    <3>2. CASE i < k
      <4>1. i \in DOMAIN Without(s, e) /\ Without(s, e)[i] = s[i]
        BY <2>1, <2>3, <3>2
      <4> QED
        BY <4>1
    <3>3. CASE i > k
      <4>1. i - 1 \in DOMAIN Without(s, e) /\ Without(s, e)[i - 1] = s[i]
        BY <2>1, <2>3, <3>3
      <4> QED
        BY <4>1
    <3> QED
      BY <3>1, <3>2, <3>3
  <2> QED
    BY <2>3, <2>4
<1> QED
  BY <1>1, <1>2

(* A step that keeps the service's part keeps what was accepted.           *)
LEMMA StillAccepted ==
  ASSUME \A a \in DOMAIN alerts : a \in DOMAIN alerts' /\ alerts'[a].event = alerts[a].event
  PROVE  \A e \in Accepted : e \in Accepted'
BY DEF Accepted

ScriptInv == ScriptTyped /\ AwaitedIsInHand /\ AnswersAreTrue /\ NoSilentLoss

LEMMA InHandTyped == ASSUME ScriptTyped, script.pc # "idle" PROVE InHand \in Events
BY DEF ScriptTyped, ScriptState, InHand

LEMMA NobodyWaits ==
  ASSUME AwaitedIsInHand, script.pc # "waiting"
  PROVE  \A i \in DOMAIN inbox : ~inbox[i].awaited
BY DEF AwaitedIsInHand

(* A script that starts or stops: its part of the invariant.               *)
LEMMA IdleScript == Idle \in ScriptState /\ Idle.pc = "idle"
<1>1. <<>> \in Seq(Events)
  OBVIOUS
<1> QED
  BY <1>1 DEF Idle, ScriptState, Invocations, NoEvent

LEMMA LossInvoke == ASSUME DeliveryInv, NEW e \in Events, Invoke(e) PROVE ScriptInv'
<1>1. /\ script.pc = "idle"
      /\ spool' = Fresh(spool) /\ dropped' = dropped \cup Expired
      /\ todo' \subseteq todo
      /\ UNCHANGED <<ended, inbox, handler, seen, alerts>>
  BY DEF Invoke, serviceVars
<1>2. Fresh(spool) \in Seq(Files)
  BY FreshFiles DEF DeliveryInv, ScriptTyped
<1> DEFINE n == IF Len(Fresh(spool)) < FlushBatch THEN Len(Fresh(spool)) ELSE FlushBatch
           batch == SubSeq(Fresh(spool), 1, n)
           queue == [i \in DOMAIN batch |-> batch[i].event]
<1>3. queue \in Seq(Events)
  <2>1. n \in Nat /\ n <= Len(Fresh(spool))
    BY <1>2, LimitsAssumption
  <2> HIDE DEF n
  <2>2. batch \in Seq(Files)
    BY <1>2, <2>1
  <2> HIDE DEF batch
  <2>3. \A i \in DOMAIN batch : batch[i] \in Files
    BY <2>2
  <2>4. \A i \in DOMAIN batch : batch[i].event \in Events
    BY <2>3 DEF Files
  <2> QED
    BY <2>2, <2>4
<1>4. PICK q \in Seq(Events) :
        script' = [Idle EXCEPT !.pc = "ready", !.event = e, !.queue = q]
  BY <1>3 DEF Invoke
<1>5. script' = [pc |-> "ready", event |-> e, queue |-> q, attempt |-> 0, reply |-> NoEvent]
  BY <1>4 DEF Idle
<1>6. script' \in ScriptState /\ script'.pc = "ready" /\ script'.event = e
  BY <1>5 DEF ScriptState, Invocations, NoEvent
<1>7. ScriptTyped'
  BY <1>1, <1>2, <1>6 DEF DeliveryInv, ScriptTyped
<1>8. AwaitedIsInHand'
  BY <1>1, NobodyWaits DEF DeliveryInv, AwaitedIsInHand
<1>9. AnswersAreTrue'
  BY <1>1, <1>6 DEF DeliveryInv, AnswersAreTrue, Accepted
<1>10. NoSilentLoss'
  BY <1>1 DEF DeliveryInv, NoSilentLoss, Accepted, Spooled, Expired
<1> QED
  BY <1>7, <1>8, <1>9, <1>10 DEF ScriptInv

(* The invocation ends with its alert accounted for; the spool may have    *)
(* changed.                                                                *)
LEMMA LossEnds ==
  ASSUME DeliveryInv, script' = Idle,
         script.pc # "waiting",
         spool' \in Seq(Files),
         ended' = ended \cup {script.event},
         script.event \in Accepted \cup Spooled' \cup dropped',
         \A e \in Spooled \cup dropped : e \in Spooled' \cup dropped',
         UNCHANGED <<todo, inbox, handler, seen, alerts>>
  PROVE  ScriptInv'
<1>1. script' \in ScriptState /\ script'.pc = "idle"
  BY IdleScript
<1>2. ScriptTyped'
  BY <1>1 DEF DeliveryInv, ScriptTyped
<1>3. AwaitedIsInHand'
  BY NobodyWaits DEF DeliveryInv, AwaitedIsInHand
<1>4. Accepted' = Accepted
  BY DEF Accepted
<1>5. AnswersAreTrue'
  BY <1>1, <1>4 DEF DeliveryInv, AnswersAreTrue
<1>6. NoSilentLoss'
  BY <1>4 DEF DeliveryInv, NoSilentLoss
<1> QED
  BY <1>2, <1>3, <1>5, <1>6 DEF ScriptInv

LEMMA LossFilter == ASSUME DeliveryInv, Filter PROVE ScriptInv'
<1>1. /\ script.pc = "ready" /\ script' = Idle
      /\ ended' = ended \cup {script.event} /\ dropped' = dropped \cup {script.event}
      /\ UNCHANGED <<todo, spool, inbox, handler, seen, alerts>>
  BY DEF Filter, serviceVars
<1>2. Spooled' = Spooled /\ spool' \in Seq(Files)
  BY <1>1 DEF Spooled, DeliveryInv, ScriptTyped
<1>3. script.pc # "waiting"
  BY <1>1
<1> QED
  BY <1>1, <1>2, <1>3, LossEnds

LEMMA LossEnd == ASSUME DeliveryInv, End PROVE ScriptInv'
<1>1. /\ script.pc = "answered" /\ script' = Idle /\ script.queue = <<>>
      /\ script.reply = "delivered" \/ script.reply = "rejected"
      /\ ended' = ended \cup {script.event}
      /\ dropped' = IF script.reply = "rejected" THEN dropped \cup {script.event} ELSE dropped
      /\ UNCHANGED <<todo, spool, inbox, handler, seen, alerts>>
  BY DEF End, serviceVars, Flushing, Answered
<1>2. Spooled' = Spooled /\ spool' \in Seq(Files)
  BY <1>1 DEF Spooled, DeliveryInv, ScriptTyped
<1>3. script.pc # "waiting"
  BY <1>1
<1>4. script.reply = "delivered" => script.event \in Accepted
  BY <1>1 DEF DeliveryInv, AnswersAreTrue, InHand
<1> QED
  BY <1>1, <1>2, <1>3, <1>4, LossEnds

LEMMA LossEnqueue == ASSUME DeliveryInv, Enqueue PROVE ScriptInv'
<1>1. /\ script.pc = "answered" /\ script' = Idle
      /\ ended' = ended \cup {script.event}
      /\ spool' \in {Append(Room, [event |-> script.event, at |-> now]), Room, spool}
      /\ dropped' = dropped \cup ((Spooled \cup {script.event})
                                    \ {spool'[i].event : i \in DOMAIN spool'})
      /\ UNCHANGED <<todo, inbox, handler, seen, alerts>>
  BY DEF Enqueue, serviceVars, Answered
<1>2. Room \in Seq(Files)
  <2>1. Fresh(spool) \in Seq(Files)
    BY FreshFiles DEF DeliveryInv, ScriptTyped
  <2> DEFINE kept == Fresh(spool)
             first == 1 + (IF Len(kept) + 1 - MaxEntries > 0 THEN Len(kept) + 1 - MaxEntries ELSE 0)
  <2> HIDE DEF kept
  <2>2. kept \in Seq(Files)
    BY <2>1 DEF kept
  <2>3. first \in Nat \ {0}
    BY <2>2, LimitsAssumption
  <2> HIDE DEF first
  <2>4. SubSeq(kept, first, Len(kept)) \in Seq(Files)
    BY <2>2, <2>3
  <2> QED
    BY <2>4 DEF Room, kept, first
<1>3. [event |-> script.event, at |-> now] \in Files
  BY <1>1 DEF Files, DeliveryInv, ScriptTyped, ServiceInv
<1>4. spool' \in Seq(Files)
  <2>1. Append(Room, [event |-> script.event, at |-> now]) \in Seq(Files)
    BY <1>2, <1>3
  <2> QED
    BY <1>1, <1>2, <2>1 DEF DeliveryInv, ScriptTyped
<1>5. script.pc # "waiting"
  BY <1>1
<1>6. dropped' = dropped \cup ((Spooled \cup {script.event}) \ Spooled')
  BY <1>1 DEF Spooled
<1> QED
  BY <1>1, <1>4, <1>5, <1>6, LossEnds

(* The script turns to another request, and the files that go are those of *)
(* alerts that are accounted for.                                          *)
LEMMA LossMoves ==
  ASSUME DeliveryInv,
         script.pc \in {"ready", "answered"},
         script' \in ScriptState,
         script'.event = script.event,
         script'.pc = "ready" \/ script'.reply = "transient",
         spool' \in Seq(Files),
         \A e \in Spooled \cup dropped : e \in Accepted \cup Spooled' \cup dropped',
         UNCHANGED <<todo, ended, inbox, handler, seen, alerts>>
  PROVE  ScriptInv'
<1>1. ScriptTyped'
  BY DEF DeliveryInv, ScriptTyped
<1>2. AwaitedIsInHand'
  BY NobodyWaits DEF DeliveryInv, AwaitedIsInHand
<1>3. Accepted' = Accepted
  BY DEF Accepted
<1>4. AnswersAreTrue'
  BY <1>3 DEF DeliveryInv, AnswersAreTrue
<1>5. NoSilentLoss'
  BY <1>3 DEF DeliveryInv, NoSilentLoss
<1> QED
  BY <1>1, <1>2, <1>4, <1>5 DEF ScriptInv

LEMMA SpoolSame ==
  ASSUME ScriptTyped, UNCHANGED spool
  PROVE  Spooled' = Spooled /\ spool' \in Seq(Files)
BY DEF Spooled, ScriptTyped

LEMMA LossPostFails == ASSUME DeliveryInv, PostFails PROVE ScriptInv'
<1>1. /\ script.pc = "ready" /\ script.pc \in {"ready", "answered"}
      /\ UNCHANGED <<todo, spool, ended, dropped, inbox, handler, seen, alerts>>
  BY DEF PostFails, serviceVars
<1>2. /\ script' \in ScriptState /\ script'.event = script.event
      /\ script'.reply = "transient"
  BY DEF PostFails, DeliveryInv, ScriptTyped, ScriptState
<1> QED
  BY <1>1, <1>2, SpoolSame, LossMoves DEF DeliveryInv

LEMMA LossRetry == ASSUME DeliveryInv, Retry PROVE ScriptInv'
<1>1. /\ script.pc \in {"ready", "answered"}
      /\ UNCHANGED <<todo, spool, ended, dropped, inbox, handler, seen, alerts>>
  BY DEF Retry, serviceVars, Answered
<1>2. PICK n \in Nat : script' = [script EXCEPT !.pc = "ready", !.attempt = n, !.reply = NoEvent]
  <2>1. script.attempt + 1 \in Nat
    BY DEF DeliveryInv, ScriptTyped, ScriptState
  <2> QED
    BY <2>1 DEF Retry
<1>3. script' \in ScriptState /\ script'.event = script.event /\ script'.pc = "ready"
  BY <1>2 DEF DeliveryInv, ScriptTyped, ScriptState, NoEvent
<1> QED
  BY <1>1, <1>3, SpoolSame, LossMoves DEF DeliveryInv

LEMMA LossStopFlush == ASSUME DeliveryInv, StopFlush PROVE ScriptInv'
<1>1. /\ script.pc \in {"ready", "answered"}
      /\ UNCHANGED <<todo, spool, ended, dropped, inbox, handler, seen, alerts>>
  BY DEF StopFlush, serviceVars, Answered
<1>2. PICK q \in Seq(Events) :
        script' = [script EXCEPT !.pc = "ready", !.queue = q, !.attempt = 0, !.reply = NoEvent]
  <2>1. <<>> \in Seq(Events)
    OBVIOUS
  <2> QED
    BY <2>1 DEF StopFlush
<1>3. script' \in ScriptState /\ script'.event = script.event /\ script'.pc = "ready"
  BY <1>2 DEF DeliveryInv, ScriptTyped, ScriptState, NoEvent
<1> QED
  BY <1>1, <1>3, SpoolSame, LossMoves DEF DeliveryInv

LEMMA NextEntryTyped ==
  ASSUME DeliveryInv, Flushing
  PROVE  /\ NextEntry \in ScriptState
         /\ NextEntry.event = script.event
         /\ NextEntry.pc = "ready"
<1>1. script.queue \in Seq(Events) /\ script.queue # <<>>
  BY DEF DeliveryInv, ScriptTyped, ScriptState, Flushing
<1>2. Tail(script.queue) \in Seq(Events)
  BY <1>1
<1>3. PICK q \in Seq(Events) : q = Tail(script.queue)
  BY <1>2
<1>4. NextEntry = [script EXCEPT !.pc = "ready", !.queue = q, !.attempt = 0, !.reply = NoEvent]
  BY <1>3 DEF NextEntry
<1> QED
  BY <1>4 DEF DeliveryInv, ScriptTyped, ScriptState, NoEvent

LEMMA OthersStay ==
  ASSUME DeliveryInv, spool' \in {Without(spool, InHand), spool}
  PROVE  /\ spool' \in Seq(Files)
         /\ \A e \in Spooled : e # InHand => e \in Spooled'
<1> DEFINE e == InHand
<1> HIDE DEF e
<1>1. spool \in Seq(Files) /\ spool' \in {Without(spool, e), spool}
  BY DEF e, DeliveryInv, ScriptTyped
<1>2. spool' \in Seq(Files)
  BY <1>1, DiscardedOnly
<1>3. \A i \in DOMAIN spool : spool[i].event # e => \E j \in DOMAIN spool' : spool'[j] = spool[i]
  BY <1>1, DiscardedOnly
<1>4. \A x \in Spooled : x # e => x \in Spooled'
  BY <1>3 DEF Spooled
<1> QED
  BY <1>2, <1>4 DEF e

LEMMA LossDiscard == ASSUME DeliveryInv, Discard PROVE ScriptInv'
<1>1. /\ Flushing /\ script.pc \in {"ready", "answered"}
      /\ script.pc = "answered"
      /\ script.reply = "delivered" \/ script.reply = "rejected"
      /\ spool' \in {Without(spool, InHand), spool}
      /\ dropped' = IF script.reply = "rejected" THEN dropped \cup {InHand} ELSE dropped
      /\ script' = NextEntry
      /\ UNCHANGED <<todo, ended, inbox, handler, seen, alerts>>
  BY DEF Discard, serviceVars, Answered
<1>2. InHand \in Accepted \cup dropped'
  BY <1>1 DEF DeliveryInv, AnswersAreTrue
<1>3. \A e \in Spooled \cup dropped : e \in Accepted \cup Spooled' \cup dropped'
  BY <1>1, <1>2, OthersStay
<1> QED
  BY <1>1, <1>3, OthersStay, NextEntryTyped, LossMoves

LEMMA LossUnreadable == ASSUME DeliveryInv, DiscardUnreadable PROVE ScriptInv'
<1>1. /\ Flushing /\ script.pc \in {"ready", "answered"}
      /\ spool' \in {Without(spool, InHand), spool}
      /\ dropped' = dropped \cup {InHand}
      /\ script' = NextEntry
      /\ UNCHANGED <<todo, ended, inbox, handler, seen, alerts>>
  BY DEF DiscardUnreadable, serviceVars
<1>2. \A e \in Spooled \cup dropped : e \in Accepted \cup Spooled' \cup dropped'
  BY <1>1, OthersStay
<1> QED
  BY <1>1, <1>2, OthersStay, NextEntryTyped, LossMoves

LEMMA LossPost == ASSUME DeliveryInv, Post PROVE ScriptInv'
<1>1. /\ script.pc = "ready"
      /\ UNCHANGED <<todo, spool, ended, dropped, handler, seen, alerts>>
  BY DEF Post, serviceVars
<1>2. /\ script' \in ScriptState /\ script'.event = script.event
      /\ script'.pc = "waiting" /\ script'.queue = script.queue
  BY DEF Post, DeliveryInv, ScriptTyped, ScriptState
<1>3. PICK r \in Posts : /\ r = [event |-> InHand, awaited |-> TRUE]
                         /\ inbox' = Append(inbox, r)
  BY <1>1, InHandTyped DEF Post, Posts, DeliveryInv
<1>4. inbox \in Seq(Posts) /\ script.event \in Events
  BY <1>1 DEF DeliveryInv, ScriptTyped
<1>5. /\ inbox' \in Seq(Posts)
      /\ DOMAIN inbox' = DOMAIN inbox \cup {Len(inbox) + 1}
      /\ \A i \in DOMAIN inbox : inbox'[i] = inbox[i]
      /\ inbox'[Len(inbox) + 1] = r
      /\ inbox # <<>> => inbox' # <<>> /\ Head(inbox') = Head(inbox)
  BY <1>3, <1>4
<1>6. InHand' = InHand
  BY <1>2 DEF InHand
<1>7. ScriptTyped'
  BY <1>1, <1>2, <1>4, <1>5 DEF DeliveryInv, ScriptTyped
<1>8. \A i \in DOMAIN inbox' : inbox'[i].awaited => i = Len(inbox) + 1 /\ inbox'[i] = r
  BY <1>1, <1>5, NobodyWaits DEF DeliveryInv
<1>9. AwaitedIsInHand'
  BY <1>2, <1>3, <1>6, <1>8 DEF AwaitedIsInHand
<1>10. AnswersAreTrue'
  BY <1>1, <1>2, <1>5 DEF DeliveryInv, AnswersAreTrue, Accepted
<1>11. NoSilentLoss'
  BY <1>1 DEF DeliveryInv, NoSilentLoss, Accepted, Spooled
<1> QED
  BY <1>7, <1>9, <1>10, <1>11 DEF ScriptInv

(* The script stops waiting, its request stays.                            *)
LEMMA LossAbandons ==
  ASSUME DeliveryInv,
         script' \in ScriptState,
         script'.pc = "idle" \/ script'.event \in Events,
         script'.pc = "answered" => script'.reply = "transient",
         inbox' = [i \in DOMAIN inbox |-> [inbox[i] EXCEPT !.awaited = FALSE]],
         UNCHANGED <<todo, spool, ended, dropped, handler, seen, alerts>>
  PROVE  ScriptInv'
<1>1. inbox \in Seq(Posts) /\ \A i \in DOMAIN inbox : inbox[i] \in Posts
  BY DEF DeliveryInv, ScriptTyped
<1>2. \A i \in DOMAIN inbox : /\ inbox'[i] \in Posts
                              /\ inbox'[i].event = inbox[i].event
                              /\ ~inbox'[i].awaited
  BY <1>1 DEF Posts
<1>3. inbox' \in Seq(Posts) /\ DOMAIN inbox' = DOMAIN inbox /\ Len(inbox') = Len(inbox)
  BY <1>1, <1>2
<1>4. inbox # <<>> => inbox' # <<>> /\ Head(inbox').event = Head(inbox).event
  BY <1>1, <1>2, <1>3
<1>5. ScriptTyped'
  BY <1>3 DEF DeliveryInv, ScriptTyped
<1>6. AwaitedIsInHand'
  BY <1>2, <1>3 DEF AwaitedIsInHand
<1>7. AnswersAreTrue'
  BY <1>4 DEF DeliveryInv, AnswersAreTrue, Accepted
<1>8. NoSilentLoss'
  BY DEF DeliveryInv, NoSilentLoss, Accepted, Spooled
<1> QED
  BY <1>5, <1>6, <1>7, <1>8 DEF ScriptInv

LEMMA LossTimesOut == ASSUME DeliveryInv, PostTimesOut PROVE ScriptInv'
<1>1. /\ script' \in ScriptState /\ script'.event = script.event
      /\ script'.reply = "transient"
  BY DEF PostTimesOut, DeliveryInv, ScriptTyped, ScriptState
<1>2. script.event \in Events
  BY DEF PostTimesOut, DeliveryInv, ScriptTyped
<1> QED
  BY <1>1, <1>2, LossAbandons DEF PostTimesOut, serviceVars

LEMMA LossKillScript == ASSUME DeliveryInv, KillScript PROVE ScriptInv'
<1>1. script' \in ScriptState /\ script'.pc = "idle"
  BY IdleScript DEF KillScript
<1> QED
  BY <1>1, LossAbandons DEF KillScript, serviceVars

(* The first request is answered.                                          *)
LEMMA LossReply ==
  ASSUME DeliveryInv, inbox # <<>>,
         NEW answer \in {"delivered", "rejected", "transient"},
         Reply(answer),
         answer = "delivered" => Head(inbox).event \in Accepted',
         handler' = Free,
         DOMAIN seen' \subseteq Accepted',
         \A e \in Accepted : e \in Accepted'
  PROVE  ScriptInv'
<1>1. /\ UNCHANGED <<todo, spool, ended, dropped>>
      /\ inbox' = Tail(inbox)
      /\ script' = IF Head(inbox).awaited
                     THEN [script EXCEPT !.pc = "answered", !.reply = answer]
                     ELSE script
  BY DEF Reply
<1>2. inbox \in Seq(Posts) /\ script \in ScriptState
  BY DEF DeliveryInv, ScriptTyped
<1>3. /\ inbox' \in Seq(Posts)
      /\ 1 \in DOMAIN inbox /\ Head(inbox) = inbox[1]
      /\ \A i \in DOMAIN inbox' : /\ i \in Nat \ {0} /\ i + 1 \in DOMAIN inbox
                                  /\ inbox'[i] = inbox[i + 1]
  BY <1>1, <1>2
<1>4. CASE Head(inbox).awaited
  <2>1. script.pc = "waiting" /\ Head(inbox).event = InHand
    BY <1>3, <1>4 DEF DeliveryInv, AwaitedIsInHand
  <2>2. /\ script' \in ScriptState /\ script'.event = script.event
        /\ script'.queue = script.queue
        /\ script'.pc = "answered" /\ script'.reply = answer
    BY <1>1, <1>2, <1>4 DEF ScriptState
  <2>3. InHand' = InHand
    BY <2>2 DEF InHand
  <2>4. \A i \in DOMAIN inbox' : ~inbox'[i].awaited
    <3> SUFFICES ASSUME NEW i \in DOMAIN inbox', inbox'[i].awaited PROVE FALSE
      OBVIOUS
    <3>1. i + 1 = 1
      BY <1>3, <1>4 DEF DeliveryInv, AwaitedIsInHand
    <3> QED
      BY <1>3, <3>1
  <2>5. ScriptTyped'
    BY <1>1, <1>3, <2>1, <2>2 DEF DeliveryInv, ScriptTyped
  <2>6. AwaitedIsInHand'
    BY <2>4 DEF AwaitedIsInHand
  <2>7. AnswersAreTrue'
    BY <2>1, <2>2, <2>3 DEF AnswersAreTrue
  <2>8. NoSilentLoss'
    BY <1>1 DEF DeliveryInv, NoSilentLoss, Spooled
  <2> QED
    BY <2>5, <2>6, <2>7, <2>8 DEF ScriptInv
<1>5. CASE ~Head(inbox).awaited
  <2>1. script' = script /\ InHand' = InHand
    BY <1>1, <1>5 DEF InHand
  <2>2. ScriptTyped'
    BY <1>1, <1>3, <2>1 DEF DeliveryInv, ScriptTyped
  <2>3. AwaitedIsInHand'
    <3>1. \A i \in DOMAIN inbox' :
            inbox'[i].awaited => script'.pc = "waiting" /\ inbox'[i].event = InHand'
      BY <1>3, <2>1 DEF DeliveryInv, AwaitedIsInHand
    <3>2. ASSUME NEW i \in DOMAIN inbox', NEW j \in DOMAIN inbox',
                 inbox'[i].awaited, inbox'[j].awaited
          PROVE  i = j
      <4>1. i + 1 = j + 1
        BY <1>3, <3>2 DEF DeliveryInv, AwaitedIsInHand
      <4> QED
        BY <1>3, <4>1
    <3> QED
      BY <3>1, <3>2 DEF AwaitedIsInHand
  <2>4. AnswersAreTrue'
    BY <2>1 DEF DeliveryInv, AnswersAreTrue
  <2>5. NoSilentLoss'
    BY <1>1 DEF DeliveryInv, NoSilentLoss, Spooled
  <2> QED
    BY <2>2, <2>3, <2>4, <2>5 DEF ScriptInv
<1> QED
  BY <1>4, <1>5

LEMMA LossInvalid ==
  ASSUME DeliveryInv, NEW e \in Events, HandleInvalid(e) \/ HandleStorageFailure(e)
  PROVE  ScriptInv'
<1>1. /\ inbox # <<>> /\ handler' = Free /\ UNCHANGED <<seen, alerts>>
      /\ Reply("rejected") \/ Reply("transient")
  BY DEF HandleInvalid, HandleStorageFailure, Receives, serviceVars
<1>2. Accepted' = Accepted
  BY <1>1 DEF Accepted
<1>3. DOMAIN seen' \subseteq Accepted'
  BY <1>1, <1>2 DEF DeliveryInv, AnswersAreTrue
<1>4. CASE Reply("rejected")
  BY <1>1, <1>2, <1>3, <1>4, LossReply
<1>5. CASE Reply("transient")
  BY <1>1, <1>2, <1>3, <1>5, LossReply
<1> QED
  BY <1>1, <1>4, <1>5

LEMMA LossDuplicate == ASSUME DeliveryInv, NEW e \in Events, HandleDuplicate(e) PROVE ScriptInv'
<1>1. /\ inbox # <<>> /\ handler' = Free /\ alerts' = alerts
      /\ Reply("delivered")
      /\ e = Head(inbox).event /\ e \in DOMAIN seen
      /\ DOMAIN seen' = DOMAIN seen
  BY DEF HandleDuplicate, Receives, KnownEvent
<1>2. Accepted' = Accepted
  BY <1>1 DEF Accepted
<1>3. DOMAIN seen' \subseteq Accepted' /\ Head(inbox).event \in Accepted'
  BY <1>1, <1>2 DEF DeliveryInv, AnswersAreTrue
<1> QED
  BY <1>1, <1>2, <1>3, LossReply

(* The handler in hand serves an alert of record.                          *)
LEMMA ServedIsAccepted ==
  ASSUME DeliveryInv, handler.stage # "free"
  PROVE  /\ handler # Free /\ inbox # <<>>
         /\ handler.alert \in DOMAIN alerts
         /\ Head(inbox).event = alerts[handler.alert].event
         /\ Head(inbox).event \in Accepted
BY InHandRow DEF DeliveryInv, AnswersAreTrue, Accepted

LEMMA LossUnbuildable == ASSUME DeliveryInv, Unbuildable PROVE ScriptInv'
<1>1. /\ handler.stage # "free" /\ handler' = Free
      /\ UNCHANGED <<seen, alerts>> /\ Reply("delivered")
  BY DEF Unbuildable
<1>2. Accepted' = Accepted
  BY <1>1 DEF Accepted
<1>3. DOMAIN seen' \subseteq Accepted'
  BY <1>1, <1>2 DEF DeliveryInv, AnswersAreTrue
<1> QED
  BY <1>1, <1>2, <1>3, ServedIsAccepted, LossReply

LEMMA LossRecords == ASSUME DeliveryInv, RecordNotification PROVE ScriptInv'
<1>1. /\ handler.stage # "free" /\ handler' = Free
      /\ seen' = seen /\ Reply("delivered")
      /\ alerts' = [alerts EXCEPT ![handler.alert].row = handler.result] \/ alerts' = alerts
  BY DEF RecordNotification, Noted
<1>2. \A a \in DOMAIN alerts : alerts[a] \in AlertRow
  BY DEF DeliveryInv, ServiceInv
<1>3. /\ DOMAIN alerts' = DOMAIN alerts
      /\ \A a \in DOMAIN alerts : alerts'[a].event = alerts[a].event
  BY <1>1, <1>2 DEF AlertRow
<1>4. Accepted' = Accepted
  BY <1>3 DEF Accepted
<1>5. DOMAIN seen' \subseteq Accepted'
  BY <1>1, <1>4 DEF DeliveryInv, AnswersAreTrue
<1> QED
  BY <1>1, <1>4, <1>5, ServedIsAccepted, LossReply

(* A step of the service that answers nothing.                             *)
LEMMA LossServes ==
  ASSUME DeliveryInv,
         UNCHANGED <<script, todo, spool, ended, dropped, inbox>>,
         \A e \in Accepted : e \in Accepted',
         DOMAIN seen' \subseteq Accepted',
         handler' # Free => inbox # <<>> /\ Head(inbox).event = alerts'[handler'.alert].event
  PROVE  ScriptInv'
<1>1. ScriptTyped'
  BY DEF DeliveryInv, ScriptTyped
<1>2. AwaitedIsInHand'
  BY DEF DeliveryInv, AwaitedIsInHand, InHand
<1>3. AnswersAreTrue'
  BY DEF DeliveryInv, AnswersAreTrue, InHand
<1>4. NoSilentLoss'
  BY DEF DeliveryInv, NoSilentLoss, Spooled
<1> QED
  BY <1>1, <1>2, <1>3, <1>4 DEF ScriptInv

LEMMA LossNew == ASSUME DeliveryInv, NEW e \in Events, HandleNew(e) PROVE ScriptInv'
<1>1. PICK r : /\ r = [event |-> e, at |-> now, series |-> 0, receipts |-> 0, row |-> "none"]
               /\ alerts' = Append(alerts, r)
  BY DEF HandleNew
<1>2. alerts \in Seq(AlertRow)
  BY DEF DeliveryInv, ServiceInv
<1>3. /\ DOMAIN alerts' = DOMAIN alerts \cup {Len(alerts) + 1}
      /\ alerts'[Len(alerts) + 1] = r
      /\ \A a \in DOMAIN alerts : alerts'[a] = alerts[a]
  BY <1>1, <1>2
<1>4. Accepted' = Accepted \cup {e}
  BY <1>1, <1>3 DEF Accepted
<1>5. /\ inbox # <<>> /\ e = Head(inbox).event
      /\ DOMAIN seen' = DOMAIN seen \cup {e}
      /\ handler'.alert = Len(alerts) + 1
      /\ UNCHANGED <<script, todo, spool, ended, dropped, inbox>>
  BY DEF HandleNew, Receives, Free, scriptVars
<1>6. DOMAIN seen' \subseteq Accepted'
  BY <1>4, <1>5 DEF DeliveryInv, AnswersAreTrue
<1> QED
  BY <1>1, <1>3, <1>4, <1>5, <1>6, LossServes

(* The notification of the alert in hand goes on.                          *)
LEMMA LossNotifies ==
  ASSUME DeliveryInv,
         \/ BeginSend \/ NotSent \/ Acknowledge
         \/ \E received \in BOOLEAN : Refuse(received) \/ Unanswered(received)
  PROVE  ScriptInv'
<1>1. /\ handler.stage # "free"
      /\ UNCHANGED <<script, todo, spool, ended, dropped, inbox, seen>>
  BY DEF BeginSend, NotSent, Acknowledge, Refuse, Unanswered, scriptVars
<1>2. handler'.alert = handler.alert
  BY DEF BeginSend, NotSent, Acknowledge, Refuse, Unanswered, Sent, DeliveryInv, ServiceInv,
     HandlerState
<1>3. \A a \in DOMAIN alerts : alerts[a] \in AlertRow
  BY DEF DeliveryInv, ServiceInv
<1>4. /\ DOMAIN alerts' = DOMAIN alerts
      /\ \A a \in DOMAIN alerts : alerts'[a].event = alerts[a].event
  <2>1. ASSUME NEW received \in BOOLEAN, Received(received)
        PROVE  /\ DOMAIN alerts' = DOMAIN alerts
               /\ \A a \in DOMAIN alerts : alerts'[a].event = alerts[a].event
    BY <2>1, <1>3 DEF Received, AlertRow
  <2>2. CASE BeginSend
    BY <2>2, <1>3 DEF BeginSend, AlertRow
  <2>3. CASE NotSent
    BY <2>3 DEF NotSent
  <2>4. CASE Acknowledge
    BY <2>4, <2>1 DEF Acknowledge
  <2>5. CASE \E received \in BOOLEAN : Refuse(received) \/ Unanswered(received)
    BY <2>5, <2>1 DEF Refuse, Unanswered
  <2> QED
    BY <2>2, <2>3, <2>4, <2>5
<1>5. Accepted' = Accepted
  BY <1>4 DEF Accepted
<1>6. DOMAIN seen' \subseteq Accepted'
  BY <1>1, <1>5 DEF DeliveryInv, AnswersAreTrue
<1> QED
  BY <1>1, <1>2, <1>4, <1>5, <1>6, ServedIsAccepted, LossServes

LEMMA LossKillService == ASSUME DeliveryInv, KillService PROVE ScriptInv'
<1>1. /\ handler' = Free /\ inbox' = <<>>
      /\ UNCHANGED <<todo, spool, ended, dropped, seen, alerts>>
  BY DEF KillService
<1>2. /\ script' \in ScriptState /\ script'.event = script.event
      /\ script'.pc = "idle" <=> script.pc = "idle"
      /\ script' = script \/ script'.reply = "transient"
  BY DEF KillService, DeliveryInv, ScriptTyped, ScriptState
<1>3. inbox' \in Seq(Posts) /\ DOMAIN inbox' = {}
  BY <1>1
<1>4. ScriptTyped'
  BY <1>1, <1>2, <1>3 DEF DeliveryInv, ScriptTyped
<1>5. AwaitedIsInHand'
  BY <1>3 DEF AwaitedIsInHand
<1>6. Accepted' = Accepted /\ (script' = script => InHand' = InHand)
  BY <1>1 DEF Accepted, InHand
<1>7. AnswersAreTrue'
  BY <1>1, <1>2, <1>6 DEF DeliveryInv, AnswersAreTrue
<1>8. NoSilentLoss'
  BY <1>1, <1>6 DEF DeliveryInv, NoSilentLoss, Spooled
<1> QED
  BY <1>4, <1>5, <1>7, <1>8 DEF ScriptInv

LEMMA LossUnchanged ==
  ASSUME DeliveryInv,
         UNCHANGED <<script, todo, spool, ended, dropped, inbox, handler, seen, alerts>>
  PROVE  ScriptInv'
BY DEF DeliveryInv, ScriptInv, ScriptTyped, AwaitedIsInHand, AnswersAreTrue, NoSilentLoss,
   InHand, Accepted, Spooled

LEMMA DeliveryStep == DeliveryInv /\ [Next]_vars => DeliveryInv'
<1> SUFFICES ASSUME DeliveryInv, [Next]_vars PROVE DeliveryInv'
  OBVIOUS
<1>1. ServiceInv'
  BY ServiceStep DEF DeliveryInv
<1> SUFFICES ScriptInv'
  BY <1>1 DEF DeliveryInv, ScriptInv
<1>2. CASE \E e \in Events : Invoke(e)
  BY <1>2, LossInvoke
<1>3. CASE ScriptSteps
  BY <1>3, LossFilter, LossPost, LossPostFails, LossTimesOut, LossDiscard, LossUnreadable,
     LossRetry, LossStopFlush, LossEnd, LossEnqueue DEF ScriptSteps
<1>4. CASE KillScript
  BY <1>4, LossKillScript
<1>5. CASE ServiceSteps
  BY <1>5, LossInvalid, LossDuplicate, LossNew, LossUnbuildable, LossNotifies, LossRecords
     DEF ServiceSteps
<1>6. CASE KillService
  BY <1>6, LossKillService
<1>7. CASE Tick
  BY <1>7, LossUnchanged DEF Tick, scriptVars, serviceVars
<1>8. CASE UNCHANGED vars
  BY <1>8, LossUnchanged DEF vars, scriptVars, serviceVars
<1> QED
  BY <1>2, <1>3, <1>4, <1>5, <1>6, <1>7, <1>8 DEF Next

(* An alert whose invocation ran to its end is recorded, waits in the      *)
(* spool or was given up with a line in the log, whatever is killed and    *)
(* whenever (flush_spool, run).                                            *)
THEOREM AlertsAreAccountedFor == Spec => []NoSilentLoss
<1>1. DeliveryInv => NoSilentLoss
  BY DEF DeliveryInv
<1>2. Spec => []DeliveryInv
  BY DeliveryInit, DeliveryStep, PTL DEF Spec
<1> QED
  BY <1>1, <1>2, PTL
=============================================================================
