------------------------------ MODULE Delivery ------------------------------
(***************************************************************************)
(* The way of an alert from the Wazuh manager to n8n: the integration      *)
(* script (one process per alert, run one after the other by the manager), *)
(* its spool on disk, the ingest endpoint and the notification it sends.   *)
(*                                                                         *)
(* The script first drains the spool, oldest first, then posts its own     *)
(* alert; a post is retried while it fails transiently and then spooled.   *)
(* A post that times out stays with the service, whose handler serves one  *)
(* request at a time and keeps the caller waiting while it notifies.       *)
(* Either side may be killed at any step.  How the service recognises a    *)
(* re-delivery is module DedupeContract, of which this module keeps the    *)
(* time of an event's last delivery.                                       *)
(***************************************************************************)
EXTENDS Integers, Sequences, FiniteSets, SequencesExt, Functions

CONSTANTS
  Events,        \* the alerts the manager invokes the script for
  Filtered,      \* those should_forward refuses, or that cannot be read
  Invalid,       \* those the endpoint refuses for good (401, 413, 422)
  MaxAttempts,   \* attempts of one delivery by the script
  FlushBatch,    \* spool entries tried by one invocation
  MaxEntries,    \* capacity of the spool
  MaxAge,        \* lifetime of a spool entry, in ticks
  Window,        \* the deduplication window, in ticks
  MaxRetries,    \* attempts of one notification by the n8n client
  MaxBacklog,    \* bound of the model: requests in the service at once
  MaxTime        \* bound of the model: the clock stops at MaxTime

ASSUME LimitsAssumption == /\ MaxAttempts \in Nat \ {0}
                           /\ FlushBatch \in Nat \ {0}
                           /\ MaxEntries \in Nat \ {0}
                           /\ MaxAge \in Nat \ {0}
                           /\ Window \in Nat \ {0}
                           /\ MaxRetries \in Nat \ {0}
                           /\ MaxBacklog \in Nat \ {0}
                           /\ MaxTime \in Nat

VARIABLES
  now,
  script,      \* the running invocation
  todo,        \* alerts the manager has not yet invoked the script for
  spool,       \* spool files, oldest first
  ended,       \* alerts whose invocation ran to its end (history)
  dropped,     \* alerts given up with a line in the log (history)
  inbox,       \* posts that reached the service, the one in hand first
  handler,     \* the handler of the first of them
  seen,        \* event -> its last delivery, as far as deduplication knows
  alerts       \* alerts of record with their notification, in order of creation

scriptVars == <<script, todo, spool, ended, dropped>>
serviceVars == <<handler, seen, alerts>>
vars == <<now, scriptVars, inbox, serviceVars>>

NoEvent == "none"
Idle == [pc |-> "idle", event |-> NoEvent, queue |-> <<>>, attempt |-> 0, reply |-> NoEvent]
Free == [stage |-> "free", alert |-> 0, attempts |-> 0, result |-> "none"]

Spooled == {spool[i].event : i \in DOMAIN spool}
Accepted == {alerts[a].event : a \in DOMAIN alerts}

-----------------------------------------------------------------------------
(* The integration script *)

\* Entries that are not older than max_age_seconds, and the others: a spool
\* is in the order its entries were written, so the aged ones come first.
Aged(entries) == {i \in DOMAIN entries : entries[i].at < now - MaxAge}
Fresh(entries) == SubSeq(entries, Cardinality(Aged(entries)) + 1, Len(entries))
Expired == Spooled \ {Fresh(spool)[i].event : i \in DOMAIN Fresh(spool)}

\* What the script does next: the oldest entry of its batch, then its alert.
InHand == IF script.queue /= <<>> THEN Head(script.queue) ELSE script.event
Flushing == script.queue /= <<>>

\* The script is started: it prunes the spool and lists the batch to drain.
Invoke(e) ==
  LET kept == Fresh(spool)
      batch == SubSeq(kept, 1, IF Len(kept) < FlushBatch THEN Len(kept) ELSE FlushBatch)
  IN
  /\ script.pc = "idle"
  /\ e \in todo
  /\ todo' = todo \ {e}
  /\ spool' = kept
  /\ dropped' = dropped \cup Expired
  /\ script' = [Idle EXCEPT !.pc = "ready", !.event = e,
                            !.queue = [i \in DOMAIN batch |-> batch[i].event]]
  /\ UNCHANGED <<now, ended, inbox, serviceVars>>

\* Its own alert cannot be read or should_forward refuses it: logged, nothing
\* sent.
Filter ==
  /\ script.pc = "ready" /\ ~Flushing
  /\ script.event \in Filtered
  /\ script' = Idle
  /\ ended' = ended \cup {script.event}
  /\ dropped' = dropped \cup {script.event}
  /\ UNCHANGED <<now, todo, spool, inbox, serviceVars>>

Post ==
  /\ script.pc = "ready"
  /\ InHand \notin Filtered
  /\ Len(inbox) < MaxBacklog
  /\ inbox' = Append(inbox, [event |-> InHand, awaited |-> TRUE])
  /\ script' = [script EXCEPT !.pc = "waiting"]
  /\ UNCHANGED <<now, todo, spool, ended, dropped, serviceVars>>

\* The service cannot be reached.
PostFails ==
  /\ script.pc = "ready"
  /\ InHand \notin Filtered
  /\ script' = [script EXCEPT !.pc = "answered", !.reply = "transient"]
  /\ UNCHANGED <<now, todo, spool, ended, dropped, inbox, serviceVars>>

\* The script stops waiting; the service still has the request.
PostTimesOut ==
  /\ script.pc = "waiting"
  /\ script' = [script EXCEPT !.pc = "answered", !.reply = "transient"]
  /\ inbox' = [i \in DOMAIN inbox |-> [inbox[i] EXCEPT !.awaited = FALSE]]
  /\ UNCHANGED <<now, todo, spool, ended, dropped, serviceVars>>

\* The files without that of e, which may be gone already.
Without(entries, e) ==
  LET files == {i \in DOMAIN entries : entries[i].event = e}
  IN IF files = {} THEN entries ELSE RemoveAt(entries, CHOOSE i \in files : TRUE)

Answered(reply) == script.pc = "answered" /\ script.reply = reply

\* On to the next entry of the batch.
NextEntry == [script EXCEPT !.pc = "ready", !.queue = Tail(@), !.attempt = 0, !.reply = NoEvent]

\* Mutant of Discard: a file goes whatever the answer was.
Discard_Always ==
  /\ Flushing
  /\ script.pc = "answered"
  /\ spool' = Without(spool, InHand)
  /\ dropped' = IF script.reply = "rejected" THEN dropped \cup {InHand} ELSE dropped
  /\ script' = NextEntry
  /\ UNCHANGED <<now, todo, ended, inbox, serviceVars>>

\* A spool entry was accepted, or refused for good (logged): its file goes,
\* unless it cannot be removed and is met again by the next invocation.
Discard ==
  /\ Flushing
  /\ Answered("delivered") \/ Answered("rejected")
  /\ spool' \in {Without(spool, InHand), spool}
  /\ dropped' = IF script.reply = "rejected" THEN dropped \cup {InHand} ELSE dropped
  /\ script' = NextEntry
  /\ UNCHANGED <<now, todo, ended, inbox, serviceVars>>

\* A spool file that cannot be read is logged and removed.
DiscardUnreadable ==
  /\ Flushing
  /\ script.pc = "ready" /\ script.attempt = 0
  /\ spool' \in {Without(spool, InHand), spool}
  /\ dropped' = dropped \cup {InHand}
  /\ script' = NextEntry
  /\ UNCHANGED <<now, todo, ended, inbox, serviceVars>>

\* Mutant of Retry: the attempts are not counted.
Retry_Uncounted ==
  /\ Answered("transient")
  /\ script.attempt + 1 < MaxAttempts
  /\ script' = [script EXCEPT !.pc = "ready", !.reply = NoEvent]
  /\ UNCHANGED <<now, todo, spool, ended, dropped, inbox, serviceVars>>

\* Another attempt at the same body, after a pause.
Retry ==
  /\ Answered("transient")
  /\ script.attempt + 1 < MaxAttempts
  /\ script' = [script EXCEPT !.pc = "ready", !.attempt = @ + 1, !.reply = NoEvent]
  /\ UNCHANGED <<now, todo, spool, ended, dropped, inbox, serviceVars>>

\* A transient failure ends the drain: the script turns to its own alert.
StopFlush ==
  /\ Flushing
  /\ Answered("transient")
  /\ script.attempt + 1 >= MaxAttempts
  /\ script' = [script EXCEPT !.pc = "ready", !.queue = <<>>, !.attempt = 0, !.reply = NoEvent]
  /\ UNCHANGED <<now, todo, spool, ended, dropped, inbox, serviceVars>>

\* Its own alert was accepted, or refused for good (logged).
End ==
  /\ ~Flushing
  /\ Answered("delivered") \/ Answered("rejected")
  /\ script' = Idle
  /\ ended' = ended \cup {script.event}
  /\ dropped' = IF script.reply = "rejected" THEN dropped \cup {script.event} ELSE dropped
  /\ UNCHANGED <<now, todo, spool, inbox, serviceVars>>

\* The spool with room for one more: aged entries pruned, the oldest dropped.
Room ==
  LET kept == Fresh(spool)
      overflow == Len(kept) + 1 - MaxEntries
  IN SubSeq(kept, 1 + (IF overflow > 0 THEN overflow ELSE 0), Len(kept))

\* Its own alert kept failing: into the spool; or, when the spool cannot be
\* written, dropped with a line in the log, before or after room was made.
Enqueue ==
  /\ ~Flushing
  /\ Answered("transient")
  /\ script.attempt + 1 >= MaxAttempts
  /\ spool' \in {Append(Room, [event |-> script.event, at |-> now]), Room, spool}
  /\ dropped' = dropped \cup ((Spooled \cup {script.event})
                               \ {spool'[i].event : i \in DOMAIN spool'})
  /\ script' = Idle
  /\ ended' = ended \cup {script.event}
  /\ UNCHANGED <<now, todo, inbox, serviceVars>>

\* The script is killed; its own alert, not yet spooled, dies with it.
KillScript ==
  /\ script.pc /= "idle"
  /\ script' = Idle
  /\ inbox' = [i \in DOMAIN inbox |-> [inbox[i] EXCEPT !.awaited = FALSE]]
  /\ UNCHANGED <<now, todo, spool, ended, dropped, serviceVars>>

-----------------------------------------------------------------------------
(* The ingest endpoint *)

\* The first request is answered; a script that still waits reads the answer.
Reply(answer) ==
  /\ inbox' = Tail(inbox)
  /\ script' = IF Head(inbox).awaited
                 THEN [script EXCEPT !.pc = "answered", !.reply = answer]
                 ELSE script
  /\ UNCHANGED <<now, todo, spool, ended, dropped>>

Receives(e) == inbox /= <<>> /\ handler = Free /\ e = Head(inbox).event

HandleInvalid(e) ==
  /\ Receives(e) /\ e \in Invalid
  /\ Reply("rejected")
  /\ UNCHANGED serviceVars

\* 503: nothing was recorded.
HandleStorageFailure(e) ==
  /\ Receives(e) /\ e \notin Invalid
  /\ Reply("transient")
  /\ UNCHANGED serviceVars

KnownEvent(e) == e \in DOMAIN seen /\ now - seen[e] <= Window

LatestAlertOf(e) == CHOOSE a \in DOMAIN alerts :
                      /\ alerts[a].event = e
                      /\ \A b \in DOMAIN alerts : alerts[b].event = e => b <= a

\* Mutant of HandleDuplicate: a duplicate goes on to the notification.
HandleDuplicate_Notifies(e) ==
  /\ Receives(e) /\ e \notin Invalid
  /\ KnownEvent(e)
  /\ seen' = [seen EXCEPT ![e] = now]
  /\ handler' = [Free EXCEPT !.stage = "check", !.alert = LatestAlertOf(e)]
  /\ UNCHANGED <<now, scriptVars, inbox, alerts>>

\* An exact duplicate is counted and answered 200: not assessed, not notified.
HandleDuplicate(e) ==
  /\ Receives(e) /\ e \notin Invalid
  /\ KnownEvent(e)
  /\ seen' = [seen EXCEPT ![e] = now]
  /\ Reply("delivered")
  /\ UNCHANGED <<handler, alerts>>

\* A new or repeated alert is recorded and assessed; the handler goes on to
\* notify.
HandleNew(e) ==
  /\ Receives(e) /\ e \notin Invalid
  /\ ~KnownEvent(e)
  /\ seen' = [x \in DOMAIN seen \cup {e} |-> IF x = e THEN now ELSE seen[x]]
  /\ alerts' = Append(alerts, [event |-> e, at |-> now, series |-> 0,
                               receipts |-> 0, row |-> "none"])
  /\ handler' = [Free EXCEPT !.stage = "check", !.alert = Len(alerts) + 1]
  /\ UNCHANGED <<now, scriptVars, inbox>>

-----------------------------------------------------------------------------
(* The notification *)

\* The payload cannot be built: nothing is sent and nothing recorded.
Unbuildable ==
  /\ handler.stage = "check"
  /\ handler' = Free
  /\ Reply("delivered")
  /\ UNCHANGED <<seen, alerts>>

\* No delivery is on record for the alert, or that cannot be checked: the client
\* begins a series of attempts.  An alert id is fresh whenever the handler gets
\* here, so a delivery on record, which would end the handler, is not met.
BeginSend ==
  /\ handler.stage = "check"
  /\ handler' = [handler EXCEPT !.stage = "send"]
  /\ alerts' = [alerts EXCEPT ![handler.alert].series = @ + 1]
  /\ UNCHANGED <<now, scriptVars, inbox, seen>>

\* One POST to the webhook: whether n8n got it, and what the client sees.
Received(yes) == alerts' = [alerts EXCEPT ![handler.alert].receipts = IF yes THEN @ + 1 ELSE @]

Sent(result) == handler' = [handler EXCEPT !.stage = "record", !.attempts = @ + 1, !.result = result]

\* 2xx.
Acknowledge ==
  /\ handler.stage = "send"
  /\ Received(TRUE)
  /\ Sent("delivered")
  /\ UNCHANGED <<now, scriptVars, inbox, seen>>

\* A status or a transport error the client does not retry, whatever n8n got.
Refuse(received) ==
  /\ handler.stage = "send"
  /\ Received(received)
  /\ Sent("failed")
  /\ UNCHANGED <<now, scriptVars, inbox, seen>>

\* The body cannot be serialised, or the client is disabled, whose row says
\* skipped and is not told apart from failed: no request is made.
NotSent ==
  /\ handler.stage = "send" /\ handler.attempts = 0
  /\ handler' = [handler EXCEPT !.stage = "record", !.result = "failed"]
  /\ UNCHANGED <<now, scriptVars, inbox, seen, alerts>>

\* Mutant of Unanswered: giving up counts as delivered.
Unanswered_Optimistic(received) ==
  /\ handler.stage = "send"
  /\ Received(received)
  /\ IF handler.attempts + 1 < MaxRetries
       THEN handler' = [handler EXCEPT !.attempts = @ + 1]
       ELSE Sent("delivered")
  /\ UNCHANGED <<now, scriptVars, inbox, seen>>

\* 429, 5xx, a timeout or a broken connection: n8n may have acted on it or
\* not.  Retried; the last one is a failure.
Unanswered(received) ==
  /\ handler.stage = "send"
  /\ Received(received)
  /\ IF handler.attempts + 1 < MaxRetries
       THEN handler' = [handler EXCEPT !.attempts = @ + 1]
       ELSE Sent("failed")
  /\ UNCHANGED <<now, scriptVars, inbox, seen>>

Noted(row) == [alerts EXCEPT ![handler.alert].row = row]

\* The result and its audit rows are written in one transaction, or the write
\* fails and is only logged; the request is answered 202 all the same.
RecordNotification ==
  /\ handler.stage = "record"
  /\ alerts' \in {Noted(handler.result), alerts}
  /\ handler' = Free
  /\ Reply("delivered")
  /\ UNCHANGED seen

\* The service is killed and restarted: requests in it are gone, a waiting
\* script sees its connection break.
KillService ==
  /\ inbox /= <<>>
  /\ handler' = Free
  /\ inbox' = <<>>
  /\ script' = IF script.pc = "waiting"
                 THEN [script EXCEPT !.pc = "answered", !.reply = "transient"] ELSE script
  /\ UNCHANGED <<now, todo, spool, ended, dropped, seen, alerts>>

Tick == /\ now < MaxTime
        /\ now' = now + 1
        /\ UNCHANGED <<scriptVars, inbox, serviceVars>>

-----------------------------------------------------------------------------
Init ==
  /\ now = 0
  /\ script = Idle
  /\ todo = Events
  /\ spool = <<>>
  /\ ended = {}
  /\ dropped = {}
  /\ inbox = <<>>
  /\ handler = Free
  /\ seen = <<>>
  /\ alerts = <<>>

ScriptSteps ==
  \/ Filter \/ Post \/ PostFails \/ PostTimesOut
  \/ Discard \/ DiscardUnreadable \/ Retry \/ StopFlush \/ End \/ Enqueue

ServiceSteps ==
  \/ \E e \in Events : \/ HandleInvalid(e) \/ HandleStorageFailure(e)
                       \/ HandleDuplicate(e) \/ HandleNew(e)
  \/ Unbuildable \/ BeginSend
  \/ NotSent \/ Acknowledge
  \/ \E received \in BOOLEAN : Refuse(received) \/ Unanswered(received)
  \/ RecordNotification

Next == \/ \E e \in Events : Invoke(e)
        \/ ScriptSteps
        \/ KillScript
        \/ ServiceSteps
        \/ KillService
        \/ Tick

\* A started script goes on: its posts carry a timeout.  Nothing is assumed of
\* the service, of n8n, of the manager or of the clock.
Spec == Init /\ [][Next]_vars /\ WF_vars(ScriptSteps)

-----------------------------------------------------------------------------
(* Properties *)

\* An alert whose invocation ran to its end is recorded by the service, waits
\* in the spool or was given up with a line in the log (filtered, refused,
\* overflow, age, unreadable, spool not writable), whatever later invocations
\* do with it and wherever they or the service are killed (flush_spool, run).
NoSilentLoss == ended \subseteq Accepted \cup Spooled \cup dropped

\* However often a body is posted, by retries, by the spool or after a kill,
\* n8n gets one series of requests per alert, and a second alert of the same
\* event, with its own series, only after the deduplication window has passed
\* since the first (ingest_alert, _notify_n8n).
NotifiedOncePerWindow ==
  /\ \A a \in DOMAIN alerts : alerts[a].series <= 1
  /\ \A a, b \in DOMAIN alerts :
       a < b /\ alerts[a].event = alerts[b].event => alerts[b].at - alerts[a].at > Window

\* A notification on record as delivered reached n8n, and n8n gets an alert at
\* most max_retries times although a timeout hides what it got
\* (N8NWebhookClient.send, NotificationRepository.record).
DeliveredMeansReceived ==
  \A a \in DOMAIN alerts :
    /\ alerts[a].row = "delivered" => alerts[a].receipts > 0
    /\ alerts[a].receipts <= MaxRetries

\* The manager never hangs on the script: an invocation ends, whatever the
\* service does (deliver, run).
InvocationEnds == script.pc /= "idle" ~> script.pc = "idle"
=============================================================================
