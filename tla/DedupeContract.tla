--------------------------- MODULE DedupeContract ---------------------------
(***************************************************************************)
(* What alert deduplication promises to the senders of alerts, with no     *)
(* counter, record or pruning: the answer to a delivery is a function of   *)
(* the deliveries answered so far (`log`) and of the time of reception.    *)
(*                                                                         *)
(*   exact_duplicate  the same event was delivered within the window, as   *)
(*                    an original or as a duplicate: the answer carries    *)
(*                    the alert that delivery was answered with;           *)
(*   repeated         not a duplicate, and a distinct event of the same    *)
(*                    rule+agent group arrived within the window;          *)
(*   new_generation   otherwise.                                           *)
(*                                                                         *)
(* Duplicates never count as activity of the group.  Module Dedupe is      *)
(* shown to implement this specification.                                  *)
(***************************************************************************)
EXTENDS Integers, Sequences

CONSTANTS
  Events,       \* source event identities (compute_event_identity)
  GroupOf,      \* the rule+agent group of an event (compute_group_key)
  Window,       \* the deduplication window, in ticks
  ClockSteps    \* by how much the reception clock may move at once

VARIABLES
  now,          \* the reception clock
  log           \* the deliveries answered, oldest first

vars == <<now, log>>

\* One answered delivery.  A delivery that creates an alert gives it a fresh
\* id: its own position in the log.
Entry(e, alert, status, diverged) ==
  [event |-> e, alert |-> alert, at |-> now, status |-> status, diverged |-> diverged]

InWindow(i) == now - log[i].at <= Window

DeliveriesOf(e) == {i \in DOMAIN log : log[i].event = e /\ InWindow(i)}

DistinctIn(g) ==
  {i \in DOMAIN log : /\ GroupOf[log[i].event] = g
                      /\ log[i].status # "exact_duplicate"
                      /\ InWindow(i)}

Init == now = 0 /\ log = <<>>

AnswerDuplicate(e) ==
  \E i \in DeliveriesOf(e), diverged \in BOOLEAN :
    log' = Append(log, Entry(e, log[i].alert, "exact_duplicate", diverged))

AnswerRepeated(e) ==
  /\ DeliveriesOf(e) = {}
  /\ DistinctIn(GroupOf[e]) # {}
  /\ log' = Append(log, Entry(e, Len(log) + 1, "repeated", FALSE))

AnswerNewGeneration(e) ==
  /\ DeliveriesOf(e) = {}
  /\ DistinctIn(GroupOf[e]) = {}
  /\ log' = Append(log, Entry(e, Len(log) + 1, "new_generation", FALSE))

Answer(e) == AnswerDuplicate(e) \/ AnswerRepeated(e) \/ AnswerNewGeneration(e)

Next ==
  \/ (\E e \in Events : Answer(e)) /\ UNCHANGED now
  \/ (\E d \in ClockSteps : now' = now + d) /\ UNCHANGED log

Spec == Init /\ [][Next]_vars
=============================================================================
