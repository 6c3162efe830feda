----------------------------- MODULE MCDelivery -----------------------------
(* An alert, one the endpoint refuses and one that is filtered, and a spool of *)
(* one entry. *)
EXTENDS Delivery

CONSTANTS e1, bad, low

MCEvents == {e1, bad, low}
MCFiltered == {low}
MCInvalid == {bad}
=============================================================================
