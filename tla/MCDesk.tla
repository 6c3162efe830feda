------------------------------- MODULE MCDesk -------------------------------
(* Numbers of one digit to the base 3: the third incident outgrows the padding. *)
EXTENDS Desk, TLC

CONSTANTS alice, ip, url

MCAnalysts == {alice}
MCIndicators == {ip, url}
MCSteps == {1, -1}
MCSymmetry == Permutations(MCIndicators)
=============================================================================
