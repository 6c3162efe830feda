------------------------------ MODULE MCDedupe ------------------------------
\* Model values for Dedupe: two events that share a rule+agent group and one
\* of another group.
EXTENDS Dedupe, TLC

CONSTANTS g1, g2, e1, e2, e3, f1, f2

MCGroups == {g1, g2}
MCEvents == {e1, e2, e3}
MCGroupOf == (e1 :> g1) @@ (e2 :> g1) @@ (e3 :> g2)
MCFingerprints == {f1, f2}

ForwardOnly == {1}
BothWays == {3, -1}

MCSymmetry == Permutations(MCFingerprints)
=============================================================================
