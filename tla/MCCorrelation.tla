--------------------------- MODULE MCCorrelation ---------------------------
\* Kinds of alerts for Correlation: hosts h1 and h2, rules r1 and r2, techniques t
\* and u, indicators x and y.  A and B share x, C and D share y; A and D share
\* their host and techniques, which suffices and bridges x and y.  A and C, and
\* B and D, share their rule and a technique; B and C share their host: none of
\* these suffices.
EXTENDS Correlation

CONSTANTS r1, r2, t, u, x, y

Kind(rule, agent, techniques, indicators) ==
  [rule |-> rule, agent |-> agent, techniques |-> techniques, indicators |-> indicators]

A == Kind(r1, "h1", {t, u}, {x})
B == Kind(r2, "h2", {u}, {x})
C == Kind(r1, "h2", {t}, {y})
D == Kind(r2, "h1", {t, u}, {y})

MCKinds == {A, B, C, D}

OneTick == {1}

MCValues == {r1, r2, t, u, x, y}

\* Swapping both rules, both techniques and both indicators swaps A with D and
\* B with C.
Swapped(v) ==
  CASE v = r1 -> r2 [] v = r2 -> r1 [] v = t -> u
    [] v = u -> t [] v = x -> y [] v = y -> x

MCSymmetry ==
  {[v \in MCValues |-> IF swap THEN Swapped(v) ELSE v] : swap \in BOOLEAN}
=============================================================================
