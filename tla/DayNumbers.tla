---------------------------- MODULE DayNumbers ----------------------------
(***************************************************************************)
(* The numbers at the end of INC-YYYY-MM-DD-NNNN and CORR-YYYY-MM-DD-NNNN. *)
(* They are counted up as numbers but compared as strings of digits, by    *)
(* the database and in Python.  While they fit their padding that is the   *)
(* same; beyond it a longer string may come before a shorter one.          *)
(***************************************************************************)
EXTENDS Integers, FiniteSets, FiniteSetsExt

CONSTANTS Base, Width  \* of the digits, and the width they are padded to: 10 and 4

ASSUME DigitsAssumption == Base \in Nat \ {0, 1} /\ Width \in Nat \ {0}

\* Numbers without a digit beyond the padding.
Fits(n) == n < Base^Width

\* How many digits n is written with.
Size(n) == Min({k \in Width..(Width + n) : n < Base^k})

\* The first digits of m, as many as n is written with, are n.
Begins(n, m) ==
  n = m \/ (Size(n) < Size(m) /\ n = m \div Base^(Size(m) - Size(n)))

\* The order of strings: the first digits decide, then the length.
Below(n, m) ==
  LET j == Size(n)
      k == Size(m)
  IN  \/ j = k /\ n < m
      \/ j < k /\ n <= m \div Base^(k - j)
      \/ j > k /\ n \div Base^(j - k) < m

\* n is the maximum of a column of such strings.
IsLast(n, numbers) == n \in numbers /\ \A m \in numbers : ~Below(n, m)
=============================================================================
