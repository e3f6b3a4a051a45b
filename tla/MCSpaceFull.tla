------------------------------- MODULE MCSpaceFull -------------------------------
(* Instances of SpaceFull for TLC: a K of 16, so that tenths and whole units, *)
(* and all the units up to P, are within reach.                               *)
EXTENDS SpaceFull

Around(k) == {k - 1, k, k + 1}
\* Sizes on both sides of where df changes its unit or drops its decimal.
McSamples ==
  UNION {Around(k) : k \in {1, Kb, 10 * Kb, Kb ^ 2, 10 * Kb ^ 2, (Kb ^ 3 * 99) \div 10,
                            Kb ^ 3, 3 * Kb ^ 3, Kb ^ 4 - Kb ^ 3, Kb ^ 4}}
    \cup {(Kb ^ 3 * t) \div 10 : t \in 11 .. 99}
    \cup 17 .. 60 \cup 250 .. 300
================================================================================
