---------------------------- MODULE MCProcessFaults ----------------------------
(* Instances of ProcessFaults for TLC. *)
EXTENDS ProcessFaults

CONSTANTS c1, c2, r1, r2

\* --interval 1 (c1, removed by r1) and --interval 10 (c2, removed by r2): the
\* shorter command line is part of the longer one.
FoundPrefix == [r \in Unchoker |-> Choker \cap (IF r = r1 THEN {c1, c2} ELSE {c2})]
================================================================================
