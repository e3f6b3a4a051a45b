------------------------------ MODULE MCStressNg ------------------------------
(* Instances of StressNg for TLC. *)
EXTENDS StressNg

\* "--cpu 1", contained in "--cpu 10"; and "--vm 1" with --nice, whose private
\* arguments stress-ng does not know.
McLonger == [c \in {"cpu1", "cpu10", "vm"} |->
               IF c = "cpu1" THEN {"cpu1", "cpu10"} ELSE {c}]
===============================================================================
