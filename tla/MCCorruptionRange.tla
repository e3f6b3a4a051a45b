-------------------------- MODULE MCCorruptionRange ---------------------------
(* Instances of CorruptionRange for TLC: 5-bit integers. *)
EXTENDS CorruptionRange
================================================================================
