----------------------------- MODULE MCInodeRemove -----------------------------
(* Instances of InodeRemove for TLC. *)
EXTENDS InodeRemove, TLC

Symmetry == Permutations(Remover)
================================================================================
