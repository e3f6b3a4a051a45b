----------------------------- MODULE MCInodeInject -----------------------------
(* Instances of InodeInject for TLC. *)
EXTENDS InodeInject

\* Inodes that run out before the blocks, and blocks that have run out already.
AllDisks == {<<2, 3>>, <<1, 0>>}
================================================================================
