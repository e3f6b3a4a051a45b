----------------------------- MODULE MCFileFaults ------------------------------
(* Instances of FileFaults for TLC. *)
EXTENDS FileFaults, TLC

\* What matters of an inode is what it holds and who has it, never which it is:
\* so neither does what an inode held before it was freed.
Held(i) ==
  IF i = None THEN <<>>
  ELSE << ino[i], {n \in Name : ent[n] = i}, {p \in Proc : src[p] = i},
          {p \in Proc : out[p] = i} >>
View == << [n \in Name |-> Held(ent[n])],
           [p \in Proc |-> <<Held(src[p]), Held(out[p])>>], pc, mode, env >>

\* Slots for invocations are alike.
Symmetry == Permutations(Proc)

CorruptionOnly == {"corruption-inject", "corruption-remove"}

\* All but the removal that deletes the backup of the permissions.
Overlapping == AllOps \ {"unexecuted-remove"}
================================================================================
