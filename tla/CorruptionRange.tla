---------------------------- MODULE CorruptionRange ----------------------------
(***************************************************************************)
(* The arithmetic of file-corruption: --offset and --length are any 64-bit *)
(* integers, checked against the file's size and the room for its backup   *)
(* with sums that wrap around, and used only after the backup is made.     *)
(***************************************************************************)
EXTENDS Integers

CONSTANTS
  Half,     \* integers are -Half..Half-1; 2^63 in the code
  MaxSize,  \* the largest file of the file system
  MaxAlloc  \* the longest slice that can be made

ASSUME RangeAssumption ==
  /\ Half \in Nat \ {0} /\ MaxSize \in Nat /\ MaxAlloc \in Nat
  /\ MaxSize + MaxAlloc < Half

VARIABLES
  stage,    \* where FaultInject is
  size,     \* of the file, as Stat gave it
  grown,    \* of the file, now
  avail,    \* room on the mount point of the backup
  offset, length,
  backedUp, \* the backup is there
  broken    \* history: a system call of the injection has failed

rangeVars == <<stage, size, grown, avail, offset, length, backedUp, broken>>
input == <<size, avail, offset, length>>

Int64 == (-Half)..(Half - 1)
Wrap(x) == IF x >= Half THEN x - 2 * Half ELSE IF x < -Half THEN x + 2 * Half ELSE x

RangeInit ==
  /\ stage = "space"
  /\ size \in 0..MaxSize /\ grown = size
  /\ avail \in 0..MaxSize
  /\ offset \in Int64 /\ length \in Int64
  /\ backedUp = FALSE /\ broken = FALSE

Proceed(from, to) == stage = from /\ stage' = to /\ UNCHANGED <<input, broken>>
\* A call fails at a stage, and the injection ends with its error.
CallFails(at) ==
  /\ stage \in at /\ stage' = "failed" /\ broken' = TRUE
  /\ UNCHANGED input

\* The three refusals, before anything is written.
CheckSpace ==
  Proceed("space", IF size > avail THEN "refused" ELSE "offset")
    /\ UNCHANGED <<grown, backedUp>>
CheckOffset ==
  Proceed("offset", IF offset >= size THEN "outside" ELSE "end")
    /\ UNCHANGED <<grown, backedUp>>
\* Mutant: the end of the range is not checked.
CheckEndMissing == Proceed("end", "backup") /\ UNCHANGED <<grown, backedUp>>
CheckEnd ==
  Proceed("end", IF Wrap(length + offset) >= size THEN "outside" ELSE "backup")
    /\ UNCHANGED <<grown, backedUp>>

\* Mutant: the range is checked once more, a byte shorter, after the backup.
BackupRechecks ==
  Proceed("backup", IF length + offset + 1 >= size THEN "failed" ELSE "open")
    /\ backedUp' = TRUE /\ UNCHANGED grown
Backup == Proceed("backup", "open") /\ backedUp' = TRUE /\ UNCHANGED grown
\* fileCopy fails before the backup is created, or half way through it.
BackupFails == CallFails({"backup"}) /\ backedUp' \in BOOLEAN /\ UNCHANGED grown

Open == Proceed("open", "seek") /\ UNCHANGED <<grown, backedUp>>
\* Seek refuses a negative offset, make panics on a length it cannot allocate.
Seek ==
  Proceed("seek", IF offset < 0 THEN "failed" ELSE "random")
    /\ UNCHANGED <<grown, backedUp>>
Random ==
  Proceed("random", IF length \in 0..MaxAlloc THEN "write" ELSE "failed")
    /\ UNCHANGED <<grown, backedUp>>
\* The file cannot be opened, or there are no random numbers.
OpenFails == CallFails({"open", "random"}) /\ UNCHANGED <<grown, backedUp>>
Written(n) ==
  /\ grown' = IF offset + n > grown THEN offset + n ELSE grown
  /\ UNCHANGED backedUp
Write == Proceed("write", "written") /\ Written(length)
\* The write fails at its beginning or part of the way.
WriteFails == CallFails({"write"}) /\ \E n \in 0..length : Written(n)

Ended == stage \in {"refused", "outside", "failed", "written"} /\ UNCHANGED rangeVars

RangeNext ==
  \/ CheckSpace \/ CheckOffset \/ CheckEnd \/ Backup \/ Open \/ Seek \/ Random \/ Write
  \/ BackupFails \/ OpenFails \/ WriteFails \/ Ended
RangeSpec == RangeInit /\ [][RangeNext]_rangeVars
--------------------------------------------------------------------------------
\* Whatever the two integers are, and however their sum wraps around, random
\* bytes are written only inside the file, which keeps its size.
WritesInside ==
  /\ stage \in {"write", "written"} => 0 <= offset /\ 0 <= length /\ offset + length < size
  /\ grown = size

\* A request for a range inside the file is refused before its backup is made or
\* carried out, as long as no system call fails: the checks that come after the
\* backup, of the seek and of the buffer, end only those that the checks before
\* it should have caught, with negative and overflowing numbers.
InRange == 0 <= offset /\ length \in 0..MaxAlloc /\ offset + length < size
NoStrayBackup ==
  stage \in {"refused", "outside", "failed"} /\ InRange /\ ~broken => ~backedUp
================================================================================
