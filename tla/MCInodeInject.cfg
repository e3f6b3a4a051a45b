CONSTANTS
  r1 = r1
  r2 = r2
  r3 = r3
  NoRoutine = NoRoutine
  Routine = {r1, r2, r3}
  N = 2
  FilesPerDir = 2
  MaxOpen = 2
  Disks <- AllDisks
  MaxDir = 5
  MaxLeft = 1
  MaxRelease = 1
SPECIFICATION FairSpec
INVARIANTS
  TypeOK
  Barrier
  DistinctDirs
  ExactUntilFull
PROPERTY Exhausts
