CONSTANTS
  c1 = c1
  c2 = c2
  r1 = r1
  r2 = r2
  Choker = {c1, c2}
  Unchoker = {r1, r2}
  Hanger = {h1}
  Unhanger = {u1}
  Killer = {k1}
  Nobody = Nobody
  Found <- FoundPrefix
  MaxCrashes = 1
SPECIFICATION FairSpec
INVARIANTS
  TypeOK
  RemovedRuns
  HungOrFree
PROPERTIES
  Alternates
  EndWithTarget
