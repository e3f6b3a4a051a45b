SPECIFICATION FairSpec
CONSTANTS
  p1 = p1
  p2 = p2
  Proc = {p1, p2}
  d1 = d1
  d2 = d2
  Dd = {d1, d2}
  i1 = i1
  i2 = i2
  Inode = {i1, i2}
  None = None
  Kb = 16
  Sizes = {15, 16, 20}
  Samples <- McSamples
  MaxMishaps = 1
INVARIANTS
  TypeOK
  Enough
PROPERTIES
  Fills
  Freed
