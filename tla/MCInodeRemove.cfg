CONSTANTS
  r1 = r1
  r2 = r2
  Remover = {r1, r2}
  N = 2
  DirNum = {1, 2, 3}
  FileIdx = {0}
  Visibles = {TRUE, FALSE}
SPECIFICATION Spec
SYMMETRY Symmetry
INVARIANTS
  TypeOK
  DeleterLimit
  BatchesClear
  BatchBarrier
  PanicTakesTwo
