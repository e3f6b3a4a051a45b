CONSTANTS
  p1 = p1
  f1 = f1
  f2 = f2
  f3 = f3
  f4 = f4
  f5 = f5
  Proc = {p1}
  Ino = {f1, f2, f3, f4, f5}
  None = None
  Ops <- AllOps
  Kinds = {"file", "dir"}
  Modes = {"plain", "exec", "special"}
  MaxMishaps = 2
  MaxRecreated = 1
SPECIFICATION Spec
VIEW View
INVARIANTS
  OriginalSurvives
  CleanMeansOriginal
  ExecRecoverable
PROPERTIES
  BackedUpFirst
