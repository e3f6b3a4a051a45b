CONSTANTS
  p1 = p1
  f1 = f1
  f2 = f2
  f3 = f3
  Proc = {p1}
  Ino = {f1, f2, f3}
  None = None
  Ops <- CorruptionOnly
  Kinds = {"file"}
  Modes = {"plain"}
  MaxMishaps = 1
  MaxRecreated = 0
SPECIFICATION Spec
VIEW View
INVARIANTS
  RemovalRestores
