CONSTANTS
  p1 = p1
  p2 = p2
  f1 = f1
  f2 = f2
  f3 = f3
  f4 = f4
  f5 = f5
  Proc = {p1, p2}
  Ino = {f1, f2, f3, f4, f5}
  None = None
  Ops <- Overlapping
  Kinds = {"file"}
  Modes = {"exec"}
  MaxMishaps = 1
  MaxRecreated = 1
SPECIFICATION Spec
VIEW View
SYMMETRY Symmetry
INVARIANTS
  TypeOK
  ExecRecoverable
PROPERTIES
  KeepsLedger
