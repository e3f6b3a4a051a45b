SPECIFICATION Spec
CONSTANTS
  p1 = p1
  p2 = p2
  Proc = {p1, p2}
  Cpu = {0, 1, 2}
  NameOf <- McNameOf
  ListOf <- McListOf
  Args <- McArgs
  MaxInt = 7
  MaxIds = 4
  MaxMishaps = 1
INVARIANTS
  TypeOK
  ParsedExactly
  PrefixDone
PROPERTIES
  SuccessIsWhole
