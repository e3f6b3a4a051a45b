SPECIFICATION FairSpec
CONSTANTS
  p1 = p1
  p2 = p2
  Proc = {p1, p2}
  Menus <- McMenus
  TextOf <- McTextOf
  None = None
  Hour = 4
  Minute = 2
  Day = 8
  MaxInt = 30
  MaxLength = 20
  MaxTime = 8
INVARIANTS
  TypeOK
PROPERTIES
  JumpExact
  ServiceAsReported
  ReadonlyCleared
