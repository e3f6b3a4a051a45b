SPECIFICATION FairSpec
CONSTANTS
  p1 = p1
  p2 = p2
  r1 = r1
  r2 = r2
  Proc = {p1, p2}
  Pid = {r1, r2}
  Cmd = {"cpu1", "cpu10", "vm"}
  Longer <- McLonger
  Refused = {}
  Timed = {"cpu10"}
  Private = {"vm"}
  Nice = {"vm"}
  MaxCrashes = 1
  None = None
INVARIANTS
  TypeOK
PROPERTIES
  Cleared
  TestsEnd
  Returns
