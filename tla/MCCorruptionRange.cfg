CONSTANTS
  Half = 16
  MaxSize = 8
  MaxAlloc = 7
SPECIFICATION RangeSpec
INVARIANTS
  WritesInside
  NoStrayBackup
