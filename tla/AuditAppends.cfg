CONSTANTS
  Writers = {w1, w2}
  MaxEvents = 4
  ShortWrites = TRUE
  MaxFaults = 2
SPECIFICATION Spec
INVARIANTS
  TypeOK
  ReadInOrder
  AckedLossBounded
  InterleavedAppendsSafe
