CONSTANTS
  c1 = c1
  c2 = c2
  c3 = c3
  p1 = p1
  p2 = p2
  Processes = {p1, p2}
  Callers = {c1, c2, c3}
  Contents = {k1, k2}
  Home <- ThreeThreads
  MaxCalls = 4
  MaxFaults = 2
SPECIFICATION Spec
INVARIANTS
  WritesCounted
PROPERTY ImplementsMap
