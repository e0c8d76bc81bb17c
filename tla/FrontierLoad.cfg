CONSTANTS
  Artifacts = {a1, a2, a3}
  Entities = {n1, n2}
  Corrs = {k1}
  Edges = {e1, e2}
  Edited = {a1}
  Rewritten = {n2}
  Support = {k1, e2}
  MaxWrites = 2
SPECIFICATION Spec
SYMMETRY Symmetry
INVARIANTS
  FrontierExact
  NothingMissed
  Idempotent
  OnlyRacesDangle
