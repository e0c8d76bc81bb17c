CONSTANTS
  Commits = {c1, c2}
  Patches = {p1, p2}
  NoPatch = NoPatch
  Absent = Absent
  Partial = Partial
  MaxReplays = 3
SPECIFICATION Spec
SYMMETRY Symmetry
INVARIANTS
  CompletedIsWhole
  AuditGrammar
  VerdictBacked
