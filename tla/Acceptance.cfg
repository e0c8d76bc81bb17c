CONSTANTS
  Parsed <- TheIds
  Endpoints <- TheEndpoints
  Within <- TheWithin
  FirstOwner <- TheOwner
  FirstCorrs = {"k1"}
  NewOwner <- LaterOwner
  NewCorrs = {"k2"}
  NewEdges = {"e1"}
  Edited = {"a"}
  Batches <- TheBatches
  Candidates <- TheCandidates
  Excerpts <- TheExcerpts
  MaxWrites = 1
  MaxFaults = 1
SPECIFICATION Spec
INVARIANTS
  SupportKnown
  UndefinedBlocked
  MapJustified
  MigratedJustified
  ObligationsCover
  ReportFailsClosed
  AcceptedMeansCovered
