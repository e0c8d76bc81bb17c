CONSTANTS
  Callers = {c1, c2, c3, c4}
  Workers = {w1, w2, w3}
  NoWorker = NoWorker
  Requests = {r1}
  Ids = {r1}
  BlockingRequests = {}
  RequestId <- DistinctIds
  Modes <- Plain
  Faults = {"spawn", "exit", "junk"}
  MaxProcesses = 2
  QueueBound = 1
  MaxRequestsPerWorker = 2
  MaxLines = 1
SPECIFICATION Spec
SYMMETRY Symmetry
INVARIANTS
  SlotsAccounted
  ProcessesBounded
  QueueBounded
PROPERTY
  ImplementsAdmission
