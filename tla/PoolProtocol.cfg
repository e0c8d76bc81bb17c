CONSTANTS
  Callers = {c1, c2}
  Workers = {w1}
  NoWorker = NoWorker
  Requests = {r1, r2}
  Ids = {r1, r2}
  BlockingRequests = {}
  RequestId <- DistinctIds
  Modes <- Both
  Faults = {"junk", "long", "oversized", "extra", "exit", "closePipe", "heir"}
  MaxProcesses = 1
  QueueBound = 1
  MaxRequestsPerWorker = 2
  MaxLines = 1
SPECIFICATION Spec
SYMMETRY Symmetry
INVARIANTS
  SlotsNotOversold
  NoOrphans
  AnswersMatchRequests
  MemoSound
