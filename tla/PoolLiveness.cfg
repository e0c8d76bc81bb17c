CONSTANTS
  Callers = {c1, c2, c3}
  Workers = {w1}
  NoWorker = NoWorker
  Requests = {r1}
  Ids = {r1}
  BlockingRequests = {r1}
  RequestId <- DistinctIds
  Modes <- Plain
  Faults = {"spawn", "exit", "junk", "closePipe", "heir"}
  MaxProcesses = 1
  QueueBound = 2
  MaxRequestsPerWorker = 2
  MaxLines = 1
SPECIFICATION FairSpec
INVARIANT NoLostWakeup
PROPERTY ReturnsUnlessOvertaken
