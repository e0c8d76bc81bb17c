CONSTANTS
  Callers = {c1, c2}
  Workers = {w1}
  NoWorker = NoWorker
  Requests = {r1}
  Ids = {r1}
  BlockingRequests = {}
  RequestId <- DistinctIds
  Modes <- Memoized
  Faults = {"junk"}
  MaxProcesses = 1
  QueueBound = 1
  MaxRequestsPerWorker = 2
  MaxLines = 1
SPECIFICATION FairSpec
PROPERTY ReturnsUnlessOvertaken
