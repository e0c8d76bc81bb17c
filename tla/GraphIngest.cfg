CONSTANTS
  Files <- AllFiles
  Answers <- TheirAnswers
  Inputs <- SomeInputs
  MaxBuilds = 2
  MaxFaults = 1
SPECIFICATION Spec
INVARIANTS
  TypeOK
  CorrespondencesJustified
  CorrespondencesWhole
  FailureLeavesPrefix
  RetryConverges
  ExtractedAccepted
  RemoteRefsNoted
