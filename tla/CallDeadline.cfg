CONSTANTS
  PipeCapacity = 3
  RequestUnits = 3
  MaxPayload = 3
  MaxOutput = 6
  Streams = FALSE
  Liberties = {"close stdin", "close stdout", "fork"}
SPECIFICATION FairSpec
INVARIANTS
  AnswerWhole
  OverrunKilled
PROPERTY CallReturns
