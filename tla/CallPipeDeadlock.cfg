CONSTANTS
  PipeCapacity = 2
  RequestUnits = 6
  MaxPayload = 16
  MaxOutput = 6
  Streams = TRUE
  Liberties = {}
SPECIFICATION FairSpec
PROPERTY CallReturns
CHECK_DEADLOCK FALSE
