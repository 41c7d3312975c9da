SPECIFICATION MCSpec
CONSTANTS
  Strange <- MCStrange
  MaxFrames = 3
  MaxChunk = 40
  IntMax = 7
  Clients = {c1}
  Asked <- MCAsked
  Requested <- MCAsked
  RetryMax = 2
  FdLimit = 2
  MaxAsks = 2
  MaxStarts = 2
  MaxResets = 1
CHECK_DEADLOCK FALSE
INVARIANTS
  StreamKept
  AnswersRight
  SurvivesClients
PROPERTIES
  NeverLeftWaiting
  BackOrClosed
