SPECIFICATION MCSpec
CONSTANTS
  Pages <- MCPages
  Directories <- MCDirectories
  Functions = {"login"}
  MimeFile <- MCMimeFile
  Redirected = 301
  MaxLinks = 3
  FdLimit = 2
  MaxStarts = 2
  Requests <- MCRequests
  Browsers = {b1, b2}
  Ids = {i1, i2}
  Visits <- MCVisits
  b1 = b1
  i1 = i1
CHECK_DEADLOCK FALSE
INVARIANTS
  AnswersFit
  SessionsKept
PROPERTIES
  SurvivesRequests
  Attended
