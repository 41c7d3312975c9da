SPECIFICATION Spec
CONSTANTS
  Conns = {c1, c2, c3}
  Fds = {2, 3}
  L = 1
  None = None
  Backlog = 2
  SndBuf = 1
  MaxSent = 1
  SelectN = 4
  PollN = 4
  EpollN = 2
  BuffSize = 1
  PrefixLen = 1
CHECK_DEADLOCK FALSE
SYMMETRY Interchangeable
INVARIANTS
  TablesAgree
  NeverStale
  BlocksInSendOnly
