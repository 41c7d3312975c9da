SPECIFICATION Spec
CONSTANTS
  Conns = {c1, c2}
  Fds = {2, 3}
  L = 1
  None = None
  Backlog = 1
  SndBuf = 1
  MaxSent = 1
  SelectN = 4
  PollN = 2
  EpollN = 1
  BuffSize = 1
  PrefixLen = 1
CHECK_DEADLOCK FALSE
PROPERTIES
  LoopImplemented
  EveryByteAnswered
