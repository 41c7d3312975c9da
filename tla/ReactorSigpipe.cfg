SPECIFICATION Spec
CONSTANTS
  Conns = {c1, c2}
  Fds = {f1, f2}
  L = L
  None = None
  Backlog = 2
  SndBuf = 1
  MaxSent = 2
  Gnum = 3
  BuffSize = 1
  FrameLen = 2
  RespLen = 1
CHECK_DEADLOCK FALSE
INVARIANTS
  SendErrorsHandled
