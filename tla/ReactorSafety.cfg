SPECIFICATION Spec
CONSTANTS
  Conns = {c1, c2, c3}
  Fds = {f1}
  L = L
  None = None
  Backlog = 2
  SndBuf = 1
  MaxSent = 2
  Gnum = 2
  BuffSize = 1
  FrameLen = 1
  RespLen = 2
CHECK_DEADLOCK FALSE
SYMMETRY Interchangeable
INVARIANTS
  NoLostReadEdge
  NoLostWriteEdge
  TablesAgree
  NoLostListenEdge
PROPERTIES
  NoStaleEvent
