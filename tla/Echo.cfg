SPECIFICATION MCSpec
CONSTANTS
  u1 = u1
  u2 = u2
  u3 = u3
  Users = {u1, u2, u3}
  Commands <- MCCommands
  Forbidden <- MCForbidden
  Silent <- MCSilent
  Endless <- MCEndless
  Sockets = 2
  MaxTyped = 2
  Conns = {c1, c2}
  Fds = {f1, f2}
  L = L
  None = None
  Backlog = 2
  SndBuf = 1
  MaxSent = 3
  Workers = {w1}
  Main = Main
  BuffSize = 2
CHECK_DEADLOCK FALSE
INVARIANTS
  DescriptorsOwned
  ClientInStep
PROPERTIES
  EndsOnlyByClients
  Echoed
  WaitersServed
  CommandAnswered
