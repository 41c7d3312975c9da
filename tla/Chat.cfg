SPECIFICATION MCSpec
CONSTANTS
  p1 = p1
  p2 = p2
  Peers = {p1, p2}
  Questions <- MCQuestions
  Banned <- MCBanned
  Quiet <- MCQuiet
  Unending <- MCUnending
  Bulky <- MCBulky
  Files <- MCFiles
  FirstFile <- MCFirstFile
  MaxAsked = 2
  MaxLost = 1
  MaxTwice = 1
  Users = {u1, u2}
  Tasks = {m1, m2}
  Workers = {w1, w2}
  Main = Main
  QUIT = QUIT
  None = None
CHECK_DEADLOCK FALSE
INVARIANTS
  CommonOrder
  WholeRoom
  InStep
PROPERTIES
  MessagesRouted
  DatagramAnswered
  Shown
