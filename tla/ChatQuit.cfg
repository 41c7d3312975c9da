SPECIFICATION Spec
CONSTANTS
  Users = {u1, u2}
  Tasks = {m1}
  Workers = {w1}
  Main = Main
  QUIT = QUIT
  None = None
CHECK_DEADLOCK FALSE
INVARIANTS
  RunsForEver
