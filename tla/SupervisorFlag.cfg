CONSTANTS
  Tasks = {t1, t2}
  AutoStart = auto
  Main = main
  None = None
  Pids = {p1, p2}
  Args = {a1, a2}
SPECIFICATION Spec
CHECK_DEADLOCK FALSE
INVARIANT StartingCovers
