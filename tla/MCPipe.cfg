CONSTANTS
  t1 = t1
  t2 = t2
  t3 = t3
  Task = {t1, t2, t3}
  NoTask = NoTask
  PIPE_SIZE = 2
  PIPE_BUF = 2
  Counts = {1, 2, 3}
SPECIFICATION Spec
SYMMETRY Sym
INVARIANTS WriteIsAtomic NoSleeperForgotten Accounted
PROPERTY InOrder
