\* Three tasks: the queue is left unserved after a waker's undo.
CONSTANTS
  Task = {t1, t2, t3}
  NoTask = NoTask
  WAITING_UNIT = 8
SPECIFICATION Spec
SYMMETRY Symmetry
INVARIANT QueueIsServed
