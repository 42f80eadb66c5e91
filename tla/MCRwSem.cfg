\* Four tasks, every fast path and every contention routine.
CONSTANTS
  Task = {t1, t2, t3, t4}
  NoTask = NoTask
  WAITING_UNIT = 8
SPECIFICATION Spec
SYMMETRY Symmetry
INVARIANTS TypeOK GrantedIsWoken CountInv
PROPERTY ImplementsAbstract
