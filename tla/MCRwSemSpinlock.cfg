\* Four tasks.
CONSTANTS
  Task = {t1, t2, t3, t4}
  NoTask = NoTask
SPECIFICATION FairSpec
INVARIANTS ActivityInv WriterIsFirst
PROPERTIES ImplementsAbstract NoStarvation
