CONSTANTS
  c1 = c1
  c2 = c2
  t1 = t1
  t2 = t2
  Cpu = {c1, c2}
  NoCpu = NoCpu
  Tasklet = {t1, t2}
  NoTasklet = NoTasklet
  Nr <- Numbers
  Vector <- VectorOf
  BH = {t1}
  Restarters = {t2}
  IrqCpu = {c1}
SPECIFICATION Spec
INVARIANTS ScheduledOnce Serialized DisabledOrKilled SoftirqWillRun
