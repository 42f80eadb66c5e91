\* Two tasks contending for a mutex, under the fairness of the scheduler.
CONSTANTS
  Task = {t1, t2}
  NoTask = NoTask
  Count = 1
  MaxSignals = 2
SPECIFICATION SemFairSpec
INVARIANTS TypeOK CountInv MutualExclusion NoLostWakeup
PROPERTIES ImplementsSemaphore AllServed
