CONSTANTS
  t1 = t1
  t2 = t2
  c1 = c1
  Timer = {t1, t2}
  NoTimer = NoTimer
  Deleter = {c1}
  TVR_BITS = 1
  TVN_BITS = 2
  NOOF_TVECS = 3
  MaxLag = 1
  Delays <- Edges
SPECIFICATION Spec
SYMMETRY Perms
INVARIANTS PendingInv NeverLate DelSyncInv
PROPERTY NeverEarly
