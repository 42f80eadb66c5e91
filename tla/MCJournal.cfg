\* One task, two blocks, three transactions in a log that cannot hold them all.
CONSTANTS
  Task = {p1}
  Block = {b1, b2}
  NoBlock = NoBlock
  LogLen = 11
  MaxBuffers = 2
  Reserved = 7
  Credits = 1
  Magic = {}
  LastTid = 4
SPECIFICATION Spec
CHECK_DEADLOCK FALSE
INVARIANTS  LogNeverFull SyncedIsDurable SpaceIsReclaimable JAsserts
SYMMETRY BlockSymmetry
