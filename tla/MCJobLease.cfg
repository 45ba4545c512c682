SPECIFICATION Spec
CONSTANTS
  None = None
  Workers = {w1, w2}
  Jobs = {j1}
  Tokens = {t1, t2, t3, t4}
  LeaseSec = 4
  HeartbeatSec = 1
  ClaimDelay = 0
  QueryTimeout = 2
  MaxAttempts = 1
SYMMETRY Symmetry
CHECK_DEADLOCK FALSE
INVARIANTS OneWriter WriterIsLeased
