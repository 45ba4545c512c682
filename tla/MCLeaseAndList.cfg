SPECIFICATION BothSpec
CONSTANTS
  None = None
  Workers = {w1}
  Jobs = {j1}
  Tokens = {t1, t2, t3}
  LeaseSec = 4
  HeartbeatSec = 1
  ClaimDelay = 0
  QueryTimeout = 1
  MaxAttempts = 1
  MaxIds = 3
  MaxRows = 2
  Switches = {on}
  MaxCalls = 2
  MaxOthers = 1
CHECK_DEADLOCK FALSE
INVARIANT ListIsHonest
PROPERTY NeverStuck
