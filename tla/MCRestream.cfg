SPECIFICATION FairSpec
CONSTANTS
  Dests = {d1}
  Specs = {s1, s2}
  Off = Off
  None = None
  Pushes = {p1, p2, p3}
  Syncs = {i1, i2}
  Lookups = {FALSE, TRUE}
  MaxEdits <- TwoEdits
CHECK_DEADLOCK FALSE
INVARIANTS OnePushPerDestination DirectPushEndsWithJob StatusIsHonest
PROPERTY FollowsEdits
