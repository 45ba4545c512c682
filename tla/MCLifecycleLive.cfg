SPECIFICATION FairSpec
CONSTANTS
  None = None
  k1 = k1
  k2 = k2
  k3 = k3
  s1 = s1
  s2 = s2
  Channels = {c1}
  Keys = {k1}
  Sources = {s1, s2}
  Broadcasts = {b1, b2}
  Jobs = {j1, j2}
  PathOf <- OneKey
  MaxWaiting = 1
CHECK_DEADLOCK FALSE
PROPERTIES KeepsPromise ClosesAbandoned LiveGetsJob EndedLosesJob
