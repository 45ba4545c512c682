SPECIFICATION Spec
CONSTANTS
  None = None
  k1 = k1
  k2 = k2
  k3 = k3
  s1 = s1
  s2 = s2
  Channels = {c1, c2}
  Keys = {k1, k2, k3}
  Sources = {s1, s2}
  Broadcasts = {b1, b2}
  Jobs = {j1, j2}
  PathOf <- TwoKeys
  MaxWaiting = 2
SYMMETRY Symmetry
CHECK_DEADLOCK FALSE
INVARIANTS OneActiveBroadcast JobFollowsSource SourceOnOwnChannel
