CONSTANTS
  d1 = d1  d2 = d2  u1 = u1  s1 = s1  s2 = s2  p1 = p1  p2 = p2
  Devices = {d1, d2}
  Unheard = {u1}
  Sessions = {s1, s2}
  Passwords = {p1, p2}
  None = None
  MaxSecret = 2
  MaxStep = 1
  MaxMoves = 1
  MaxStreams = 2
  MaxStarts = 2
  Overlays = {o1, o2}
  MaxChanges = 1
  MaxQueue = 1
  MaxExtras = 1
  Values = {v1, v2}
  MaxSaves = 2
SPECIFICATION OwnerSpec
INVARIANTS CodesOnce OwnerCanSignIn NothingLeaks PhaseIsHonest CounterIsCurrent SavesWhatWasTyped
SYMMETRY Symmetry
CHECK_DEADLOCK FALSE
