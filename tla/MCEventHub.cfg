SPECIFICATION FairSpec
CONSTANTS
  c1 = c1
  c2 = c2
  Clients <- TwoClients
  None = None
  MaxChanges = 2
  MaxLeaves = 1
  MaxFaults = 1
CHECK_DEADLOCK FALSE
INVARIANTS SameForAll QuietMeansFresh
PROPERTY Converges
