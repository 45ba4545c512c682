SPECIFICATION EndsSpec
CONSTANTS
  MaxVersion = 2
  MaxFaults = 2
  MaxActs = 1
  Length = 2
  MaxPlayerFaults = 3
  MaxPlayerActs = 2
  Nodes = {n1, n2}
  Sources = {1, 2}
  NodeOf <- TwoNodes
  MaxFailures = 2
  MaxMishaps = 1
  Requests = {r1, r2, r3}
  MaxSessions = 1
CHECK_DEADLOCK FALSE
INVARIANTS StreamHasLastWord LimitHolds
PROPERTIES CatchesUp PauseIsKept NeverHangs SessionsEnd NoFlapping Converges
