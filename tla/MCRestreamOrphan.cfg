SPECIFICATION Spec
CONSTANTS
  Dests = {d1}
  Specs = {s1}
  Off = Off
  None = None
  Pushes = {p1, p2}
  Syncs = {i1}
  Lookups = {TRUE}
  MaxEdits <- OneEdit
CHECK_DEADLOCK FALSE
INVARIANTS EndsWithJob
