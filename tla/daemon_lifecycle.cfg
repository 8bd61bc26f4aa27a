CONSTANTS
  l1 = l1  l2 = l2  l3 = l3  d1 = d1  d2 = d2  d3 = d3
  Launchers = {l1, l2, l3}
  Daemons = {d1, d2, d3}
  Incompatible = {d1}
  LastPort = 3
  MaxEnds = 1
  MaxSlow = 1
  None = None  Unread = Unread
SPECIFICATION LifecycleSpec
SYMMETRY Symmetry
CONSTRAINT Orderly
CHECK_DEADLOCK FALSE
INVARIANTS LifecycleTypeOK SplitNeedsLapse
