CONSTANTS
  l1 = l1  l2 = l2  l3 = l3  d1 = d1  d2 = d2  d3 = d3
  Launchers = {l1}
  Daemons = {d2, d3}
  Incompatible = {}
  LastPort = 2
  MaxEnds = 0
  MaxSlow = 0
  None = None  Unread = Unread
SPECIFICATION LifecycleSpec
CHECK_DEADLOCK FALSE
INVARIANT TunnelsSurviveRestart
