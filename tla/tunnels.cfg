CONSTANTS
  s1 = s1  s2 = s2  web1 = web1  p1 = p1  p2 = p2  p3 = p3  app = app
  Sessions = {s1, s2}
  Services = {web1}
  Ports = {p1, p2, p3}
  NameOf <- OneName
  MaxSuffix = 2
  Policies = {open, office}
  WebHost = WebHost
  WebPort = WebPort
  MaxAttempts = 2
  MaxUps = 3
  MaxRotations = 1
  MaxRestarts = 2
  MaxStops = 1
  None = None
SPECIFICATION Spec
SYMMETRY Symmetry
CHECK_DEADLOCK FALSE
INVARIANTS TypeOK RoutesAreExact TrafficStaysHome
