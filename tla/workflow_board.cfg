SPECIFICATION Spec
CONSTANTS
  s1 = s1
  s2 = s2
  n1 = n1
  n2 = n2
  w1 = w1
  r1 = r1
  r2 = r2
  f1 = f1
  f2 = f2
  Types = {"catalog", "board", "activity", "notification"}
  Capacity = 2
  MaxEvents = 4
  Statuses = {s1}
  Names = {n1, n2}
  Worktrees = {w1}
  Requests = {r1, r2}
  Fetches = {f1, f2}
  MaxRequests = 2
  MaxFailures = 1
SYMMETRY Symmetry
INVARIANTS
  TypeOK
  StaleNeedsLapse
  DanglingNeedsRace
PROPERTIES
  StreamIsExact
