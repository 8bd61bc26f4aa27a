SPECIFICATION Spec
CONSTANTS
  Clients = {c1, c2}
  None = None
  MaxSockets = 3
  MaxSeq = 2
  MaxQueue = 2
SYMMETRY Symmetric
INVARIANTS TypeOK ControlComesBack OutputIsExact
CHECK_DEADLOCK FALSE
