SPECIFICATION Spec
CONSTANTS
  Requests = {r1, r2}
  TheSession = s1
  Sessions <- MCSessions
  SessionOf <- MCSessionOf
  None = None
SYMMETRY Symmetric
INVARIANT DownStopsWhatItInterrupted
CHECK_DEADLOCK FALSE
