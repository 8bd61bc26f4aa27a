SPECIFICATION HandlerSpec
CONSTANTS
  Requests = {r1, r2}
  TheSession = s1
  Sessions <- MCSessions
  SessionOf <- MCSessionOf
  None = None
INVARIANTS TypeOK ControlIsHolder SurfacesMatch LeaksNeedALapse
PROPERTIES LockRefined RequestsEnd StopDuringSetup
CHECK_DEADLOCK FALSE
