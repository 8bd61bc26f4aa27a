CONSTANTS
  d1 = d1  d2 = d2
  Daemons = {d1, d2}
  None = None  Gone = Gone  Plain = Plain
  MaxBundles = 3
  MaxFaults = 1
  MaxAges = 1
  MaxStops = 1
SPECIFICATION Spec
CHECK_DEADLOCK FALSE
INVARIANTS TypeOK BundleStays OneOrder StrandedNeedsLapse

PROPERTY CertificatesCome
