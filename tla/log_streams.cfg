SPECIFICATION Spec
CONSTANTS
  Clients = {c1, c2, c3}
  Services = {web}
  OwnChannels = {deployment}
  Aggregate = Aggregate
  None = None
  TailLines = 1
  Capacity = 1
  MaxChunks = 2
  MaxFollowers = 2
SYMMETRY Symmetric
INVARIANTS TypeOK FollowersFitStreams NoGapNoRepeat
CHECK_DEADLOCK FALSE
