SPECIFICATION Spec
CONSTANTS
  Streams = {w1}
  HistoryCapacity = 2
  MaxEvents = 3
  MaxTicks = 2
  MaxChanges = 2
  MaxOperations = 2
  MaxFaults = 1
INVARIANTS TypeOK StreamsAreComplete EventsAreReal
PROPERTY MonitorSettles
CHECK_DEADLOCK FALSE
