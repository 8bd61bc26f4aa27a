CONSTANTS
  Untitled = Untitled
  MaxSaves = 2
  Viewers = {c1}
  MaxEvents = 3
  MaxPending = 2
  MaxFaults = 1
  MaxRenames = 1
SPECIFICATION ActivitySpec
CONSTRAINT SavesApart
CHECK_DEADLOCK FALSE
INVARIANTS ActivityTypeOK StateFollowsAgent RecordFollowsMemory ResultsStayMarked
PROPERTIES UserTitlesStay InterruptedTurnsClear
