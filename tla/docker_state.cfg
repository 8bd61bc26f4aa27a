SPECIFICATION FairSpec
CONSTANTS
  c1 = c1
  Containers = {c1}
  Slots = {1, 2}
  MaxEvents = 2
  MaxFailures = 1
INVARIANTS
  TypeOK
  CacheFollowsEngine
PROPERTY SelfHealing
CHECK_DEADLOCK FALSE
