SPECIFICATION HistSpec
CONSTANTS
  Keys = {"k1"}
  Requests = {"q1", "q2"}
  MaxRequests = 2
  Per = 2
  Minute = 3
  MaxClock = 6
  NoKey = NoKey
  NoBucket = NoBucket
CHECK_DEADLOCK FALSE
INVARIANTS
  LimTypeOK
  BurstIsBounded
PROPERTIES
  KeepsBucket
  RefusalIsEarned
