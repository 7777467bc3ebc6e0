SPECIFICATION MCSpec
CONSTANTS
  Ids = {"c", "i"}
  Kind <- KindOf
  MaxRuns <- MaxRunsOf
  OnFailure <- OnFailureOf
  MaxAttempts = 1
  NoMax = 9
  MaxFires = 3
  MaxFaults = 1
  MaxCrashes = 1
  requester = requester
  v1 = v1
  v2 = v2
  a1 = a1
  a2 = a2
  a3 = a3
  t1 = t1
  t2 = t2
  torn = torn
SYMMETRY Symmetry
INVARIANTS AgentsHold SchedulesHold ConsentHolds
PROPERTIES OverIsOver
CHECK_DEADLOCK FALSE
