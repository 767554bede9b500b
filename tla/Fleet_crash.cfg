SPECIFICATION FleetSpec
CONSTANTS
  a1 = a1
  a2 = a2
  j1 = j1
  j2 = j2
  j3 = j3
  Accounts = {a1}
  Jobs = {j1}
  Workers = {w1, w2}
  AccountOf <- OneAccount
  Untested = {}
  STOP = STOP
  None = None
  MaxStops = 0
  RedisMayFail = FALSE
  Instances = {i1}
  MaxConcurrentWorkers = 1
  ApiMayCrash = TRUE
  WorkersMayCrash = FALSE
INVARIANTS OneWorkerPerAccount
CHECK_DEADLOCK FALSE
