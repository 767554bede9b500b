SPECIFICATION FleetSpec
CONSTANTS
  a1 = a1
  a2 = a2
  j1 = j1
  j2 = j2
  j3 = j3
  Accounts = {a1}
  Jobs = {j1}
  Workers = {w1, w2}
  AccountOf <- OneAccount
  Untested = {j1}
  STOP = STOP
  None = None
  MaxStops = 1
  RedisMayFail = TRUE
  Instances = {i1, i2}
  MaxConcurrentWorkers = 1
  ApiMayCrash = TRUE
  WorkersMayCrash = TRUE
SYMMETRY Symmetry
PROPERTIES ImplementsQueue
CHECK_DEADLOCK FALSE
