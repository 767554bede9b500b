\* One API process with one slot for two accounts, crashing workers, a STOP.
SPECIFICATION FairFleetSpec
CONSTANTS
  a1 = a1
  a2 = a2
  j1 = j1
  j2 = j2
  j3 = j3
  Accounts = {a1, a2}
  Jobs = {j1, j2}
  Workers = {w1, w2}
  AccountOf <- TwoAccounts
  Untested = {j2}
  STOP = STOP
  None = None
  MaxStops = 1
  RedisMayFail = FALSE
  Instances = {i1}
  MaxConcurrentWorkers = 1
  ApiMayCrash = FALSE
  WorkersMayCrash = TRUE
INVARIANTS FleetTypeOK OneWorkerPerAccount NoInvisibleWorker StopIsEffective OwnCredentials RunInOrder WithinLimit
PROPERTIES StoppedWorkerExits
CHECK_DEADLOCK FALSE
