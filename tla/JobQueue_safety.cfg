\* One account, two requests, two workers that both serve it, a STOP and Redis faults.
SPECIFICATION FairSpec
CONSTANTS
  a1 = a1
  a2 = a2
  j1 = j1
  j2 = j2
  j3 = j3
  Accounts = {a1}
  Jobs = {j1, j2}
  Workers = {w1, w2}
  AccountOf <- OneAccount
  Untested = {j2}
  STOP = STOP
  None = None
  MaxStops = 1
  RedisMayFail = TRUE
INVARIANTS TypeOK Custody AtMostOnce AnswerEarned NoMissedResult TakenInOrder
PROPERTIES ImplementsLifecycle RequestEnds QueueDrains
CHECK_DEADLOCK FALSE
