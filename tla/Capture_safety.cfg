SPECIFICATION Spec
CONSTANTS
  None = None
  D1 = D1
  D2 = D2
  C1 = C1
  C2 = C2
  Lookback = 12
  Calls = {C1, C2}
  Drains = {D1, D2}
  MaxFrames = 2
  MaxCached = 1
  MaxDrained = 2
CONSTANT Times <- MCTimes
CONSTANT Chart <- MCChart
CONSTANT Senders <- MCSenders
CONSTRAINTS FewUntrimmed FewCut
SYMMETRY Slots
INVARIANTS CaptureTypeOK HistoryIsLatest InOrderIsJudged NoCaptureLost
CHECK_DEADLOCK FALSE
