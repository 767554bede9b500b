SPECIFICATION Spec
CONSTANTS
  a1 = a1
  d1 = d1
  d2 = d2
  s1 = s1
  pay = pay
  fail = fail
  cancel = cancel
  other = other
  Accounts = {a1}
  Deliveries = {d1, d2}
  Signups = {s1}
  Credentials = {d1, d2, s1}
  Tokens = {}
  Claims = {}
  None = None
  Events = {pay, fail, cancel, other}
  KindOf <- Kinds
  EventFor <- AllForOne
  CallsMayDie = FALSE
  MaxCalls = 3
INVARIANT PaidMayConnect
CHECK_DEADLOCK FALSE
