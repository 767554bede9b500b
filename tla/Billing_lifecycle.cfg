SPECIFICATION Spec
CONSTANTS
  a1 = a1
  d1 = d1
  d2 = d2
  s1 = s1
  pay = pay
  fail = fail
  cancel = cancel
  other = other
  Accounts = {a1}
  Deliveries = {d1, d2, d3}
  Signups = {}
  Credentials = {d1, d2, d3}
  Tokens = {}
  Claims = {}
  None = None
  Events = {pay, fail, cancel, other}
  KindOf <- Kinds
  EventFor <- AllForOne
  CallsMayDie = FALSE
  MaxCalls = 3
PROPERTY StatusLifecycle
CHECK_DEADLOCK FALSE
