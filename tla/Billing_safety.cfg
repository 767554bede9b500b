SPECIFICATION Spec
CONSTANTS
  a1 = a1
  d1 = d1
  d2 = d2
  s1 = s1
  pay = pay
  fail = fail
  cancel = cancel
  other = other
  Accounts = {a1}
  Deliveries = {d1, d2}
  Signups = {s1}
  Credentials = {d1, d2, s1}
  Tokens = {t1, t2}
  Claims = {c1, c2}
  None = None
  Events = {pay, fail, cancel, other}
  KindOf <- Kinds
  EventFor <- AllForOne
  CallsMayDie = TRUE
  MaxCalls = 3
CONSTRAINT FewCalls
SYMMETRY Symmetry
INVARIANTS BillingTypeOK ActivationHasKey AppliedOnce PortalTokenKept CanceledIsDisconnected ReplayGetsNothing UnusedTokenSurvives
CHECK_DEADLOCK FALSE
