\* One account, three calls of any kind, three phones, one token, two days.
SPECIFICATION Spec
CONSTANTS
  Calls = {c1, c2, c3}
  Accounts = {a1}
  Phones = {p1, p2, p3}
  Tokens = {t1}
  Plans <- MCPlans
  PaidRow <- MCPaidRow
  MaxUses = 2
  Days = {0, 1}
  None = None
SYMMETRY Symmetry
INVARIANTS QuotasTypeOK UsedUpIsRefused OnlyRacesExceed
CHECK_DEADLOCK FALSE
