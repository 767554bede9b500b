SPECIFICATION Spec
CONSTANTS
  Calls = {c1, c2, c3, c4, c5}
  Emails = {e1, e2}
  Phones = {p1}
  Codes = {k1}
  None = None
SYMMETRY Symmetry
INVARIANTS TypeOK SessionsAreCurrent UsedTokenFails FactorConfirmed
CHECK_DEADLOCK FALSE
