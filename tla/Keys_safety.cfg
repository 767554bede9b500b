\* Any four of three calls and two starts of an API process, one bootstrap key.
SPECIFICATION Spec
CONSTANTS
  Calls = {c1, c2, c3}
  Starts = {s1, s2}
  Boots = {b1}
  Accounts = {a1}
  None = None
  MaxActors = 4
  MaxExpired = 1
CONSTRAINT FewActors
SYMMETRY Symmetry
INVARIANTS TypeOK ClosedIsRefused RotatedHasReplacement
PROPERTIES BootstrapKeepsAdmin
CHECK_DEADLOCK FALSE
