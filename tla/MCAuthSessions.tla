--------------------------- MODULE MCAuthSessions ---------------------------
(* AuthSessions on small instances.                                         *)
EXTENDS AuthSessions, TLC

Symmetry == Permutations(Calls) \cup Permutations(Emails)
=============================================================================
