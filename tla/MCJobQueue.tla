----------------------------- MODULE MCJobQueue -----------------------------
(* JobQueue on small instances: values for the constants TLC cannot be     *)
(* given in a configuration file.                                          *)
EXTENDS JobQueue, TLC

CONSTANTS a1, a2, j1, j2, j3   \* the accounts and requests of the instances

\* All requests for one account: the requests compete for its workers.
OneAccount == [j \in Jobs |-> a1]

\* j3 names another account, which the same workers may serve.
TwoAccounts == [j \in Jobs |-> IF j = j3 THEN a2 ELSE a1]

Symmetry == Permutations(Workers)
=============================================================================
