---------------------------- MODULE MCWorkerFleet ----------------------------
(* WorkerFleet on small instances.                                          *)
EXTENDS WorkerFleet, TLC

CONSTANTS a1, a2, j1, j2, j3   \* the accounts and requests of the instances

\* All requests for one account.
OneAccount == [j \in Jobs |-> a1]

\* j3 names another account.
TwoAccounts == [j \in Jobs |-> IF j = j3 THEN a2 ELSE a1]

\* Processes are interchangeable, and so are API instances.
Symmetry == Permutations(Workers) \cup Permutations(Instances)
=============================================================================
