------------------------------ MODULE MCApiKeys ------------------------------
(* ApiKeys on small instances.                                              *)
EXTENDS ApiKeys, FiniteSets, TLC

CONSTANTS MaxActors, MaxExpired

\* At most MaxActors calls and starts have begun, and MaxExpired keys have expired.
FewActors ==
  /\ Cardinality({c \in Calls : call[c].at # "idle"})
       + Cardinality({s \in Starts : start[s].at # "down"}) <= MaxActors
  /\ Cardinality({k \in Keys : key[k].expired}) <= MaxExpired

Symmetry == Permutations(Calls) \cup Permutations(Starts)
=============================================================================
