------------------------------ MODULE MCQuotas ------------------------------
(* Quotas on small instances.                                              *)
EXTENDS Quotas, TLC

\* Small limits in the shape of the catalog.  An account without a row has no limit of
\* orders; a row that a payment inserts has limits of its own.
MCPlans == {[devices |-> 1, trades |-> 1], [devices |-> 2, trades |-> 2]}
MCPaidRow == [devices |-> 1, trades |-> 2]

Symmetry == Permutations(Calls) \cup Permutations(Phones)
=============================================================================
