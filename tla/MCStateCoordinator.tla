------------------------ MODULE MCStateCoordinator ------------------------
(* Small instances of StateCoordinator. *)
EXTENDS StateCoordinator, TLC
CONSTANTS c1, c2, k1, k2, b1, b2, b3, none

Once == [c \in Clients |-> 1]
\* One client calls twice, so that it may retain or reuse a batch identity.
OneRetries == [c \in Clients |-> IF c = c1 THEN 2 ELSE 1]

\* No action and no safety property names a record or a batch identity.
Interchangeable == Permutations(Keys) \cup Permutations(Batches)
=============================================================================
