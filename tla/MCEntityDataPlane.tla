--------------------------- MODULE MCEntityDataPlane ---------------------------
(* EntityDataPlane with overlapping requests, for TLC.                        *)
EXTENDS EntityDataPlane, TLC

Symmetry == Permutations(Threads) \cup Permutations(Regions) \cup Permutations(Ids)
            \cup Permutations(Fields) \cup Permutations(Tenants)
            \cup Permutations(StoreIds) \cup Permutations(Records)
===============================================================================
