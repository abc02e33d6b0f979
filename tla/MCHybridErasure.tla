--------------------------- MODULE MCHybridErasure ---------------------------
(* Instances of HybridErasure for TLC.                                      *)
EXTENDS HybridErasure, TLC

CONSTANTS d1, d2, r1, r2, w1, w2, e1, e2

\* the second revision is longer than the first
MCChunksOf == r1 :> {1} @@ r2 :> {1, 2}

MCTenantOf == [d \in Docs |-> IF d = d1 THEN 1 ELSE 2]

\* writers and executors are told apart by no property
MCSymmetry == Permutations({w1, w2}) \cup Permutations({e1, e2})

=============================================================================
