----------------------- MODULE MCValidatorCollection -----------------------
(* ValidatorCollection on small instances. *)
EXTENDS ValidatorCollection, TLC

CONSTANTS t1, t2, k1, k2

Symmetry == Permutations(Threads) \cup Permutations(Ids)

=============================================================================
