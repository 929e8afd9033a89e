------------------------ MODULE MCReferenceResolver ------------------------
(* ReferenceResolver on small instances. *)
EXTENDS ReferenceResolver

CONSTANTS r1, r2, r3, t1, t2, s1, s2

Symmetry ==
  Permutations(Refs) \cup Permutations(Threads) \cup Permutations(Shards)

=============================================================================
