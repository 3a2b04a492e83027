----------------------------- MODULE MCSlabCache ----------------------------
(* Instances of SlabCache for TLC. *)
EXTENDS SlabCache, TLC

Symmetry == Permutations(Threads) \cup Permutations(Caches)
=============================================================================
