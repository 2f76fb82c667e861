--------------------------- MODULE MCCachedBodies ---------------------------
(* Instances of CachedBodies for TLC. *)
EXTENDS CachedBodies, TLC

(* The flows are interchangeable. *)
Symmetry == Permutations(Flows)
=============================================================================
