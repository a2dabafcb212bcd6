---------------------------- MODULE MCBlobStore ----------------------------
(***************************************************************************)
(* Instances of BlobStore for TLC.                                         *)
(***************************************************************************)
EXTENDS BlobStore, TLC

CONSTANTS a1, a2, a3, k1, k2, k3, k4, m1, m2

Symmetry == Permutations(Actors) \cup Permutations(Keys) \cup Permutations(Refs)

=============================================================================
