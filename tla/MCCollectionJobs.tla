-------------------------- MODULE MCCollectionJobs --------------------------
(* Small instances of CollectionJobs for TLC. *)
EXTENDS CollectionJobs, TLC

CONSTANTS j1, j2, s1, w1, w2

OneSource == j1 :> s1 @@ j2 :> s1

Symmetry == Permutations(Workers)
=============================================================================
