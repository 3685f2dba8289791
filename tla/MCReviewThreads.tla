--------------------------- MODULE MCReviewThreads ---------------------------
(***************************************************************************)
(* Symmetry for the TLC runs of ReviewThreads: concerns are alike.         *)
(***************************************************************************)
EXTENDS ReviewThreads

Symmetry == Permutations(Concerns)
=============================================================================
