---------------------------- MODULE MCPublisher ----------------------------
(***************************************************************************)
(* Constants of the TLC runs of Publisher: findings of every kind that     *)
(* matters, one blocking finding on an added line and one outside.         *)
(***************************************************************************)
EXTENDS Publisher, TLC

CONSTANTS majorIn, majorOut, minorIn

MCBlocking    == Findings \cap {majorIn, majorOut}
MCOnAddedLine == Findings \cap {majorIn, minorIn}

Symmetry == Permutations(Runs)
=============================================================================
