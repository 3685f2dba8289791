------------------------------- MODULE MCMomos -------------------------------
(***************************************************************************)
(* Constants of the TLC runs of MomosService: three deliveries for one     *)
(* pull request, two of them for the same head.                            *)
(***************************************************************************)
EXTENDS MomosService, TLC

CONSTANTS d1, d2, d3, k1, k2, p1

MCKeyOf == [d \in Deliveries |-> IF d = d3 THEN k2 ELSE k1]
MCPROf  == [d \in Deliveries |-> p1]

Symmetry == Permutations(Runs)
=============================================================================
