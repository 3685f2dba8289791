------------------------------ MODULE MCEndToEnd ------------------------------
(***************************************************************************)
(* Constants of the TLC runs of EndToEnd: a run that is started by a       *)
(* delivery for one or the other of two heads of the pull request.         *)
(***************************************************************************)
EXTENDS EndToEnd, TLC

CONSTANTS d1, d2, k1, k2, p1

MCKeyOf  == d1 :> k1 @@ d2 :> k2
MCPROf   == d1 :> p1 @@ d2 :> p1
MCHeadOf == d1 :> 1 @@ d2 :> 2

MCPolicies == {[approvals |-> TRUE, inline |-> TRUE, fork |-> FALSE]}
=============================================================================
