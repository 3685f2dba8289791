----------------------------- MODULE MCDeadlines -----------------------------
(***************************************************************************)
(* The TLC runs of Deadlines: the limits of the code and its defaults, in  *)
(* minutes.                                                                *)
(***************************************************************************)
EXTENDS Deadlines
=============================================================================
