----------------------------- MODULE MCDiffParser -----------------------------
(***************************************************************************)
(* Constants of the TLC runs of DiffParser: files with plain names and, in *)
(* the first run, one whose name git quotes.                               *)
(***************************************************************************)
EXTENDS DiffParser

CONSTANTS a, b, u, quoted

MCName == [f \in Files |-> IF f = u THEN quoted ELSE f]
=============================================================================
