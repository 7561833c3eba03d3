---------------------------- MODULE MCPipeline -----------------------------
(* A small instance of Pipeline: two symbols, the second one dearer. *)
EXTENDS Pipeline, TLC

MCPrice == <<1, 2>>
MCSize  == <<2, 1>>
Symmetry == Permutations(Runs)
=============================================================================
