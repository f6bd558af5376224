--------------------------- MODULE MCBlockPipeline ---------------------------
(* Instances of BlockPipeline for TLC. *)
EXTENDS BlockPipeline, TLC

(* Goroutines and nodes are interchangeable; no liveness property is       *)
(* checked with this symmetry.                                             *)
Symmetric == Permutations(Nodes) \cup Permutations(Workers)
=============================================================================
