---------------------------- MODULE MCProofFetch ----------------------------
(* Instances of ProofFetch for TLC. *)
EXTENDS ProofFetch
=============================================================================
