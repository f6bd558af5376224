---------------------------- MODULE MCDashboard ----------------------------
(* Instances of Dashboard for TLC. *)
EXTENDS Dashboard, TLC

CONSTANTS n1, n2

(* The nodes are configured in another order than the sorted one. *)
MCConfigured == <<n2, n1>>

MCRank == n1 :> 1 @@ n2 :> 2
=============================================================================
