--------------------------- MODULE MCAlertManager ---------------------------
(* AlertManager for TLC: the validator v1 and the node n1.                 *)
EXTENDS AlertManager

CONSTANTS v1, n1
=============================================================================
