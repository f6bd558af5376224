------------------------- MODULE MCValidatorRegistry -------------------------
(* Instances of ValidatorRegistry for TLC. *)
EXTENDS ValidatorRegistry

CONSTANTS v1, v2

Everyone(window) == [chain |-> "c1", mode |-> "all", keys |-> {}, window |-> window]
Selection(chain, K, window) ==
    [chain |-> chain, mode |-> "selected", keys |-> K, window |-> window]

(* A start finds the configuration of before or one that selects another   *)
(* validator, maybe of another chain. Validators do not meet in the        *)
(* registry but in its lock, so that one stands for all, and v2 for a key  *)
(* that is not its own.                                                    *)
ModeChanges == {Everyone(2), Selection("c1", {v1}, 2), Selection("c2", {v2}, 2)}
=============================================================================
