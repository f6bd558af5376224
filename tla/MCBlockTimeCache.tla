-------------------------- MODULE MCBlockTimeCache --------------------------
(* Instances of BlockTimeCache for TLC. *)
EXTENDS BlockTimeCache

(* Two blocks may have the same time. *)
MCTimeOf == [h \in 1..MaxHeight |-> IF h = 3 THEN 4 ELSE 2 * h]
=============================================================================
