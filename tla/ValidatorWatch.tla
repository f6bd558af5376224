--------------------------- MODULE ValidatorWatch ---------------------------
(***************************************************************************)
(* What the watchtower promises of a validator, without listeners,         *)
(* channel, goroutines and windows: it gets to know blocks of the chain,   *)
(* each with the truth about the validator's signature, it brings the      *)
(* validator down only on the evidence of enough different blocks that the *)
(* validator missed, and up only on that of one it signed. BlockPipeline   *)
(* is shown to keep it.                                                    *)
(***************************************************************************)
EXTENDS Naturals, FiniteSets

CONSTANTS Validators, MaxHeight, MinBlocks

VARIABLES
    head,    \* height of the newest block of the chain
    signers, \* the validators that signed each block
    known,   \* the heights known of each validator
    down,    \* Down of each validator
    resets   \* how often the memory of the heights seen was thrown away

vars == <<head, signers, known, down, resets>>

Init ==
    /\ head = 0
    /\ signers = [h \in 1..MaxHeight |-> {}]
    /\ known = [v \in Validators |-> {}]
    /\ down = [v \in Validators |-> FALSE]
    /\ resets = 0

(* The chain goes on; the blocks it has do not change any more. *)
Produce ==
    /\ head' = head + 1
    /\ \E S \in SUBSET Validators : signers' = [signers EXCEPT ![head + 1] = S]
    /\ UNCHANGED <<known, down, resets>>

Forget ==
    /\ resets' = resets + 1
    /\ UNCHANGED <<head, signers, known, down>>

Learn(v) ==
    /\ \E h \in 1..head : known' = [known EXCEPT ![v] = @ \cup {h}]
    /\ UNCHANGED <<head, signers, down, resets>>

Missed(v) == {h \in known[v] : v \notin signers[h]}

(* A block may have been counted once more for each reset, so that the     *)
(* blocks counted are so many times the different ones at most.            *)
BringDown(v) ==
    /\ Cardinality(Missed(v)) * (resets + 1) >= MinBlocks
    /\ down' = [down EXCEPT ![v] = TRUE]
    /\ UNCHANGED <<head, signers, known, resets>>

BringUp(v) ==
    /\ \E h \in known[v] : v \in signers[h]
    /\ down' = [down EXCEPT ![v] = FALSE]
    /\ UNCHANGED <<head, signers, known, resets>>

Next ==
    \/ Produce
    \/ Forget
    \/ \E v \in Validators : Learn(v) \/ BringDown(v) \/ BringUp(v)

Spec == Init /\ [][Next]_vars
=============================================================================
