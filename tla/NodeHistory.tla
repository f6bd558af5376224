---------------------------- MODULE NodeHistory ----------------------------
(***************************************************************************)
(* What the score of a node remembers, without its ring: the last Size     *)
(* results of proof requests, the oldest first (TRUE is a success). It is  *)
(* the promise behind NodeScore (internal/rpc/manager.go), which           *)
(* ProofFetch is shown to keep.                                            *)
(***************************************************************************)
EXTENDS Naturals, Sequences

CONSTANTS Nodes, Size

VARIABLE last

Init == last = [n \in Nodes |-> <<>>]

(* A result is appended, and the oldest goes when there are Size already.  *)
Remembered(results, r) ==
    IF Len(results) < Size THEN Append(results, r) ELSE Append(Tail(results), r)

Record(n, r) == last' = [last EXCEPT ![n] = Remembered(@, r)]

Next == \E n \in Nodes, r \in BOOLEAN : Record(n, r)

Spec == Init /\ [][Next]_last
=============================================================================
