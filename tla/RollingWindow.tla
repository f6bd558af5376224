---------------------------- MODULE RollingWindow ----------------------------
(***************************************************************************)
(* The time-based rolling window that holds a validator's participation    *)
(* (internal/window/window.go). A window is a value: the operators below   *)
(* are its methods, each of which the code runs under the window's lock.   *)
(* They hold no state and no recursion, so every module that keeps windows *)
(* can use them, in model checking and in proofs alike.                    *)
(*                                                                         *)
(* An item is [ts, signed, height]. The order of `items' is the order of   *)
(* the calls of Add, which is not always the order of the timestamps.      *)
(***************************************************************************)
EXTENDS Integers, Sequences, FiniteSets

Item == [ts : Nat, signed : BOOLEAN, height : Nat]

Window == [duration : Nat, items : Seq(Item), missed : Int]

(* NewRollingWindow: an empty window of the given duration. *)
NewWindow(duration) == [duration |-> duration, items |-> <<>>, missed |-> 0]

(* The blocks of a run of items in which the validator did not take part. *)
MissedPositions(items) == {i \in DOMAIN items : ~ items[i].signed}
MissedIn(items) == Cardinality(MissedPositions(items))

-----------------------------------------------------------------------------
(* Add *)

(* The pruning loop stops at the first item that is later than the cutoff, *)
(* so it removes the longest prefix of expired items and nothing behind a  *)
(* live one.                                                               *)
IsExpiredPrefix(items, cutoff, n) ==
    /\ \A i \in 1..n : items[i].ts <= cutoff
    /\ n < Len(items) => items[n + 1].ts > cutoff

(* Mutation: as many items are sliced off as have expired, wherever they   *)
(* stand in the slice.                                                     *)
ExpiredCount(items, cutoff) == Cardinality({i \in DOMAIN items : items[i].ts <= cutoff})

PruneCount(items, cutoff) ==
    CHOOSE n \in 0..Len(items) : IsExpiredPrefix(items, cutoff, n)

(* Mutation: missed is not decremented for the blocks pruned. *)
AddCountingUp(w, signed, ts, height) ==
    LET grown  == Append(w.items, [ts |-> ts, signed |-> signed, height |-> height])
        pruned == PruneCount(grown, ts - w.duration)
    IN  [w EXCEPT !.items  = SubSeq(grown, pruned + 1, Len(grown)),
                  !.missed = @ + (IF signed THEN 0 ELSE 1)]

Add(w, signed, ts, height) ==
    LET grown  == Append(w.items, [ts |-> ts, signed |-> signed, height |-> height])
        pruned == PruneCount(grown, ts - w.duration)
    IN  [w EXCEPT !.items  = SubSeq(grown, pruned + 1, Len(grown)),
                  !.missed = @ + (IF signed THEN 0 ELSE 1)
                               - MissedIn(SubSeq(grown, 1, pruned))]

-----------------------------------------------------------------------------
(* Queries *)

(* GetStats, without the ratio of the two numbers. *)
GetStats(w) ==
    IF w.items = <<>> THEN [missed |-> 0, total |-> 0]
                      ELSE [missed |-> w.missed, total |-> Len(w.items)]

(* GetLastSignedMissedHeights: the two scans from the newest item; an      *)
(* empty set is the code's false flag.                                     *)
LastHeightWhere(w, signed) ==
    LET at == {i \in DOMAIN w.items : w.items[i].signed = signed}
    IN  {w.items[i].height : i \in {k \in at : \A j \in at : j <= k}}

(* What GetBitmapLastNByHeight tells of a height: 1 is signed, 0 is missed,*)
(* 2 is unknown. Of two items of a height the later one counts.            *)
ShownAt(w, height) ==
    LET at == {i \in DOMAIN w.items : w.items[i].height = height}
    IN  IF at = {} THEN 2
        ELSE IF \E i \in at : w.items[i].signed /\ \A j \in at : j <= i THEN 1 ELSE 0

(* Mutation: the range begins one height early, and ends early with it. *)
BitmapFromEarlier(w, lastHeight, n) ==
    IF n <= 0 \/ lastHeight = 0 \/ w.items = <<>> THEN <<>>
    ELSE LET start == IF lastHeight > n THEN lastHeight - n ELSE 1
         IN  [i \in 1..(lastHeight - start) |-> ShownAt(w, start + i - 1)]

GetBitmapLastNByHeight(w, lastHeight, n) ==
    IF n <= 0 \/ lastHeight = 0 \/ w.items = <<>> THEN <<>>
    ELSE LET start == IF lastHeight > n THEN lastHeight - n + 1 ELSE 1
         IN  [i \in 1..(lastHeight - start + 1) |-> ShownAt(w, start + i - 1)]

(* The bitmap of the last n heights up to lastHeight has the items of the  *)
(* window that are among them at their places, and what it says of a       *)
(* height is whether it is one of those signed.                            *)
ShowsSigned(w, lastHeight, n, signedHeights) ==
    LET bits  == GetBitmapLastNByHeight(w, lastHeight, n)
        first == lastHeight - Len(bits) + 1
    IN  /\ \A i \in DOMAIN bits : bits[i] # 2 =>
                (bits[i] = 1) = (first + i - 1 \in signedHeights)
        /\ \A k \in DOMAIN w.items :
                LET h == w.items[k].height
                IN  h \in (lastHeight - n + 1)..lastHeight
                        => h - first + 1 \in DOMAIN bits /\ bits[h - first + 1] # 2

-----------------------------------------------------------------------------
(* Export and Restore *)

Export(w) == [duration |-> w.duration, items |-> w.items, missed |-> w.missed]

(* Restore overwrites the whole window, the configured duration included. *)
Restore(w, snapshot) ==
    [w EXCEPT !.duration = snapshot.duration,
              !.missed   = snapshot.missed,
              !.items    = snapshot.items]
=============================================================================
