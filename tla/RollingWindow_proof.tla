------------------------- MODULE RollingWindow_proof -------------------------
(***************************************************************************)
(* What the operators of RollingWindow return, for every window: the       *)
(* lemmas that the proofs about its users cite.                            *)
(***************************************************************************)
EXTENDS RollingWindow, FiniteSetTheorems, SequenceTheorems, WellFoundedInduction,
        TLAPS

-----------------------------------------------------------------------------
(* Counting missed blocks *)

(* The missed blocks of a run of items are finitely many, none of an empty *)
(* run.                                                                    *)
LEMMA MissedInType ==
    ASSUME NEW s \in Seq(Item)
    PROVE  /\ IsFiniteSet(MissedPositions(s))
           /\ MissedIn(s) \in Nat
           /\ MissedIn(s) <= Len(s)
           /\ MissedIn(s) = Len(s) => \A i \in DOMAIN s : ~ s[i].signed
<1>1. /\ Len(s) \in Nat
      /\ DOMAIN s = 1..Len(s)
  BY LenProperties
<1>2. /\ IsFiniteSet(1..Len(s))
      /\ Cardinality(1..Len(s)) = Len(s)
  <2>1. /\ IsFiniteSet(1..Len(s))
        /\ Cardinality(1..Len(s)) = IF 1 > Len(s) THEN 0 ELSE Len(s) - 1 + 1
    BY <1>1, FS_Interval
  <2>2. QED BY <1>1, <2>1
<1>3. MissedPositions(s) \in SUBSET (1..Len(s))
  BY <1>1 DEF MissedPositions
<1>4. /\ IsFiniteSet(MissedPositions(s))
      /\ Cardinality(MissedPositions(s)) <= Len(s)
      /\ Len(s) = Cardinality(MissedPositions(s)) => 1..Len(s) = MissedPositions(s)
  BY <1>2, <1>3, FS_Subset
<1>5. Cardinality(MissedPositions(s)) \in Nat
  BY <1>4, FS_CardinalityType
<1>6. QED
  BY <1>1, <1>4, <1>5 DEF MissedIn, MissedPositions

(* Appending an item counts it. *)
LEMMA MissedInAppend ==
    ASSUME NEW s \in Seq(Item), NEW x \in Item
    PROVE  MissedIn(Append(s, x)) = MissedIn(s) + (IF x.signed THEN 0 ELSE 1)
<1> DEFINE t == Append(s, x)
           n == Len(s) + 1
<1>1. /\ Len(s) \in Nat
      /\ DOMAIN s = 1..Len(s)
  BY LenProperties
<1>2. /\ t \in Seq(Item)
      /\ Len(t) = n
      /\ \A i \in 1..Len(s) : t[i] = s[i]
      /\ t[n] = x
  BY AppendProperties
<1>3. DOMAIN t = 1..n
  BY <1>2, LenProperties
<1>4. x.signed \in BOOLEAN
  BY DEF Item
<1>5. CASE x.signed
  <2>1. MissedPositions(t) = MissedPositions(s)
    BY <1>1, <1>2, <1>3, <1>5 DEF MissedPositions
  <2>2. QED BY <1>5, <2>1, MissedInType DEF MissedIn
<1>6. CASE ~ x.signed
  <2>1. MissedPositions(t) = MissedPositions(s) \cup {n}
    BY <1>1, <1>2, <1>3, <1>6 DEF MissedPositions
  <2>2. n \notin MissedPositions(s)
    BY <1>1 DEF MissedPositions
  <2>3. Cardinality(MissedPositions(s) \cup {n}) = Cardinality(MissedPositions(s)) + 1
    BY <2>2, MissedInType, FS_AddElement
  <2>4. QED BY <1>6, <2>1, <2>3 DEF MissedIn
<1>7. QED BY <1>4, <1>5, <1>6

(* Cutting a run of items in two loses and invents no missed block. *)
LEMMA MissedInSplit ==
    ASSUME NEW s \in Seq(Item), NEW p \in 0..Len(s)
    PROVE  MissedIn(s) = MissedIn(SubSeq(s, 1, p)) + MissedIn(SubSeq(s, p + 1, Len(s)))
<1> DEFINE a == SubSeq(s, 1, p)
           b == SubSeq(s, p + 1, Len(s))
           A == MissedPositions(a)
           B == MissedPositions(b)
           C == MissedPositions(s) \ A
           shift == [i \in C |-> i - p]
<1>1. /\ Len(s) \in Nat
      /\ DOMAIN s = 1..Len(s)
      /\ p \in Nat
      /\ p <= Len(s)
  BY LenProperties
<1>2. \A i \in 1..Len(s) : s[i] \in Item
  BY ElementOfSeq
<1>3. /\ a \in Seq(Item)
      /\ Len(a) = p
      /\ \A i \in 1..p : a[i] = s[i]
  <2>1. /\ a \in Seq(Item)
        /\ Len(a) = IF 1 <= p THEN p - 1 + 1 ELSE 0
        /\ \A i \in 1..(p - 1 + 1) : a[i] = s[1 + i - 1]
    <3>1. \A i \in 1..p : s[i] \in Item
      BY <1>1, <1>2
    <3>2. QED BY <1>1, <3>1, SubSeqProperties
  <2>2. QED BY <1>1, <2>1
<1>4. /\ b \in Seq(Item)
      /\ Len(b) = Len(s) - p
      /\ \A i \in 1..(Len(s) - p) : b[i] = s[p + i]
  <2>1. /\ b \in Seq(Item)
        /\ Len(b) = IF p + 1 <= Len(s) THEN Len(s) - (p + 1) + 1 ELSE 0
        /\ \A i \in 1..(Len(s) - (p + 1) + 1) : b[i] = s[(p + 1) + i - 1]
    <3>1. \A i \in (p + 1)..Len(s) : s[i] \in Item
      BY <1>1, <1>2
    <3>2. QED BY <1>1, <3>1, SubSeqProperties
  <2>2. Len(s) - (p + 1) + 1 = Len(s) - p
    BY <1>1
  <2>3. ASSUME NEW i \in 1..(Len(s) - p) PROVE b[i] = s[p + i]
    <3>1. (p + 1) + i - 1 = p + i
      BY <1>1
    <3>2. QED BY <2>1, <2>2, <3>1
  <2>4. Len(b) = Len(s) - p
    <3> HIDE DEF a, b, A, B, C, shift
    <3>1. Len(b) = IF p + 1 <= Len(s) THEN Len(s) - (p + 1) + 1 ELSE 0
      BY <2>1
    <3>2. CASE p + 1 <= Len(s)
      BY <2>2, <3>1, <3>2
    <3>3. CASE p = Len(s)
      BY <1>1, <3>1, <3>3
    <3>4. p + 1 <= Len(s) \/ p = Len(s)
      <4> DEFINE l == Len(s)
      <4>1. l \in Nat /\ p \in Nat /\ p <= l
        BY <1>1
      <4> HIDE DEF l
      <4>2. p + 1 <= l \/ p = l
        BY <4>1
      <4>3. QED BY <4>2 DEF l
    <3>5. QED BY <3>2, <3>3, <3>4
  <2>5. QED BY <2>1, <2>3, <2>4
<1>5. /\ DOMAIN a = 1..p
      /\ DOMAIN b = 1..(Len(s) - p)
  BY <1>3, <1>4, LenProperties
<1>6. A = {i \in MissedPositions(s) : i <= p}
  BY <1>1, <1>3, <1>5 DEF MissedPositions
<1>7. C = {i \in MissedPositions(s) : i > p}
  BY <1>1, <1>6 DEF MissedPositions
<1>8. /\ B \subseteq 1..(Len(s) - p)
      /\ \A j \in 1..(Len(s) - p) : j \in B <=> p + j \in C
  <2>1. B = {j \in 1..(Len(s) - p) : ~ s[p + j].signed}
    BY <1>4, <1>5 DEF MissedPositions
  <2>2. \A j \in 1..(Len(s) - p) : p + j \in C <=> ~ s[p + j].signed
    BY <1>1, <1>7 DEF MissedPositions
  <2>3. QED BY <2>1, <2>2
<1>9. /\ IsFiniteSet(MissedPositions(s))
      /\ IsFiniteSet(A)
      /\ IsFiniteSet(B)
      /\ IsFiniteSet(C)
  BY <1>3, <1>4, MissedInType, FS_Subset
<1>10. Cardinality(C) = Cardinality(B)
  <2>1. C \subseteq Nat /\ \A i \in C : i - p \in B
    <3>1. ASSUME NEW i \in C PROVE i \in Nat /\ i - p \in B
      <4>1. i \in 1..Len(s) /\ i > p
        BY <1>1, <1>7 DEF MissedPositions
      <4>2. i - p \in 1..(Len(s) - p) /\ p + (i - p) = i
        BY <1>1, <4>1
      <4>3. QED BY <1>8, <4>1, <4>2
    <3>2. QED BY <3>1
  <2>2. shift \in Injection(C, B)
    BY <1>1, <2>1 DEF Injection, IsInjective
  <2>3. shift \in Surjection(C, B)
    <3>1. ASSUME NEW j \in B PROVE \E i \in C : shift[i] = j
      BY <1>1, <1>8
    <3>2. QED BY <2>1, <3>1 DEF Surjection
  <2>4. ExistsBijection(C, B)
    BY <2>2, <2>3 DEF ExistsBijection, Bijection
  <2>5. QED BY <1>9, <2>4, FS_Bijection
<1>11. Cardinality(MissedPositions(s)) = Cardinality(A) + Cardinality(C)
  <2>1. MissedPositions(s) = A \cup C /\ A \cap C = {}
    BY <1>6
  <2>2. Cardinality(A \cup C) = Cardinality(A) + Cardinality(C) - Cardinality(A \cap C)
    BY <1>9, FS_Union
  <2>3. Cardinality(A \cap C) = 0
    BY <2>1, FS_EmptySet
  <2>4. Cardinality(A) \in Nat /\ Cardinality(C) \in Nat
    BY <1>9, FS_CardinalityType
  <2>5. Cardinality(MissedPositions(s)) = Cardinality(A) + Cardinality(C) - 0
    <3> HIDE DEF A, C
    <3>1. QED BY <2>1, <2>2, <2>3
  <2>6. QED BY <2>4, <2>5
<1>12. QED
  BY <1>10, <1>11 DEF MissedIn
-----------------------------------------------------------------------------
(* Adding to a window *)

(* The pruning loop ends: a longest expired prefix exists, and PruneCount  *)
(* is the length of it.                                                    *)
LEMMA PruneCountProperties ==
    ASSUME NEW s \in Seq(Item), NEW cutoff \in Int
    PROVE  /\ PruneCount(s, cutoff) \in 0..Len(s)
           /\ IsExpiredPrefix(s, cutoff, PruneCount(s, cutoff))
<1> DEFINE Live == {n \in 0..Len(s) : n < Len(s) => s[n + 1].ts > cutoff}
<1>1. Len(s) \in Nat /\ \A i \in 1..Len(s) : s[i].ts \in Nat
  <2>1. \A i \in 1..Len(s) : s[i] \in Item
    BY ElementOfSeq
  <2>2. QED BY <2>1, LenProperties DEF Item
<1>2. PICK m \in Live : \A k \in Live : ~ (k < m)
  <2>1. Len(s) \in Live
    BY <1>1
  <2>2. \E m \in Live : \A k \in Live : ~ (<<k, m>> \in OpToRel(<, Nat))
    <3>1. Live \subseteq Nat
      BY <1>1
    <3>2. QED BY <2>1, <3>1, NatLessThanWellFounded, WFMin
  <2>3. \A k, m \in Live : k < m => <<k, m>> \in OpToRel(<, Nat)
    BY <1>1 DEF OpToRel
  <2>4. QED BY <2>2, <2>3
<1>3. \A i \in 1..m : s[i].ts <= cutoff
  <2>1. SUFFICES ASSUME NEW i \in 1..m, ~ (s[i].ts <= cutoff) PROVE FALSE
    OBVIOUS
  <2>2. i \in 1..Len(s) /\ i - 1 \in 0..Len(s) /\ i - 1 < m /\ (i - 1) + 1 = i
    BY <1>1, <1>2
  <2>3. i - 1 \in Live
    BY <1>1, <2>1, <2>2
  <2>4. QED BY <1>2, <2>2, <2>3
<1>4. m \in 0..Len(s) /\ IsExpiredPrefix(s, cutoff, m)
  BY <1>2, <1>3 DEF IsExpiredPrefix
<1>5. QED
  BY <1>4 DEF PruneCount

(* The window slides: x comes in behind, some items go in front, and the   *)
(* others keep their order.                                                *)
SlidOn(items, newItems, x) ==
    \E p \in 0..Len(items) :
        /\ DOMAIN newItems = 1..(Len(items) + 1 - p)
        /\ \A i \in DOMAIN newItems :
              newItems[i] = IF p + i = Len(items) + 1 THEN x ELSE items[p + i]

(* The window renews its items: x is in it, everything later than the      *)
(* cutoff stays, and nothing else appears.                                 *)
Renewed(items, newItems, x, cutoff) ==
    /\ \E i \in DOMAIN newItems : newItems[i] = x
    /\ \A i \in DOMAIN newItems :
          \/ newItems[i] = x
          \/ \E j \in DOMAIN items : newItems[i] = items[j]
    /\ \A j \in DOMAIN items : items[j].ts > cutoff
          => \E i \in DOMAIN newItems : newItems[i] = items[j]

(* What Add does to a window: the new item is in it, every item that is    *)
(* within the duration of the new one stays, nothing else appears, a       *)
(* missed counter that was exact stays exact, and the order stays.         *)
LEMMA AddProperties ==
    ASSUME NEW w \in Window, w.duration \in Nat \ {0},
           NEW signed \in BOOLEAN, NEW ts \in Nat, NEW height \in Nat,
           NEW x, x = [ts |-> ts, signed |-> signed, height |-> height],
           NEW new, new = Add(w, signed, ts, height)
    PROVE  /\ new \in Window
           /\ new.duration = w.duration
           /\ Renewed(w.items, new.items, x, ts - w.duration)
           /\ w.missed = MissedIn(w.items) => new.missed = MissedIn(new.items)
           /\ SlidOn(w.items, new.items, x)
<1> DEFINE grown == Append(w.items, x)
           p     == PruneCount(grown, ts - w.duration)
           n     == Len(w.items)
           kept  == SubSeq(grown, p + 1, Len(grown))
<1>1. /\ w.items \in Seq(Item)
      /\ x \in Item
      /\ n \in Nat
      /\ DOMAIN w.items = 1..n
      /\ ts - w.duration \in Int
  BY LenProperties DEF Window, Item
<1>2. /\ grown \in Seq(Item)
      /\ Len(grown) = n + 1
      /\ \A i \in 1..n : grown[i] = w.items[i]
      /\ grown[n + 1] = x
  BY <1>1, AppendProperties
<1>3. /\ p \in 0..Len(grown)
      /\ IsExpiredPrefix(grown, ts - w.duration, p)
  BY <1>1, <1>2, PruneCountProperties
<1>4. p \in 0..n
  <2>1. p # n + 1
    <3>1. SUFFICES ASSUME p = n + 1 PROVE FALSE
      OBVIOUS
    <3>2. n + 1 \in 1..p
      BY <1>1, <3>1
    <3>3. grown[n + 1].ts <= ts - w.duration
      BY <1>3, <3>2 DEF IsExpiredPrefix
    <3>4. x.ts = ts
      OBVIOUS
    <3>5. QED BY <1>2, <3>3, <3>4
  <2>2. QED BY <1>1, <1>2, <1>3, <2>1
<1>5. new = [w EXCEPT !.items = kept,
                      !.missed = @ + (IF signed THEN 0 ELSE 1)
                                   - MissedIn(SubSeq(grown, 1, p))]
  BY DEF Add
<1>6. /\ kept \in Seq(Item)
      /\ Len(kept) = n + 1 - p
      /\ \A i \in 1..(n + 1 - p) : kept[i] = grown[p + i]
  <2>1. \A i \in (p + 1)..Len(grown) : grown[i] \in Item
    <3>1. \A i \in 1..Len(grown) : grown[i] \in Item
      BY <1>2, ElementOfSeq
    <3> HIDE DEF grown, p
    <3>2. QED BY <1>1, <1>4, <3>1
  <2>2. p + 1 \in Int /\ Len(grown) \in Int
    BY <1>1, <1>2, <1>4
  <2>3. /\ kept \in Seq(Item)
        /\ Len(kept) = IF p + 1 <= Len(grown) THEN Len(grown) - (p + 1) + 1 ELSE 0
        /\ \A i \in 1..(Len(grown) - (p + 1) + 1) : kept[i] = grown[(p + 1) + i - 1]
    <3> HIDE DEF grown, p
    <3>1. QED BY <2>1, <2>2, SubSeqProperties
  <2> HIDE DEF grown, p, kept, n
  <2>4. Len(grown) - (p + 1) + 1 = n + 1 - p /\ p + 1 <= Len(grown)
    BY <1>1, <1>2, <1>4
  <2>5. ASSUME NEW i \in 1..(n + 1 - p) PROVE kept[i] = grown[p + i]
    <3>1. (p + 1) + i - 1 = p + i
      BY <1>1, <1>4
    <3>2. QED BY <2>3, <2>4, <3>1
  <2>6. Len(kept) = n + 1 - p
    <3>1. Len(kept) = Len(grown) - (p + 1) + 1
      BY <2>3, <2>4
    <3>2. QED BY <2>4, <3>1
  <2>7. QED BY <2>3, <2>5, <2>6
<1>7. DOMAIN kept = 1..(n + 1 - p)
  BY <1>6, LenProperties
<1>8. /\ new.items = kept
      /\ new.duration = w.duration
      /\ new.missed = w.missed + (IF signed THEN 0 ELSE 1)
                               - MissedIn(SubSeq(grown, 1, p))
  BY <1>5 DEF Window
<1>9. /\ SubSeq(grown, 1, p) \in Seq(Item)
      /\ MissedIn(grown) = MissedIn(SubSeq(grown, 1, p)) + MissedIn(kept)
  <2>1. \A i \in 1..p : grown[i] \in Item
    BY <1>1, <1>2, <1>4, ElementOfSeq
  <2>2. SubSeq(grown, 1, p) \in Seq(Item)
    <3> HIDE DEF grown, p
    <3>1. p \in Int
      BY <1>1, <1>4
    <3>2. QED BY <2>1, <3>1, SubSeqProperties
  <2>3. QED
    BY <1>2, <1>3, <2>2, MissedInSplit
<1>10. new \in Window
  <2>1. MissedIn(SubSeq(grown, 1, p)) \in Nat
    BY <1>9, MissedInType
  <2>2. w.missed + (IF signed THEN 0 ELSE 1) - MissedIn(SubSeq(grown, 1, p)) \in Int
    BY <2>1 DEF Window
  <2>3. QED BY <1>5, <1>6, <2>2 DEF Window
<1>11. \E i \in DOMAIN new.items : new.items[i] = x
  <2>1. n + 1 - p \in 1..(n + 1 - p) /\ p + (n + 1 - p) = n + 1
    BY <1>1, <1>4
  <2>2. kept[n + 1 - p] = x
    BY <1>2, <1>6, <2>1
  <2>3. QED BY <1>7, <1>8, <2>1, <2>2
<1>12. ASSUME NEW i \in DOMAIN new.items
       PROVE  \/ new.items[i] = x
              \/ \E j \in DOMAIN w.items : new.items[i] = w.items[j]
  <2>1. i \in 1..(n + 1 - p) /\ new.items[i] = grown[p + i]
    BY <1>6, <1>7, <1>8
  <2>2. p + i = n + 1 \/ p + i \in 1..n
    <3> HIDE DEF p, n
    <3>1. i \in 1..(n + 1 - p)
      BY <2>1
    <3>2. QED BY <1>1, <1>4, <3>1
  <2>3. QED BY <1>1, <1>2, <2>1, <2>2
<1>13. ASSUME NEW j \in DOMAIN w.items, w.items[j].ts > ts - w.duration
       PROVE  \E i \in DOMAIN new.items : new.items[i] = w.items[j]
  <2>1. j \in 1..n /\ grown[j] = w.items[j] /\ w.items[j].ts \in Int
    <3>1. j \in 1..n /\ grown[j] = w.items[j]
      BY <1>1, <1>2
    <3>2. w.items[j] \in Item
      BY <1>1, <3>1, ElementOfSeq
    <3>3. QED BY <3>1, <3>2 DEF Item
  <2>2. ~ (j \in 1..p)
    <3>1. ASSUME j \in 1..p PROVE FALSE
      <4>1. w.items[j].ts <= ts - w.duration
        BY <1>3, <2>1, <3>1 DEF IsExpiredPrefix
      <4>2. QED BY <1>1, <1>13, <2>1, <4>1
    <3>2. QED BY <3>1
  <2>3. j - p \in 1..(n + 1 - p) /\ p + (j - p) = j
    BY <1>1, <1>4, <2>1, <2>2
  <2>4. kept[j - p] = w.items[j]
    BY <1>6, <2>1, <2>3
  <2>5. QED BY <1>7, <1>8, <2>3, <2>4
<1>14. ASSUME w.missed = MissedIn(w.items) PROVE new.missed = MissedIn(new.items)
  <2>1. MissedIn(grown) = MissedIn(w.items) + (IF signed THEN 0 ELSE 1)
    <3>1. x.signed = signed
      OBVIOUS
    <3>2. QED BY <1>1, <3>1, MissedInAppend
  <2>2. /\ MissedIn(SubSeq(grown, 1, p)) \in Nat
        /\ MissedIn(kept) \in Nat
        /\ MissedIn(w.items) \in Nat
    BY <1>1, <1>6, <1>9, MissedInType
  <2> HIDE DEF kept, grown, p
  <2>3. QED BY <1>8, <1>9, <1>14, <2>1, <2>2
<1>15. SlidOn(w.items, new.items, x)
  <2>1. ASSUME NEW i \in 1..(n + 1 - p)
        PROVE  new.items[i] = IF p + i = n + 1 THEN x ELSE w.items[p + i]
    <3>1. new.items[i] = grown[p + i]
      BY <1>6, <1>8
    <3> HIDE DEF p, n
    <3>2. p + i = n + 1 \/ p + i \in 1..n
      BY <1>1, <1>4
    <3>3. QED BY <1>1, <1>2, <3>1, <3>2
  <2> HIDE DEF p
  <2>2. QED BY <1>4, <1>7, <1>8, <2>1 DEF SlidOn
<1>16. Renewed(w.items, new.items, x, ts - w.duration)
  BY <1>11, <1>12, <1>13 DEF Renewed
<1>17. QED
  BY <1>8, <1>10, <1>14, <1>15, <1>16

-----------------------------------------------------------------------------
(* The bitmap of heights *)

(* A nonempty set of bounded naturals has a highest element. *)
LEMMA Highest ==
    ASSUME NEW m \in Nat, NEW S \in SUBSET (0..m), S # {}
    PROVE  \E x \in S : \A y \in S : y <= x
<1> DEFINE Above == {k \in 0..m : \A y \in S : y <= k}
<1>1. PICK x \in Above : \A k \in Above : ~ (k < x)
  <2>1. m \in Above
    OBVIOUS
  <2>2. \E x \in Above : \A k \in Above : ~ (<<k, x>> \in OpToRel(<, Nat))
    <3>1. Above \subseteq Nat
      OBVIOUS
    <3>2. QED BY <2>1, <3>1, NatLessThanWellFounded, WFMin
  <2>3. \A k, x \in Above : k < x => <<k, x>> \in OpToRel(<, Nat)
    BY DEF OpToRel
  <2>4. QED BY <2>2, <2>3
<1>2. x \in S
  <2>1. SUFFICES ASSUME x \notin S PROVE FALSE
    OBVIOUS
  <2>2. \A y \in S : y \in 0..m /\ y <= x /\ y # x
    BY <1>1, <2>1
  <2>3. x \in 1..m
    <3>1. PICK y \in S : TRUE
      OBVIOUS
    <3>2. QED BY <2>2, <3>1
  <2>4. x - 1 \in Above
    BY <1>1, <2>2, <2>3
  <2>5. QED BY <1>1, <2>4
<1>3. QED BY <1>1, <1>2

(* A height is unknown when the window has no item of it, and is shown as  *)
(* one of its items otherwise.                                             *)
LEMMA ShownProperties ==
    ASSUME NEW w \in Window, NEW h \in Nat
    PROVE  \/ /\ ShownAt(w, h) = 2
              /\ \A i \in DOMAIN w.items : w.items[i].height # h
           \/ \E i \in DOMAIN w.items :
                /\ w.items[i].height = h
                /\ ShownAt(w, h) = IF w.items[i].signed THEN 1 ELSE 0
<1> DEFINE at == {i \in DOMAIN w.items : w.items[i].height = h}
<1>1. ShownAt(w, h) = IF at = {} THEN 2
                      ELSE IF \E i \in at : w.items[i].signed /\ \A j \in at : j <= i
                           THEN 1 ELSE 0
  BY DEF ShownAt
<1>2. DOMAIN w.items = 1..Len(w.items) /\ Len(w.items) \in Nat
  <2>1. w.items \in Seq(Item)
    BY DEF Window
  <2>2. QED BY <2>1, LenProperties
<1>3. at \in SUBSET (0..Len(w.items))
  BY <1>2
<1>4. CASE at = {}
  BY <1>1, <1>4
<1>5. CASE at # {}
  <2>1. PICK last \in at : \A j \in at : j <= last
    BY <1>2, <1>3, <1>5, Highest
  <2>2. \A i \in at : (\A j \in at : j <= i) => i = last
    BY <1>2, <2>1
  <2>3. ShownAt(w, h) = IF w.items[last].signed THEN 1 ELSE 0
    BY <1>1, <1>5, <2>1, <2>2
  <2>4. QED BY <2>1, <2>3
<1>6. QED BY <1>4, <1>5

IsBitmap(bits, w, lastHeight, n) ==
    \E start \in 1..lastHeight :
        /\ start = IF lastHeight > n THEN lastHeight - n + 1 ELSE 1
        /\ Len(bits) = lastHeight - start + 1
        /\ DOMAIN bits = 1..(lastHeight - start + 1)
        /\ \A i \in DOMAIN bits : bits[i] = ShownAt(w, start + i - 1)

(* Of a window with items, the bitmap shows the last n heights up to       *)
(* lastHeight, and the first ones when there are fewer.                    *)
LEMMA BitmapProperties ==
    ASSUME NEW w \in Window, w.items # <<>>,
           NEW lastHeight \in Nat \ {0}, NEW n \in Nat \ {0}
    PROVE  IsBitmap(GetBitmapLastNByHeight(w, lastHeight, n), w, lastHeight, n)
<1> DEFINE bits  == GetBitmapLastNByHeight(w, lastHeight, n)
           start == IF lastHeight > n THEN lastHeight - n + 1 ELSE 1
           long  == lastHeight - start + 1
<1>1. bits = [i \in 1..long |-> ShownAt(w, start + i - 1)]
  BY DEF GetBitmapLastNByHeight
<1>2. start \in 1..lastHeight /\ long \in Nat
  OBVIOUS
<1> HIDE DEF start, bits
<1>3. \A i \in 1..long : ShownAt(w, start + i - 1) \in {0, 1, 2}
  <2>1. SUFFICES ASSUME NEW i \in 1..long PROVE ShownAt(w, start + i - 1) \in {0, 1, 2}
    OBVIOUS
  <2>2. start + i - 1 \in Nat
    BY <1>2
  <2>3. QED BY <2>2, ShownProperties
<1>4. bits \in Seq({0, 1, 2})
  <2>1. [i \in 1..long |-> ShownAt(w, start + i - 1)] \in Seq({0, 1, 2})
    <3> HIDE DEF long
    <3>1. QED BY <1>2, <1>3, IsASeq
  <2>2. QED BY <1>1, <2>1
<1>5. DOMAIN bits = 1..long /\ Len(bits) = long
  BY <1>1, <1>2, <1>4, LenProperties
<1>6. IsBitmap(bits, w, lastHeight, n)
  <2>1. start = IF lastHeight > n THEN lastHeight - n + 1 ELSE 1
    BY DEF start
  <2>2. \A i \in DOMAIN bits : bits[i] = ShownAt(w, start + i - 1)
    BY <1>1, <1>5
  <2>3. QED BY <1>2, <1>5, <2>1, <2>2 DEF IsBitmap
<1>7. QED BY <1>6 DEF bits

(* Whatever window it is cut from, empty, restored from a file or filled   *)
(* by the pipeline: if its items tell of each height whether it was signed,*)
(* then so does the bitmap, up to any height and of any length.            *)
THEOREM BitmapOfWindow ==
    ASSUME NEW w \in Window, NEW signedHeights,
           NEW lastHeight \in Nat \ {0}, NEW n \in Nat \ {0},
           \A k \in DOMAIN w.items : /\ w.items[k].height >= 1
                                    /\ w.items[k].signed =
                                           (w.items[k].height \in signedHeights)
    PROVE  ShowsSigned(w, lastHeight, n, signedHeights)
<1> DEFINE bits  == GetBitmapLastNByHeight(w, lastHeight, n)
           first == lastHeight - Len(bits) + 1
<1>1. /\ w.items \in Seq(Item)
      /\ \A k \in DOMAIN w.items : w.items[k] \in Item
  BY LenProperties, ElementOfSeq DEF Window
<1>2. CASE w.items = <<>>
  <2>1. bits = <<>> /\ DOMAIN w.items = {}
    BY <1>2 DEF GetBitmapLastNByHeight
  <2>2. DOMAIN bits = {}
    BY <2>1
  <2>3. QED BY <2>1, <2>2 DEF ShowsSigned
<1>3. CASE w.items # <<>>
  <2>1. PICK start \in 1..lastHeight :
            /\ start = IF lastHeight > n THEN lastHeight - n + 1 ELSE 1
            /\ Len(bits) = lastHeight - start + 1
            /\ DOMAIN bits = 1..(lastHeight - start + 1)
            /\ \A i \in DOMAIN bits : bits[i] = ShownAt(w, start + i - 1)
    <3>1. IsBitmap(bits, w, lastHeight, n)
      BY <1>3, BitmapProperties
    <3> HIDE DEF bits
    <3>2. QED BY <3>1 DEF IsBitmap
  <2>2. first = start
    BY <2>1
  <2> HIDE DEF bits, first
  <2>3. ASSUME NEW i \in DOMAIN bits, bits[i] # 2
        PROVE  (bits[i] = 1) = (first + i - 1 \in signedHeights)
    <3> DEFINE h == start + i - 1
    <3>1. h \in Nat /\ bits[i] = ShownAt(w, h) /\ first + i - 1 = h
      BY <2>1, <2>2, <2>3
    <3> HIDE DEF h
    <3>2. PICK k \in DOMAIN w.items :
              /\ w.items[k].height = h
              /\ bits[i] = IF w.items[k].signed THEN 1 ELSE 0
      BY <2>3, <3>1, ShownProperties
    <3>3. w.items[k].signed = (h \in signedHeights) /\ w.items[k].signed \in BOOLEAN
      BY <1>1, <3>2 DEF Item
    <3>4. (bits[i] = 1) = (h \in signedHeights)
      <4>1. CASE h \in signedHeights
        <5>1. w.items[k].signed = TRUE
          BY <3>3, <4>1
        <5>2. QED BY <3>2, <4>1, <5>1
      <4>2. CASE h \notin signedHeights
        <5>1. w.items[k].signed = FALSE
          BY <3>3, <4>2
        <5>2. QED BY <3>2, <4>2, <5>1
      <4>3. QED BY <4>1, <4>2
    <3>5. QED BY <3>1, <3>4
  <2>4. ASSUME NEW k \in DOMAIN w.items, NEW h, h = w.items[k].height,
               h \in (lastHeight - n + 1)..lastHeight
        PROVE  h - first + 1 \in DOMAIN bits /\ bits[h - first + 1] # 2
    <3>1. h \in Nat \ {0}
      BY <1>1, <2>4 DEF Item
    <3>2. h >= start /\ h <= lastHeight
      BY <2>1, <2>4, <3>1
    <3>3. h - start + 1 \in 1..(lastHeight - start + 1) /\ start + (h - start + 1) - 1 = h
      BY <2>1, <3>1, <3>2
    <3>4. bits[h - start + 1] = ShownAt(w, h)
      BY <2>1, <3>3
    <3>5. ShownAt(w, h) # 2
      BY <2>4, <3>1, ShownProperties
    <3>6. QED BY <2>1, <2>2, <3>3, <3>4, <3>5
  <2>5. QED BY <2>3, <2>4 DEF ShowsSigned, bits, first
<1>4. QED BY <1>2, <1>3
=============================================================================
