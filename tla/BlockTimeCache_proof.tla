------------------------ MODULE BlockTimeCache_proof ------------------------
(***************************************************************************)
(* Proofs of the safety properties of BlockTimeCache, for any number of    *)
(* goroutines and blocks, any size of the cache and any times.             *)
(***************************************************************************)
EXTENDS BlockTimeCache, FiniteSetTheorems, TLAPS

-----------------------------------------------------------------------------
(* Facts about sets of heights and about times *)

LEMMA HeightsFinite ==
    ASSUME NEW S, S \subseteq Heights
    PROVE  IsFiniteSet(S) /\ Cardinality(S) \in Nat
<1>1. IsFiniteSet(Heights)
  BY CacheAssumption, FS_Interval DEF Heights
<1>2. IsFiniteSet(S)
  BY <1>1, FS_Subset
<1>3. QED BY <1>2, FS_CardinalityType

(* A remainder below the modulus is the number itself. *)
LEMMA SmallRemainder ==
    ASSUME NEW a \in Nat, NEW b \in Nat \ {0}, a < b
    PROVE  a % b = a
  OBVIOUS

(* The subtraction of an earlier time does not wrap. *)
LEMMA ElapsedExact ==
    ASSUME NEW h \in Heights, NEW k \in Heights, h <= k
    PROVE  /\ Elapsed(TimeOf[h], TimeOf[k]) = TimeOf[k] - TimeOf[h]
           /\ TimeOf[k] - TimeOf[h] \in 0..(Word - 1)
<1>1. /\ TimeOf[h] \in 1..(Word - 1)
      /\ TimeOf[k] \in 1..(Word - 1)
      /\ TimeOf[h] <= TimeOf[k]
      /\ Word \in Nat \ {0}
  BY CacheAssumption, TimesInOrder
<1>2. TimeOf[k] - TimeOf[h] \in Nat /\ TimeOf[k] - TimeOf[h] < Word
  BY <1>1
<1>3. QED BY <1>1, <1>2, SmallRemainder DEF Elapsed

LEMMA HeightsAreInt == \A h \in Heights : h \in Int /\ h >= 1 /\ h <= MaxHeight
  BY CacheAssumption DEF Heights

-----------------------------------------------------------------------------
(* The inductive invariant *)

(* The mark is at or below every key, so that the loop that counts it up   *)
(* misses none.                                                            *)
MarkBelow ==
    /\ cacheMin = 0 => DOMAIN cache = {}
    /\ \A k \in DOMAIN cache : cacheMin <= k

(* Within the loop there may be one time too many, and then the lowest may *)
(* be one that came late: it is lower than others that have gone before.   *)
OneTooMany ==
    LET kept == DOMAIN cache
    IN  /\ Cardinality(kept) = CacheSize + 1
        /\ kept \subseteq stored
        /\ \A h \in stored \ kept : \A k \in kept : h < k \/ \A x \in kept : k <= x

CacheInv ==
    \/ NewestOf(DOMAIN cache)
    \/ Locked /\ OneTooMany

IInv == TypeOK /\ MarkBelow /\ CacheInv /\ TrueIntervals

(* In one case or the other. *)
LEMMA Overfull ==
    ASSUME TypeOK, CacheInv
    PROVE  /\ Fits(DOMAIN cache) => NewestOf(DOMAIN cache)
           /\ ~ Fits(DOMAIN cache) => Locked /\ OneTooMany
<1>1. CacheSize \in Nat
  BY CacheAssumption
<1>2. OneTooMany => ~ Fits(DOMAIN cache)
  BY <1>1 DEF OneTooMany, Fits
<1>3. NewestOf(DOMAIN cache) => Fits(DOMAIN cache)
  BY DEF NewestOf
<1>4. QED BY <1>2, <1>3 DEF CacheInv

(* A goroutine goes on to a block of the chain. *)
LEMMA ProceedTyped ==
    ASSUME TypeOK, NEW g \in Goroutines, job[g].pc # "idle", Proceed(g)
    PROVE  /\ job' \in [Goroutines -> Job]
           /\ \A f \in Goroutines : job'[f].pc # "idle" =>
                  job'[f].block - job'[f].behind \in Heights
<1>1. /\ job \in [Goroutines -> Job]
      /\ MaxHeight \in Nat
      /\ Lag \in Nat \ {0, 1}
      /\ job[g].block \in 0..MaxHeight
  BY CacheAssumption DEF TypeOK, Job
<1>2. Idle \in Job
  BY <1>1, CacheAssumption DEF Idle, Job
<1>3. \A f \in Goroutines : job[f].pc # "idle" => job[f].block - job[f].behind \in Heights
  BY DEF TypeOK, Wanted
<1>4. CASE NextBehind(g) = 0
  <2>1. job' = [job EXCEPT ![g] = Idle]
    BY <1>4 DEF Proceed
  <2>2. QED BY <1>1, <1>2, <1>3, <2>1 DEF Idle
<1>5. CASE NextBehind(g) # 0
  <2> DEFINE b == NextBehind(g)
             j == [job[g] EXCEPT !.pc = "lookup", !.behind = b, !.failed = 0]
  <2>1. b \in {1, Lag} /\ job[g].block > b
    BY <1>1, <1>5 DEF NextBehind
  <2>2. job' = [job EXCEPT ![g] = j]
    BY <1>1, <1>5 DEF Proceed
  <2>3. j \in Job /\ j.block = job[g].block /\ j.behind = b
    <3>1. 0 \in 0..(Attempts - 1) /\ job[g] \in Job /\ b \in {0, 1, Lag}
      BY <1>1, <2>1, CacheAssumption
    <3> HIDE DEF b
    <3>2. QED BY <3>1 DEF Job
  <2>4. j.block - j.behind \in Heights
    BY <1>1, <2>1, <2>3 DEF Heights
  <2>5. QED BY <1>1, <1>3, <2>2, <2>3, <2>4
<1>6. QED BY <1>4, <1>5

(* What is published of the time wanted, or of none, is true. *)
LEMMA PublishTrue ==
    ASSUME TypeOK, TrueIntervals, NEW g \in Goroutines, job[g].pc # "idle",
           NEW ts \in {0, TimeOf[Wanted(g)]}, Publish(g, ts)
    PROVE  /\ interval' \in 0..(Word - 1)
           /\ span' \in 0..(Word - 1)
           /\ interval' \in {0} \cup {TimeOf[h] - TimeOf[h - 1] : h \in 2..MaxHeight}
           /\ span' \in {0} \cup {TimeOf[h] - TimeOf[h - Lag] : h \in (Lag + 1)..MaxHeight}
<1> DEFINE h == job[g].block
           k == Wanted(g)
<1>1. /\ h \in 0..MaxHeight
      /\ MaxHeight \in Nat
      /\ Lag \in Nat \ {0, 1}
      /\ job[g].behind \in {0, 1, Lag}
      /\ k \in 1..MaxHeight
      /\ k = h - job[g].behind
  BY CacheAssumption DEF TypeOK, Job, Wanted, Heights
<1>2. h \in Heights /\ k \in Heights /\ k <= h
  BY <1>1 DEF Heights
<1>3. /\ Elapsed(TimeOf[k], TimeOf[h]) = TimeOf[h] - TimeOf[k]
      /\ TimeOf[h] - TimeOf[k] \in 0..(Word - 1)
  BY <1>2, ElapsedExact
<1>4. interval' = interval \/ (job[g].behind = 1 /\ interval' = TimeOf[h] - TimeOf[k])
  BY <1>3 DEF Publish
<1>5. span' = span \/ (job[g].behind = Lag /\ span' = TimeOf[h] - TimeOf[k])
  BY <1>3 DEF Publish
<1>6. job[g].behind = 1 => k = h - 1 /\ h \in 2..MaxHeight
  BY <1>1
<1>7. job[g].behind = Lag => k = h - Lag /\ h \in (Lag + 1)..MaxHeight
  BY <1>1
<1>8. interval' \in 0..(Word - 1)
      /\ interval' \in {0} \cup {TimeOf[x] - TimeOf[x - 1] : x \in 2..MaxHeight}
  BY <1>3, <1>4, <1>6 DEF TypeOK, TrueIntervals
<1>9. span' \in 0..(Word - 1)
      /\ span' \in {0} \cup {TimeOf[x] - TimeOf[x - Lag] : x \in (Lag + 1)..MaxHeight}
  BY <1>3, <1>5, <1>7 DEF TypeOK, TrueIntervals
<1>10. QED BY <1>8, <1>9

LEMMA InitInv == Init => IInv
<1> SUFFICES ASSUME Init PROVE IInv
  OBVIOUS
<1> USE CacheAssumption DEF Init
<1>1. DOMAIN cache = {}
  OBVIOUS
<1>2. TypeOK
  <2>1. Idle \in Job
    BY DEF Idle, Job
  <2>2. \A g \in Goroutines : job[g].pc = "idle"
    BY DEF Idle
  <2>3. 0 \in 0..(Word - 1) /\ 0 \in 0..(MaxHeight + 1)
    OBVIOUS
  <2>4. QED BY <1>1, <2>1, <2>2, <2>3 DEF TypeOK
<1>3. MarkBelow /\ TrueIntervals
  BY <1>1 DEF MarkBelow, TrueIntervals
<1>4. CacheInv
  BY <1>1, FS_EmptySet DEF CacheInv, NewestOf, Fits
<1>5. QED BY <1>2, <1>3, <1>4 DEF IInv

(* A step that leaves the cache alone, and its lock. *)
LEMMA CacheKept ==
    ASSUME IInv, UNCHANGED cacheVars,
           NewestOf(DOMAIN cache) \/ Locked',
           job' \in [Goroutines -> Job],
           \A g \in Goroutines : job'[g].pc # "idle" => job'[g].block - job'[g].behind \in Heights,
           interval' \in 0..(Word - 1), span' \in 0..(Word - 1),
           interval' \in {0} \cup {TimeOf[h] - TimeOf[h - 1] : h \in 2..MaxHeight},
           span' \in {0} \cup {TimeOf[h] - TimeOf[h - Lag] : h \in (Lag + 1)..MaxHeight}
    PROVE  IInv'
<1>1. cache' = cache /\ cacheMin' = cacheMin /\ stored' = stored
  BY DEF cacheVars
<1>2. TypeOK'
  BY <1>1 DEF IInv, TypeOK, Wanted
<1>3. MarkBelow' /\ CacheInv'
  BY <1>1 DEF IInv, MarkBelow, CacheInv, NewestOf, OneTooMany
<1>4. TrueIntervals'
  BY <1>1 DEF IInv, TrueIntervals
<1>5. QED BY <1>2, <1>3, <1>4 DEF IInv

(* A goroutine that does not hold the lock leaves it to who does.          *)
LEMMA LockKept ==
    ASSUME IInv, NEW g \in Goroutines, job[g].pc # "evict",
           \A f \in Goroutines \ {g} : job'[f] = job[f]
    PROVE  NewestOf(DOMAIN cache) \/ Locked'
<1>1. CASE Locked
  <2>1. PICK f \in Goroutines : job[f].pc = "evict"
    BY <1>1 DEF Locked
  <2>2. f # g
    BY <2>1
  <2>3. QED BY <2>1, <2>2 DEF Locked
<1>2. QED BY <1>1 DEF IInv, CacheInv

(* A step that publishes nothing either and moves one goroutine.           *)
LEMMA JobMoved ==
    ASSUME IInv, UNCHANGED <<cacheVars, publishVars>>, NEW g \in Goroutines,
           job[g].pc # "evict",
           NEW j \in Job, j.pc # "idle" => j.block - j.behind \in Heights,
           job' = [job EXCEPT ![g] = j]
    PROVE  IInv'
<1>1. interval' = interval /\ span' = span
  BY DEF publishVars
<1>2. /\ job' \in [Goroutines -> Job]
      /\ \A f \in Goroutines : job'[f].pc # "idle" => job'[f].block - job'[f].behind \in Heights
  BY DEF IInv, TypeOK, Wanted
<1>3. \A f \in Goroutines \ {g} : job'[f] = job[f]
  BY DEF IInv, TypeOK
<1>4. NewestOf(DOMAIN cache) \/ Locked'
  BY <1>3, LockKept
<1>5. QED BY <1>1, <1>2, <1>4, CacheKept DEF IInv, TypeOK, TrueIntervals

(* A goroutine that has the time it is after, or none, and may have had the*)
(* lock: then the times fit.                                               *)
LEMMA Obtained ==
    ASSUME IInv, UNCHANGED cacheVars, NEW g \in Goroutines, job[g].pc # "idle",
           NEW ts \in {0, TimeOf[Wanted(g)]}, Obtain(g, ts),
           job[g].pc # "evict" \/ NewestOf(DOMAIN cache)
    PROVE  IInv'
<1>1. Publish(g, ts) /\ Proceed(g)
  BY DEF Obtain
<1>2. /\ job' \in [Goroutines -> Job]
      /\ \A f \in Goroutines : job'[f].pc # "idle" =>
             job'[f].block - job'[f].behind \in Heights
  BY <1>1, ProceedTyped DEF IInv
<1>3. \A f \in Goroutines \ {g} : job'[f] = job[f]
  BY <1>1 DEF Proceed, IInv, TypeOK
<1>4. NewestOf(DOMAIN cache) \/ Locked'
  BY <1>3, LockKept
<1>5. QED BY <1>1, <1>2, <1>4, PublishTrue, CacheKept DEF IInv

(* The time that goes in, into a cache that is not full, or makes one too  *)
(* many.                                                                   *)
LEMMA StoreInv ==
    ASSUME IInv, NEW g \in Goroutines, Store(g)
    PROVE  IInv'
<1> DEFINE h    == Wanted(g)
           kept == DOMAIN cache
           keys == kept \cup {h}
           low  == Mark(h)
           j    == [job[g] EXCEPT !.pc = "evict"]
<1>1. /\ job[g].pc # "idle"
      /\ ~ Locked
      /\ cache' = [k \in keys |-> IF k = h THEN TimeOf[h] ELSE cache[k]]
      /\ cacheMin' = low
      /\ stored' = stored \cup {h}
      /\ job' = [job EXCEPT ![g] = j]
      /\ interval' = interval /\ span' = span
  BY DEF Store, IInv, TypeOK, publishVars
<1>2. DOMAIN cache' = keys
  BY <1>1
<1>3. /\ h \in Heights
      /\ kept \subseteq Heights
      /\ keys \subseteq Heights
      /\ stored \subseteq Heights
      /\ MaxHeight \in Nat
      /\ CacheSize \in Nat
      /\ cacheMin \in Nat
  BY <1>1, CacheAssumption DEF IInv, TypeOK
<1>4. low \in Heights /\ \A k \in keys : low <= k
  <2>1. \A k \in keys : k \in Nat /\ k >= 1
    BY <1>3 DEF Heights
  <2>2. CASE cacheMin = 0
    BY <1>3, <2>1, <2>2 DEF Mark, IInv, MarkBelow
  <2>3. CASE cacheMin # 0 /\ h < cacheMin
    <3>1. low = h
      BY <2>3 DEF Mark
    <3>2. \A k \in kept : cacheMin <= k /\ k \in Nat
      BY <2>1 DEF IInv, MarkBelow
    <3>3. \A k \in kept : h <= k
      BY <1>3, <2>1, <2>3, <3>2
    <3>4. h <= h
      BY <2>1
    <3>5. QED BY <1>3, <3>1, <3>3, <3>4
  <2>4. CASE cacheMin # 0 /\ ~ (h < cacheMin)
    <3>1. low = cacheMin
      BY <2>4 DEF Mark
    <3>2. cacheMin \in Heights /\ cacheMin <= h
      BY <1>3, <2>1, <2>4 DEF Heights
    <3>3. QED BY <3>1, <3>2 DEF IInv, MarkBelow
  <2>5. QED BY <2>2, <2>3, <2>4
<1>5. /\ kept \subseteq stored
      /\ Cardinality(kept) <= CacheSize
      /\ kept # stored => Cardinality(kept) = CacheSize
      /\ \A x \in stored \ kept : \A k \in kept : x < k
  BY <1>1 DEF IInv, CacheInv, NewestOf, Fits
<1>6. /\ Cardinality(kept) \in Nat
      /\ Cardinality(keys) = IF h \in kept THEN Cardinality(kept) ELSE Cardinality(kept) + 1
  <2>1. IsFiniteSet(kept) /\ Cardinality(kept) \in Nat
    BY <1>3, HeightsFinite
  <2>2. QED BY <2>1, FS_AddElement
<1> HIDE DEF keys, h, low, j
<1>7. Locked'
  BY <1>1 DEF Locked, IInv, TypeOK, j
<1>8. CacheInv'
  <2>1. CASE h \in kept
    <3>1. keys = kept /\ stored' = stored
      BY <1>1, <1>5, <2>1 DEF keys
    <3>2. NewestOf(kept)
      BY <1>5 DEF NewestOf, Fits
    <3>3. QED BY <1>2, <3>1, <3>2 DEF CacheInv, NewestOf
  <2>2. CASE h \notin kept /\ kept = stored
    <3>1. keys = stored'
      BY <1>1, <2>2 DEF keys
    <3>2. CASE Cardinality(keys) <= CacheSize
      BY <1>2, <3>1, <3>2 DEF CacheInv, NewestOf, Fits
    <3>3. CASE ~ (Cardinality(keys) <= CacheSize)
      <4>1. Cardinality(keys) = CacheSize + 1
        BY <1>3, <1>5, <1>6, <2>2, <3>3
      <4>2. QED BY <1>2, <1>7, <3>1, <4>1 DEF CacheInv, OneTooMany
    <3>4. QED BY <3>2, <3>3
  <2>3. CASE h \notin kept /\ kept # stored
    <3>1. Cardinality(keys) = CacheSize + 1
      BY <1>5, <1>6, <2>3
    <3>2. keys \subseteq stored'
      BY <1>1, <1>5 DEF keys
    <3>3. ASSUME NEW x \in stored' \ keys, NEW k \in keys
          PROVE  x < k \/ \A y \in keys : k <= y
      <4>1. x \in stored \ kept /\ x # h
        BY <1>1, <3>3 DEF keys
      <4>2. CASE k \in kept
        BY <1>5, <4>1, <4>2
      <4>3. CASE k = h
        <5>1. \A y \in kept : x < y
          BY <1>5, <4>1
        <5>2. /\ x \in Int /\ h \in Int
              /\ \A y \in kept : y \in Int
          BY <1>3, <4>1, HeightsAreInt
        <5>3. CASE x < h
          BY <4>3, <5>3
        <5>4. CASE ~ (x < h)
          <6>1. h < x
            BY <4>1, <5>2, <5>4
          <6>2. \A y \in kept : h <= y
            BY <5>1, <5>2, <6>1
          <6>3. QED BY <4>3, <5>2, <6>2 DEF keys
        <5>5. QED BY <5>3, <5>4
      <4>4. QED BY <4>2, <4>3 DEF keys
    <3>4. QED BY <1>2, <1>7, <3>1, <3>2, <3>3 DEF CacheInv, OneTooMany
  <2>4. QED BY <2>1, <2>2, <2>3
<1>9. MarkBelow'
  <2>1. low # 0
    BY <1>4, HeightsAreInt
  <2>2. QED BY <1>1, <1>2, <1>4, <2>1 DEF MarkBelow
<1>10. TrueIntervals'
  <2>1. \A k \in keys : cache'[k] = TimeOf[k]
    BY <1>1 DEF IInv, TrueIntervals, keys
  <2>2. QED BY <1>1, <1>2, <2>1 DEF IInv, TrueIntervals
<1>11. TypeOK'
  <2>1. j \in Job /\ j.block = job[g].block /\ j.behind = job[g].behind
    BY DEF IInv, TypeOK, Job, j
  <2>2. job' \in [Goroutines -> Job]
    BY <1>1, <2>1 DEF IInv, TypeOK
  <2>3. \A f \in Goroutines : job'[f].pc # "idle" => job'[f].block - job'[f].behind \in Heights
    BY <1>1, <2>1 DEF IInv, TypeOK, Wanted
  <2>4. cacheMin' \in 0..(MaxHeight + 1)
    BY <1>1, <1>3, <1>4, HeightsAreInt
  <2>5. stored' \subseteq Heights
    BY <1>1, <1>3
  <2>6. QED BY <1>1, <1>2, <1>3, <2>2, <2>3, <2>4, <2>5 DEF IInv, TypeOK, Wanted
<1>12. QED BY <1>8, <1>9, <1>10, <1>11 DEF IInv

(* An iteration takes the lowest time or none. *)
LEMMA EvictInv ==
    ASSUME IInv, NEW g \in Goroutines, Evict(g)
    PROVE  IInv'
<1> DEFINE kept == DOMAIN cache
           left == kept \ {cacheMin}
<1>1. /\ cache' = [k \in left |-> cache[k]]
      /\ cacheMin' = cacheMin + 1
      /\ stored' = stored /\ job' = job /\ interval' = interval /\ span' = span
      /\ ~ Fits(kept)
  BY DEF Evict, publishVars
<1>2. /\ kept \subseteq Heights
      /\ stored \subseteq Heights
      /\ MaxHeight \in Nat
      /\ CacheSize \in Nat \ {0}
      /\ cacheMin \in Nat
  BY CacheAssumption DEF IInv, TypeOK
<1>3. \A k \in kept : cacheMin <= k /\ k \in Int /\ k <= MaxHeight
  BY <1>2, HeightsAreInt DEF IInv, MarkBelow
<1>4. Locked /\ OneTooMany
  BY <1>1, Overfull DEF IInv
<1>5. /\ IsFiniteSet(kept)
      /\ Cardinality(kept) = CacheSize + 1
      /\ kept \subseteq stored
      /\ \A h \in stored \ kept : \A k \in kept : h < k \/ \A x \in kept : k <= x
  BY <1>2, <1>4, HeightsFinite DEF OneTooMany
<1>6. PICK e \in kept : TRUE
  BY <1>2, <1>5, FS_EmptySet
<1>7. DOMAIN cache' = left
  BY <1>1
<1>8. CacheInv'
  <2>1. CASE cacheMin \in kept
    <3>1. Cardinality(left) = CacheSize
      <4>1. Cardinality(left) = Cardinality(kept) - 1
        BY <1>5, <2>1, FS_RemoveElement
      <4>2. QED BY <1>2, <1>5, <4>1
    <3>2. ASSUME NEW h \in stored \ left, NEW k \in left PROVE h < k
      <4>1. k \in kept /\ k # cacheMin /\ cacheMin < k
        BY <1>2, <1>3, <3>2
      <4>2. CASE h = cacheMin
        BY <4>1, <4>2
      <4>3. CASE h \in stored \ kept
        <5>1. ~ \A x \in kept : k <= x
          BY <1>2, <1>3, <2>1, <4>1
        <5>2. QED BY <1>5, <4>1, <4>3, <5>1
      <4>4. QED BY <3>2, <4>2, <4>3
    <3>3. QED BY <1>1, <1>2, <1>5, <1>7, <3>1, <3>2 DEF CacheInv, NewestOf, Fits
  <2>2. CASE cacheMin \notin kept
    <3>1. left = kept
      BY <2>2
    <3>2. QED BY <1>1, <1>4, <1>7, <3>1 DEF CacheInv, OneTooMany, Locked
  <2>3. QED BY <2>1, <2>2
<1>9. MarkBelow'
  <2>1. \A k \in left : cacheMin + 1 <= k
    BY <1>2, <1>3
  <2>2. cacheMin + 1 # 0
    BY <1>2
  <2>3. QED BY <1>1, <1>7, <2>1, <2>2 DEF MarkBelow
<1>10. TrueIntervals'
  BY <1>1, <1>7 DEF IInv, TrueIntervals
<1>11. TypeOK'
  <2>1. cacheMin + 1 \in 0..(MaxHeight + 1)
    BY <1>2, <1>3, <1>6
  <2>2. QED BY <1>1, <1>2, <1>7, <2>1 DEF IInv, TypeOK, Wanted
<1>12. QED BY <1>8, <1>9, <1>10, <1>11 DEF IInv

LEMMA InvStep ==
    ASSUME IInv, [Next]_vars
    PROVE  IInv'
<1>0. \A g \in Goroutines : job[g].pc # "idle" => job[g].block - job[g].behind \in Heights
  BY DEF IInv, TypeOK, Wanted
<1>1. ASSUME NEW g \in Goroutines, Begin(g) PROVE IInv'
  <2>1. PICK h \in Heights :
           job' = [job EXCEPT ![g] = [Idle EXCEPT !.pc = "lookup", !.block = h]]
    BY <1>1 DEF Begin
  <2> DEFINE j == [Idle EXCEPT !.pc = "lookup", !.block = h]
  <2>2. j \in Job /\ j.block - j.behind \in Heights
    <3>1. h \in 0..MaxHeight /\ h \in Int /\ h - 0 = h
      BY CacheAssumption DEF Heights
    <3>2. Idle \in Job /\ 0 \in 0..(Attempts - 1)
      BY CacheAssumption DEF Idle, Job
    <3>3. j \in Job
      BY <3>1, <3>2 DEF Job
    <3>4. j.block = h /\ j.behind = 0
      BY <3>1 DEF Idle
    <3>5. QED BY <3>1, <3>3, <3>4
  <2>3. job[g].pc # "evict" /\ UNCHANGED <<cacheVars, publishVars>>
    BY <1>1 DEF Begin
  <2> HIDE DEF j
  <2>4. QED BY <2>1, <2>2, <2>3, JobMoved DEF j
<1>2. ASSUME NEW g \in Goroutines, Hit(g) PROVE IInv'
  <2>1. /\ job[g].pc \notin {"idle", "evict"}
        /\ Obtain(g, cache[Wanted(g)])
        /\ UNCHANGED cacheVars
        /\ cache[Wanted(g)] = TimeOf[Wanted(g)]
    BY <1>2 DEF Hit, IInv, TrueIntervals
  <2>2. QED BY <2>1, Obtained
<1>3. ASSUME NEW g \in Goroutines, Miss(g) PROVE IInv'
  <2> DEFINE j == [job[g] EXCEPT !.pc = "fetch"]
  <2>1. job[g] \in Job /\ job[g].pc \notin {"idle", "evict"}
    BY <1>3 DEF IInv, TypeOK, Miss
  <2>2. j \in Job /\ j.block - j.behind \in Heights
    BY <1>0, <2>1 DEF Job
  <2>3. job' = [job EXCEPT ![g] = j] /\ UNCHANGED <<cacheVars, publishVars>>
    BY <1>3 DEF Miss, IInv, TypeOK
  <2> HIDE DEF j
  <2>4. QED BY <2>1, <2>2, <2>3, JobMoved
<1>4. ASSUME NEW g \in Goroutines, FetchAnswers(g) PROVE IInv'
  <2> DEFINE j == [job[g] EXCEPT !.pc = "store"]
  <2>1. job[g] \in Job /\ job[g].pc \notin {"idle", "evict"}
    BY <1>4 DEF IInv, TypeOK, FetchAnswers
  <2>2. j \in Job /\ j.block - j.behind \in Heights
    BY <1>0, <2>1 DEF Job
  <2>3. job' = [job EXCEPT ![g] = j] /\ UNCHANGED <<cacheVars, publishVars>>
    BY <1>4 DEF FetchAnswers, IInv, TypeOK
  <2> HIDE DEF j
  <2>4. QED BY <2>1, <2>2, <2>3, JobMoved
<1>5. ASSUME NEW g \in Goroutines, FetchFails(g) PROVE IInv'
  <2>1. job[g].pc \notin {"idle", "evict"} /\ UNCHANGED cacheVars
    BY <1>5 DEF FetchFails
  <2>2. CASE job[g].behind = 0
    <3>1. Idle \in Job /\ Idle.pc = "idle"
      BY CacheAssumption DEF Idle, Job
    <3>2. job' = [job EXCEPT ![g] = Idle] /\ UNCHANGED <<cacheVars, publishVars>>
      BY <1>5, <2>2 DEF FetchFails
    <3>3. QED BY <2>1, <3>1, <3>2, JobMoved
  <2>3. CASE job[g].behind # 0
    <3>1. Obtain(g, 0)
      BY <1>5, <2>3 DEF FetchFails
    <3>2. QED BY <2>1, <3>1, Obtained
  <2>4. QED BY <2>2, <2>3
<1>6. ASSUME NEW g \in Goroutines, Store(g) PROVE IInv'
  BY <1>6, StoreInv
<1>7. CASE UNCHANGED vars
  <2>1. UNCHANGED cacheVars /\ job' = job /\ interval' = interval /\ span' = span
    BY <1>7 DEF vars, publishVars
  <2>2. NewestOf(DOMAIN cache) \/ Locked'
    BY <2>1 DEF IInv, CacheInv, Locked
  <2>3. QED BY <1>0, <2>1, <2>2, CacheKept DEF IInv, TypeOK, TrueIntervals
<1>8. ASSUME NEW g \in Goroutines, NoClient(g) PROVE IInv'
  <2>1. /\ job[g].pc \notin {"idle", "evict"}
        /\ Obtain(g, 0)
        /\ UNCHANGED cacheVars
    BY <1>8 DEF NoClient
  <2>2. QED BY <2>1, Obtained
<1>9. ASSUME NEW g \in Goroutines, BlockNotFound(g) PROVE IInv'
  <2> DEFINE j == [job[g] EXCEPT !.failed = @ + 1]
  <2>1. /\ job[g] \in Job
        /\ job[g].pc \notin {"idle", "evict"}
        /\ job[g].failed + 1 < Attempts
    BY <1>9 DEF IInv, TypeOK, BlockNotFound
  <2>2. j \in Job /\ j.block - j.behind \in Heights
    <3>1. job[g].failed \in 0..(Attempts - 1) /\ Attempts \in Nat
      BY <2>1, CacheAssumption DEF Job
    <3>2. job[g].failed + 1 \in 0..(Attempts - 1)
      BY <2>1, <3>1
    <3>3. QED BY <1>0, <2>1, <3>2 DEF Job
  <2>3. job' = [job EXCEPT ![g] = j] /\ UNCHANGED <<cacheVars, publishVars>>
    BY <1>9 DEF BlockNotFound, IInv, TypeOK
  <2> HIDE DEF j
  <2>4. QED BY <2>1, <2>2, <2>3, JobMoved
<1>10. ASSUME NEW g \in Goroutines, Evict(g) PROVE IInv'
  BY <1>10, EvictInv
<1>11. ASSUME NEW g \in Goroutines, Stored(g) PROVE IInv'
  <2>1. /\ job[g].pc # "idle"
        /\ Fits(DOMAIN cache)
        /\ Obtain(g, TimeOf[Wanted(g)])
        /\ UNCHANGED cacheVars
    BY <1>11 DEF Stored
  <2>2. NewestOf(DOMAIN cache)
    BY <2>1, Overfull DEF IInv
  <2>3. QED BY <2>1, <2>2, Obtained
<1>12. QED BY <1>1, <1>2, <1>3, <1>4, <1>5, <1>6, <1>7, <1>8, <1>9, <1>10, <1>11 DEF Next, Step

(* The inductive invariant holds in every behaviour. *)
THEOREM Invariance == Spec => []IInv
<1>1. Init => IInv
  BY InitInv
<1>2. IInv /\ [Next]_vars => IInv'
  BY InvStep
<1>3. QED BY <1>1, <1>2, PTL DEF Spec

-----------------------------------------------------------------------------
(* Type correctness. *)
THEOREM TypeCorrect == Spec => []TypeOK
<1>1. IInv => TypeOK
  BY DEF IInv
<1>2. QED BY <1>1, Invariance, PTL

(* The cache holds the times of the CacheSize highest heights that were    *)
(* ever stored, in whatever order goroutines store them.                   *)
THEOREM NewestKept == Spec => []KeepsNewest
<1>1. IInv => KeepsNewest
  BY DEF IInv, CacheInv, KeepsNewest
<1>2. QED BY <1>1, Invariance, PTL

(* The gauges show differences of block times, and no subtraction wraps.   *)
THEOREM IntervalsTrue == Spec => []TrueIntervals
<1>1. IInv => TrueIntervals
  BY DEF IInv
<1>2. QED BY <1>1, Invariance, PTL
=============================================================================
