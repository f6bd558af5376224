--------------------------- MODULE BlockTimeCache ---------------------------
(***************************************************************************)
(* The block times that the block goroutines share                         *)
(* (internal/processor/processor.go). For its block a goroutine looks up   *)
(* the time of the block, of the one before and of the one Lag before; a   *)
(* time that is not in the cache it asks a node for, without the lock, and *)
(* stores it. Goroutines work on blocks in any order, fetch the same time  *)
(* twice and store a time that has been evicted in the meantime.           *)
(*                                                                         *)
(* The cache holds CacheSize times; cacheMin is where the eviction loop    *)
(* begins, counting up. An iteration of that loop, which is under the lock,*)
(* is a step. All nodes tell the same time of a block.                     *)
(***************************************************************************)
EXTENDS Integers, FiniteSets

CONSTANTS
    Goroutines, \* bound: the block goroutines alive at one time
    MaxHeight,  \* bound: the blocks of the chain
    CacheSize,  \* blockTimeCacheSize
    Attempts,   \* blockFetchMaxAttempts
    Lag,        \* 100: the blocks that the average is taken over
    TimeOf,     \* the time of each block
    Word        \* 2^64: times are unsigned

Heights == 1..MaxHeight

ASSUME CacheAssumption ==
    /\ MaxHeight \in Nat
    /\ CacheSize \in Nat \ {0}
    /\ Attempts \in Nat \ {0}
    /\ Lag \in Nat \ {0, 1}
    /\ Word \in Nat \ {0}
    /\ TimeOf \in [Heights -> 1..(Word - 1)]

(* No block is older than the ones before it. *)
ASSUME TimesInOrder == \A h, k \in Heights : h <= k => TimeOf[h] <= TimeOf[k]

VARIABLES
    cache,     \* blockTime: the times by height
    cacheMin,  \* cacheMin, 0 as long as nothing was stored
    job,       \* the block goroutines
    interval,  \* the gauge of the last block interval
    span,      \* the gauge of the average block time, times Lag
    stored     \* history: the heights whose time has been stored

cacheVars   == <<cache, cacheMin, stored>>
publishVars == <<interval, span>>
vars == <<cacheVars, publishVars, job>>

Idle == [pc |-> "idle", block |-> 0, behind |-> 0, failed |-> 0]

Job == [pc : {"idle", "lookup", "fetch", "store", "evict"}, block : 0..MaxHeight,
        behind : {0, 1, Lag}, failed : 0..(Attempts - 1)]

(* The height whose time the goroutine is after. *)
Wanted(g) == job[g].block - job[g].behind

Init ==
    /\ cache = [h \in {} |-> 0]
    /\ cacheMin = 0
    /\ job = [g \in Goroutines |-> Idle]
    /\ interval = 0
    /\ span = 0
    /\ stored = {}

-----------------------------------------------------------------------------
(* updateExporterBlockMetrics *)

Elapsed(from, to) == (to - from) % Word

(* Mutation: nobody asks whether there is a block before. *)
NextBehindUnguarded(g) ==
    CASE job[g].behind = 0 -> 1
      [] job[g].behind # Lag /\ job[g].block > Lag -> Lag
      [] OTHER -> 0

(* The next time that goroutine g is after: of the block before, if there  *)
(* is one, and then of the block Lag before.                               *)
NextBehind(g) ==
    CASE job[g].behind = 0 /\ job[g].block > 1 -> 1
      [] job[g].behind # Lag /\ job[g].block > Lag -> Lag
      [] OTHER -> 0

Proceed(g) ==
    job' = [job EXCEPT ![g] = IF NextBehind(g) = 0 THEN Idle
                              ELSE [@ EXCEPT !.pc = "lookup", !.behind = NextBehind(g),
                                             !.failed = 0]]

(* Mutation: an interval is published whatever came of the request. *)
PublishAlways(g, ts) ==
    LET now == TimeOf[job[g].block]
    IN  /\ interval' = IF job[g].behind = 1 THEN Elapsed(ts, now) ELSE interval
        /\ span' = IF job[g].behind = Lag THEN Elapsed(ts, now) ELSE span

(* A time of 0 is one that could not be had. *)
Publish(g, ts) ==
    LET now == TimeOf[job[g].block]
    IN  /\ interval' = IF job[g].behind = 1 /\ ts > 0 THEN Elapsed(ts, now) ELSE interval
        /\ span' = IF job[g].behind = Lag /\ ts > 0 THEN Elapsed(ts, now) ELSE span

(* The goroutine has the time it is after. *)
Obtain(g, ts) == Publish(g, ts) /\ Proceed(g)

-----------------------------------------------------------------------------
(* getBlockTimeAndUpdateMetrics, fetchAndCacheBlockTime, getCachedBlockTime*)

(* cacheMu is held over more than a step by the eviction loop only.        *)
Locked == \E g \in Goroutines : job[g].pc = "evict"

(* A block whose time may be asked for, as its node has a client.          *)
Begin(g) ==
    /\ job[g].pc = "idle"
    /\ \E h \in Heights : job' = [job EXCEPT ![g] = [Idle EXCEPT !.pc = "lookup", !.block = h]]
    /\ UNCHANGED <<cacheVars, publishVars>>

(* The node has lost its client in the meantime: no time of another block. *)
NoClient(g) ==
    /\ job[g].pc = "lookup"
    /\ job[g].behind # 0
    /\ Obtain(g, 0)
    /\ UNCHANGED cacheVars

Hit(g) ==
    /\ job[g].pc = "lookup"
    /\ ~ Locked
    /\ Wanted(g) \in DOMAIN cache
    /\ Obtain(g, cache[Wanted(g)])
    /\ UNCHANGED cacheVars

Miss(g) ==
    /\ job[g].pc = "lookup"
    /\ ~ Locked
    /\ Wanted(g) \notin DOMAIN cache
    /\ job' = [job EXCEPT ![g].pc = "fetch"]
    /\ UNCHANGED <<cacheVars, publishVars>>

(* A request is answered ... *)
FetchAnswers(g) ==
    /\ job[g].pc = "fetch"
    /\ job' = [job EXCEPT ![g].pc = "store"]
    /\ UNCHANGED <<cacheVars, publishVars>>

(* ... or the node does not have the block, and is asked again ...         *)
BlockNotFound(g) ==
    /\ job[g].pc = "fetch"
    /\ job[g].failed + 1 < Attempts
    /\ job' = [job EXCEPT ![g].failed = @ + 1]
    /\ UNCHANGED <<cacheVars, publishVars>>

(* ... or it fails, or was the last one: without the time of its own block *)
(* the goroutine goes on to the proof, without another one to the next.    *)
FetchFails(g) ==
    /\ job[g].pc = "fetch"
    /\ IF job[g].behind = 0
       THEN job' = [job EXCEPT ![g] = Idle] /\ UNCHANGED publishVars
       ELSE Obtain(g, 0)
    /\ UNCHANGED cacheVars

(* Mutation: the mark is set once and not lowered by an older height. *)
MarkKept(h) == IF cacheMin = 0 THEN h ELSE cacheMin

(* Where eviction begins once height h has been stored. *)
Mark(h) == IF cacheMin = 0 \/ h < cacheMin THEN h ELSE cacheMin

Fits(keys) == Cardinality(keys) <= CacheSize

(* The lock is taken and the time goes in. *)
Store(g) ==
    LET h == Wanted(g)
    IN  /\ job[g].pc = "store"
        /\ ~ Locked
        /\ cache' = [k \in DOMAIN cache \cup {h} |-> IF k = h THEN TimeOf[h] ELSE cache[k]]
        /\ cacheMin' = Mark(h)
        /\ stored' = stored \cup {h}
        /\ job' = [job EXCEPT ![g].pc = "evict"]
        /\ UNCHANGED publishVars

(* Mutation: the loop does not count. *)
EvictInPlace(g) ==
    /\ job[g].pc = "evict"
    /\ ~ Fits(DOMAIN cache)
    /\ cache' = [k \in DOMAIN cache \ {cacheMin} |-> cache[k]]
    /\ UNCHANGED <<cacheMin, stored, job, publishVars>>

(* An iteration of the loop: what is at the mark goes, if anything is, and *)
(* the mark goes up.                                                       *)
Evict(g) ==
    /\ job[g].pc = "evict"
    /\ ~ Fits(DOMAIN cache)
    /\ cache' = [k \in DOMAIN cache \ {cacheMin} |-> cache[k]]
    /\ cacheMin' = cacheMin + 1
    /\ UNCHANGED <<stored, job, publishVars>>

(* The times fit: the lock is given back and the goroutine goes on.        *)
Stored(g) ==
    /\ job[g].pc = "evict"
    /\ Fits(DOMAIN cache)
    /\ Obtain(g, TimeOf[Wanted(g)])
    /\ UNCHANGED cacheVars

-----------------------------------------------------------------------------
Step(g) ==
    \/ NoClient(g)
    \/ Hit(g)
    \/ Miss(g)
    \/ FetchAnswers(g)
    \/ BlockNotFound(g)
    \/ FetchFails(g)
    \/ Store(g)
    \/ Evict(g)
    \/ Stored(g)

Next == \E g \in Goroutines : Begin(g) \/ Step(g)

Spec == Init /\ [][Next]_vars

(* The goroutine asks for the time of its own block, with the context of   *)
(* main, which has no deadline: a node may never answer.                   *)
Waiting(g) == job[g].pc = "fetch" /\ job[g].behind = 0

(* Otherwise a goroutine that has begun goes on, as its requests for other *)
(* blocks have a timeout of 10 seconds; a lock that others take again and  *)
(* again does not starve it, as sync.RWMutex hands it over to those who    *)
(* wait.                                                                   *)
FairSpec == Spec /\ \A g \in Goroutines : SF_vars(~ Waiting(g) /\ Step(g))

-----------------------------------------------------------------------------
(* Properties *)

(* Type correctness. *)
TypeOK ==
    /\ DOMAIN cache \subseteq Heights
    /\ cacheMin \in 0..(MaxHeight + 1)
    /\ job \in [Goroutines -> Job]
    /\ \A g \in Goroutines : job[g].pc # "idle" => Wanted(g) \in Heights
    /\ interval \in 0..(Word - 1)
    /\ span \in 0..(Word - 1)
    /\ stored \subseteq Heights

(* Of the times stored the CacheSize highest are kept. *)
NewestOf(kept) ==
    /\ kept \subseteq stored
    /\ Fits(kept)
    /\ kept # stored => Cardinality(kept) = CacheSize
    /\ \A h \in stored \ kept : \A k \in kept : h < k

(* In whatever order the heights come, the eviction that counts cacheMin   *)
(* up leaves the CacheSize highest of all heights that were ever stored, as*)
(* anybody finds who gets the lock.                                        *)
KeepsNewest == ~ Locked => NewestOf(DOMAIN cache)

(* Whatever requests fail and whatever others store or evict between them, *)
(* a gauge shows the difference between two blocks' times and nothing else,*)
(* and unsigned subtraction never wraps.                                   *)
TrueIntervals ==
    /\ \A h \in DOMAIN cache : cache[h] = TimeOf[h]
    /\ interval \in {0} \cup {TimeOf[h] - TimeOf[h - 1] : h \in 2..MaxHeight}
    /\ span \in {0} \cup {TimeOf[h] - TimeOf[h - Lag] : h \in (Lag + 1)..MaxHeight}

(* A goroutine is done with the times some time, or waits for ever for the *)
(* answer to one request for its own block: the retries are bounded, and   *)
(* the eviction loop ends however far the heights are apart.               *)
LookupEnds ==
    \A g \in Goroutines : (job[g].pc # "idle") ~> (job[g].pc = "idle" \/ []Waiting(g))
=============================================================================
