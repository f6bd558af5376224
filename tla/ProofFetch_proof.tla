-------------------------- MODULE ProofFetch_proof --------------------------
(***************************************************************************)
(* Proofs about ProofFetch for any nodes, goroutines, sizes and numbers of *)
(* attempts: its types, the clients of healthy nodes, the one result or    *)
(* none that each called node gets of a fetch, and that the ring of a node *)
(* keeps the promise of NodeHistory.                                       *)
(***************************************************************************)
EXTENDS ProofFetch, FiniteSetTheorems, SequenceTheorems, TLAPS

(* What is between the failures collected, the nodes called and the        *)
(* results given, for a goroutine in job that called t and gave g.         *)
Accounted(job, t, g) ==
    /\ job.pc = "idle" => t = {}
    /\ job.pc \notin {"idle", "reward", "score"} => job.failed = t
    /\ job.pc \in {"call", "reward"} => \E n \in Nodes : job.node = {n}
    /\ job.pc = "reward" => t = job.failed \cup job.node
    /\ job.pc # "score" => \A n \in Nodes : g[n] = 0
    /\ job.pc = "score" =>
          /\ job.failed \subseteq t
          /\ \A n \in Nodes : g[n] = IF n \in t \ job.failed THEN 1 ELSE 0

Accounts == \A f \in Fetchers : Accounted(fetch[f], tried[f], given[f])

(* A check has a client to make its requests with. *)
CheckHasClient == \A n \in Nodes : check[n] = "probe" => client[n]

IInv ==
    /\ TypeOK
    /\ HealthyHasClient
    /\ CheckHasClient
    /\ Accounts

-----------------------------------------------------------------------------
(* The ring *)

(* The remainder below the divisor and one turn above it. *)
LEMMA Turn ==
    ASSUME NEW k \in Nat \ {0}, NEW x \in 0..(2 * k - 1)
    PROVE  x % k = IF x < k THEN x ELSE x - k
  OBVIOUS

(* A write position goes on inside the ring. *)
LEMMA RecordTyped ==
    ASSUME NEW s \in Ring, NEW r \in BOOLEAN
    PROVE  RecordResult(s, r) \in Ring
<1>1. Size \in Nat \ {0} /\ s.head \in 0..(Size - 1) /\ s.count \in 0..Size
  BY FetchAssumption DEF Ring
<1>2. (s.head + 1) % Size \in 0..(Size - 1)
  BY <1>1
<1>3. [s.results EXCEPT ![s.head] = r] \in [0..(Size - 1) -> BOOLEAN]
  BY DEF Ring
<1>4. (IF s.count < Size THEN s.count + 1 ELSE s.count) \in 0..Size
  BY <1>1
<1>5. QED BY <1>2, <1>3, <1>4 DEF RecordResult, Ring

(* Where the i-th oldest result is. *)
LEMMA SlotAt ==
    ASSUME NEW s \in Ring, NEW i \in 0..(Size - 1), i <= s.count
    PROVE  Slot(s, i) = IF s.head - s.count + i < 0 THEN s.head - s.count + i + Size
                        ELSE IF s.head - s.count + i < Size THEN s.head - s.count + i
                        ELSE s.head - s.count + i - Size
<1>1. Size \in Nat \ {0} /\ s.head \in 0..(Size - 1) /\ s.count \in 0..Size
  BY FetchAssumption DEF Ring
<1>2. s.head - s.count + i + Size \in 0..(2 * Size - 1)
  BY <1>1
<1>3. QED BY <1>1, <1>2, Turn DEF Slot

(* In a ring that is not full a result goes to a slot of its own.          *)
LEMMA RoomLeft ==
    ASSUME NEW s \in Ring, NEW r \in BOOLEAN, s.count < Size
    PROVE  LET t == RecordResult(s, r)
           IN  /\ t.count = s.count + 1
               /\ Slot(t, s.count) = s.head
               /\ \A i \in 0..(s.count - 1) :
                     /\ Slot(t, i) = Slot(s, i)
                     /\ Slot(s, i) \in (0..(Size - 1)) \ {s.head}
<1> DEFINE t == RecordResult(s, r)
<1>1. Size \in Nat \ {0} /\ s.head \in 0..(Size - 1) /\ s.count \in 0..(Size - 1)
  BY FetchAssumption DEF Ring
<1>2. t \in Ring /\ t.count = s.count + 1 /\ t.head = (s.head + 1) % Size
  BY RecordTyped DEF RecordResult
<1>3. t.head = IF s.head + 1 < Size THEN s.head + 1 ELSE 0
  BY <1>1, <1>2, Turn
<1> HIDE DEF t
<1>4. Slot(t, s.count) = s.head
  BY <1>1, <1>2, <1>3, SlotAt
<1>5. ASSUME NEW i \in 0..(s.count - 1)
      PROVE  Slot(t, i) = Slot(s, i) /\ Slot(s, i) \in (0..(Size - 1)) \ {s.head}
  BY <1>1, <1>2, <1>3, SlotAt
<1>6. QED BY <1>2, <1>4, <1>5 DEF t

(* In a full ring it takes the slot of the oldest one. *)
LEMMA RingFull ==
    ASSUME NEW s \in Ring, NEW r \in BOOLEAN, s.count = Size
    PROVE  LET t == RecordResult(s, r)
           IN  /\ t.count = Size
               /\ Slot(t, Size - 1) = s.head
               /\ \A i \in 0..(Size - 2) :
                     /\ Slot(t, i) = Slot(s, i + 1)
                     /\ Slot(s, i + 1) \in (0..(Size - 1)) \ {s.head}
<1> DEFINE t == RecordResult(s, r)
<1>1. Size \in Nat \ {0} /\ s.head \in 0..(Size - 1)
  BY FetchAssumption DEF Ring
<1>2. t \in Ring /\ t.count = Size /\ t.head = (s.head + 1) % Size
  <2>1. t \in Ring
    BY RecordTyped
  <2>2. t.count = Size /\ t.head = (s.head + 1) % Size
    BY <1>1 DEF RecordResult
  <2>3. QED BY <2>1, <2>2
<1>3. t.head = IF s.head + 1 < Size THEN s.head + 1 ELSE 0
  BY <1>1, <1>2, Turn
<1> HIDE DEF t
<1>4. Slot(t, Size - 1) = s.head
  BY <1>1, <1>2, <1>3, SlotAt
<1>5. ASSUME NEW i \in 0..(Size - 2)
      PROVE  Slot(t, i) = Slot(s, i + 1) /\ Slot(s, i + 1) \in (0..(Size - 1)) \ {s.head}
  BY <1>1, <1>2, <1>3, SlotAt
<1>6. QED BY <1>2, <1>4, <1>5 DEF t

LEMMA RecentSeq ==
    ASSUME NEW s \in Ring
    PROVE  /\ Recent(s) \in Seq(BOOLEAN)
           /\ Len(Recent(s)) = s.count
           /\ \A i \in 1..s.count : Recent(s)[i] = s.results[Slot(s, i - 1)]
<1>1. Size \in Nat \ {0} /\ s.head \in 0..(Size - 1) /\ s.count \in 0..Size
  BY FetchAssumption DEF Ring
<1>2. \A i \in 1..s.count : s.results[Slot(s, i - 1)] \in BOOLEAN
  <2>1. TAKE i \in 1..s.count
  <2>2. Slot(s, i - 1) \in 0..(Size - 1)
    BY <1>1, SlotAt
  <2>3. QED BY <2>2 DEF Ring
<1>3. QED BY <1>1, <1>2 DEF Recent

(* A ring remembers what NodeHistory says. *)
LEMMA RecordRemembers ==
    ASSUME NEW s \in Ring, NEW r \in BOOLEAN
    PROVE  Recent(RecordResult(s, r)) = History!Remembered(Recent(s), r)
<1> DEFINE t == RecordResult(s, r)
           old == Recent(s)
           new == Recent(t)
<1>1. Size \in Nat \ {0} /\ s.head \in 0..(Size - 1) /\ s.count \in 0..Size
  BY FetchAssumption DEF Ring
<1>2. t \in Ring
  BY RecordTyped
<1>3. \A k \in 0..(Size - 1) : t.results[k] = IF k = s.head THEN r ELSE s.results[k]
  BY DEF RecordResult, Ring
<1>4. /\ old \in Seq(BOOLEAN)
      /\ Len(old) = s.count
      /\ \A i \in 1..s.count : old[i] = s.results[Slot(s, i - 1)]
  BY RecentSeq
<1>5. /\ new \in Seq(BOOLEAN)
      /\ Len(new) = t.count
      /\ \A i \in 1..t.count : new[i] = t.results[Slot(t, i - 1)]
  BY <1>2, RecentSeq
<1>6. CASE s.count < Size
  <2>1. /\ t.count = s.count + 1
        /\ Slot(t, s.count) = s.head
        /\ \A i \in 0..(s.count - 1) :
              /\ Slot(t, i) = Slot(s, i)
              /\ Slot(s, i) \in (0..(Size - 1)) \ {s.head}
    BY <1>6, RoomLeft
  <2> HIDE DEF t, old, new
  <2>2. /\ Append(old, r) \in Seq(BOOLEAN)
        /\ Len(Append(old, r)) = s.count + 1
        /\ \A i \in 1..s.count : Append(old, r)[i] = old[i]
        /\ Append(old, r)[s.count + 1] = r
    BY <1>4, AppendProperties
  <2>3. ASSUME NEW i \in 1..(s.count + 1) PROVE new[i] = Append(old, r)[i]
    <3>1. CASE i = s.count + 1
      <4>1. i - 1 = s.count /\ s.head \in 0..(Size - 1)
        BY <1>1, <3>1
      <4>2. new[i] = t.results[s.head]
        BY <1>5, <2>1, <3>1, <4>1
      <4>3. QED BY <1>3, <2>2, <3>1, <4>1, <4>2
    <3>2. CASE i \in 1..s.count
      <4>1. i - 1 \in 0..(s.count - 1)
        BY <1>1, <3>2
      <4>2. /\ Slot(t, i - 1) = Slot(s, i - 1)
            /\ Slot(s, i - 1) \in (0..(Size - 1)) \ {s.head}
        BY <2>1, <4>1
      <4>3. new[i] = t.results[Slot(t, i - 1)]
        BY <1>5, <2>1
      <4>4. QED BY <1>3, <1>4, <2>2, <3>2, <4>2, <4>3
    <3>3. i = s.count + 1 \/ i \in 1..s.count
      BY <1>1, <2>3
    <3>4. QED BY <3>1, <3>2, <3>3
  <2>4. new = Append(old, r)
    BY <1>5, <2>1, <2>2, <2>3, SeqEqual
  <2>5. QED BY <1>4, <1>6, <2>4 DEF History!Remembered, t, old, new
<1>7. CASE s.count = Size
  <2>1. /\ t.count = Size
        /\ Slot(t, Size - 1) = s.head
        /\ \A i \in 0..(Size - 2) :
              /\ Slot(t, i) = Slot(s, i + 1)
              /\ Slot(s, i + 1) \in (0..(Size - 1)) \ {s.head}
    BY <1>7, RingFull
  <2> HIDE DEF t, old, new
  <2>2. /\ Tail(old) \in Seq(BOOLEAN)
        /\ Len(Tail(old)) = Size - 1
        /\ \A i \in 1..(Size - 1) : Tail(old)[i] = old[i + 1]
    <3>1. old # <<>>
      BY <1>1, <1>4, <1>7
    <3>2. QED BY <1>4, <1>7, <3>1, HeadTailProperties
  <2>3. /\ Append(Tail(old), r) \in Seq(BOOLEAN)
        /\ Len(Append(Tail(old), r)) = Size
        /\ \A i \in 1..(Size - 1) : Append(Tail(old), r)[i] = old[i + 1]
        /\ Append(Tail(old), r)[Size] = r
    BY <1>1, <2>2, AppendProperties
  <2>4. ASSUME NEW i \in 1..Size PROVE new[i] = Append(Tail(old), r)[i]
    <3>1. CASE i = Size
      BY <1>1, <1>3, <1>5, <2>1, <2>3, <3>1
    <3>2. CASE i \in 1..(Size - 1)
      <4>1. i - 1 \in 0..(Size - 2) /\ i - 1 + 1 = i /\ i + 1 - 1 = i
        BY <1>1, <3>2
      <4>2. Slot(t, i - 1) = Slot(s, i) /\ Slot(s, i) \in (0..(Size - 1)) \ {s.head}
        BY <2>1, <4>1
      <4>3. new[i] = t.results[Slot(t, i - 1)]
        BY <1>5, <2>1
      <4>4. old[i + 1] = s.results[Slot(s, i)]
        BY <1>1, <1>4, <1>7, <3>2, <4>1
      <4>5. QED BY <1>3, <2>3, <3>2, <4>2, <4>3, <4>4
    <3>3. i = Size \/ i \in 1..(Size - 1)
      BY <1>1, <2>4
    <3>4. QED BY <3>1, <3>2, <3>3
  <2>5. new = Append(Tail(old), r)
    BY <1>5, <2>1, <2>3, <2>4, SeqEqual
  <2>6. QED BY <1>4, <1>7, <2>5 DEF History!Remembered, t, old, new
<1>8. QED BY <1>1, <1>6, <1>7

-----------------------------------------------------------------------------
(* The invariant *)

LEMMA InitInv == Init => IInv
<1> SUFFICES ASSUME Init PROVE IInv
  OBVIOUS
<1>1. EmptyRing \in Ring
  <2>1. Size \in Nat \ {0}
    BY FetchAssumption
  <2>2. [i \in 0..(Size - 1) |-> FALSE] \in [0..(Size - 1) -> BOOLEAN]
    OBVIOUS
  <2>3. QED BY <2>1, <2>2 DEF EmptyRing, Ring
<1>2. Idle \in Fetch
  BY FetchAssumption DEF Idle, Fetch
<1>3. TypeOK
  <2>1. height \in [Nodes -> 0..MaxHeight] /\ fetches \in 0..MaxFetches
    BY FetchAssumption DEF Init
  <2>2. ring \in [Nodes -> Ring] /\ fetch \in [Fetchers -> Fetch]
    BY <1>1, <1>2 DEF Init
  <2>3. given \in [Fetchers -> [Nodes -> 0..1]] /\ tried \in [Fetchers -> SUBSET Nodes]
    BY DEF Init
  <2>4. check \in [Nodes -> {"idle", "probe"}]
    BY DEF Init
  <2>5. QED BY <2>1, <2>2, <2>3, <2>4 DEF Init, TypeOK
<1>4. Accounts
  <2>1. ASSUME NEW f \in Fetchers PROVE Accounted(fetch[f], tried[f], given[f])
    <3>1. fetch[f] = Idle /\ tried[f] = {} /\ \A n \in Nodes : given[f][n] = 0
      BY DEF Init
    <3>2. Idle.pc = "idle"
      BY DEF Idle
    <3>3. QED BY <3>1, <3>2 DEF Accounted
  <2>2. QED BY <2>1 DEF Accounts
<1>5. QED BY <1>3, <1>4 DEF Init, IInv, HealthyHasClient, CheckHasClient

(* A step of goroutine f that leaves the nodes alone.                      *)
LEMMA Moved ==
    ASSUME IInv, NEW f \in Fetchers,
           NEW job \in Fetch, NEW t \in SUBSET Nodes, NEW g \in [Nodes -> 0..1],
           Accounted(job, t, g),
           Go(f, job),
           tried' = [tried EXCEPT ![f] = t],
           given' = [given EXCEPT ![f] = g],
           ring' \in [Nodes -> Ring],
           fetches' \in 0..MaxFetches,
           UNCHANGED <<nodeVars, panicked>>
    PROVE  IInv'
<1>1. TypeOK'
  BY DEF IInv, TypeOK, Go, nodeVars
<1>2. HealthyHasClient' /\ CheckHasClient'
  BY DEF IInv, HealthyHasClient, CheckHasClient, nodeVars
<1>3. Accounts'
  <2>1. ASSUME NEW e \in Fetchers PROVE Accounted(fetch[e], tried[e], given[e])'
    <3>1. CASE e = f
      <4>1. fetch'[e] = job /\ tried'[e] = t /\ given'[e] = g
        BY <3>1 DEF IInv, TypeOK, Go
      <4>2. QED BY <4>1 DEF Accounted
    <3>2. CASE e # f
      <4>1. fetch'[e] = fetch[e] /\ tried'[e] = tried[e] /\ given'[e] = given[e]
        BY <3>2 DEF IInv, TypeOK, Go
      <4>2. Accounted(fetch[e], tried[e], given[e])
        BY DEF IInv, Accounts
      <4>3. QED BY <4>1, <4>2 DEF Accounted
    <3>3. QED BY <3>1, <3>2
  <2>2. QED BY <2>1 DEF Accounts
<1>4. QED BY <1>1, <1>2, <1>3 DEF IInv

(* What a fetch sees of a node is a candidate. *)
LEMMA SeenTyped ==
    ASSUME TypeOK, NEW n \in Nodes, NEW h \in 0..MaxHeight
    PROVE  Seen(n, h) \in Candidate
<1> DEFINE I == 0..(ring[n].count - 1)
           W == {i \in I : ring[n].results[Slot(ring[n], i)]}
<1>1. ring[n] \in Ring /\ Size \in Nat \ {0}
  BY FetchAssumption DEF TypeOK
<1>2. ring[n].count \in Nat
  BY <1>1 DEF Ring
<1>3. IsFiniteSet(I)
  <2>1. 0 \in Int /\ ring[n].count - 1 \in Int
    BY <1>2
  <2>2. QED BY <2>1, FS_Interval
<1>4. W \subseteq I
  OBVIOUS
<1>5. IsFiniteSet(W)
  BY <1>3, <1>4, FS_Subset
<1>6. Cardinality(W) \in Nat
  BY <1>5, FS_CardinalityType
<1>7. Successes(ring[n]) \in Nat
  BY <1>6 DEF Successes
<1>8. (height[n] >= h) \in BOOLEAN
  OBVIOUS
<1>9. QED BY <1>2, <1>7, <1>8 DEF Seen, Candidate

(* A step of a node that leaves the goroutines alone.                      *)
LEMMA NodeInv ==
    ASSUME IInv, NEW n \in Nodes, NodeStep(n)
    PROVE  IInv'
<1>1. UNCHANGED outsideNode
  BY DEF NodeStep, BeginCheck, CheckEnds, BlockNumberFails, SyncProgressFails, CheckPasses,
         UpdateHeight
<1>2. Accounts'
  BY <1>1 DEF IInv, Accounts, Accounted, outsideNode, fetchVars
<1>3. TypeOK'
  <2>1. client' \in [Nodes -> BOOLEAN] /\ healthy' \in [Nodes -> BOOLEAN]
    BY DEF IInv, TypeOK, NodeStep, BeginCheck, CheckEnds, BlockNumberFails, SyncProgressFails,
           CheckPasses, UpdateHeight
  <2>2. height' \in [Nodes -> 0..MaxHeight]
    <3>1. CASE UpdateHeight(n)
      BY <3>1, FetchAssumption DEF IInv, TypeOK, UpdateHeight, Heights
    <3>2. CASE BeginCheck(n) \/ CheckEnds(n)
      BY <3>2 DEF IInv, TypeOK, BeginCheck, CheckEnds, BlockNumberFails, SyncProgressFails,
                  CheckPasses
    <3>3. QED BY <3>1, <3>2 DEF NodeStep
  <2>3. check' \in [Nodes -> {"idle", "probe"}]
    BY DEF IInv, TypeOK, NodeStep, BeginCheck, CheckEnds, BlockNumberFails, SyncProgressFails,
           CheckPasses, UpdateHeight, EndCheck
  <2>4. QED BY <1>1, <2>1, <2>2, <2>3 DEF IInv, TypeOK, outsideNode, fetchVars
<1>4. HealthyHasClient' /\ CheckHasClient'
  <2>1. CASE BeginCheck(n)
    BY <2>1 DEF IInv, TypeOK, HealthyHasClient, CheckHasClient, BeginCheck
  <2>2. CASE BlockNumberFails(n)
    BY <2>2 DEF IInv, TypeOK, HealthyHasClient, CheckHasClient, BlockNumberFails, EndCheck
  <2>3. CASE SyncProgressFails(n)
    BY <2>3 DEF IInv, TypeOK, HealthyHasClient, CheckHasClient, SyncProgressFails, EndCheck
  <2>4. CASE CheckPasses(n)
    BY <2>4 DEF IInv, TypeOK, HealthyHasClient, CheckHasClient, CheckPasses, EndCheck
  <2>5. CASE UpdateHeight(n)
    BY <2>5 DEF IInv, HealthyHasClient, CheckHasClient, UpdateHeight
  <2>6. QED BY <2>1, <2>2, <2>3, <2>4, <2>5 DEF NodeStep, CheckEnds
<1>5. QED BY <1>2, <1>3, <1>4 DEF IInv

(* A step of goroutine f before the call of its candidate changes nothing  *)
(* that the accounts speak of.                                             *)
LEMMA Prepared ==
    ASSUME IInv, NEW f \in Fetchers, NEW job \in Fetch,
           Go(f, job),
           fetch[f].pc \notin {"idle", "reward", "score"},
           job.pc \notin {"idle", "reward", "score"},
           job.failed = fetch[f].failed,
           job.pc = "call" => \E n \in Nodes : job.node = {n},
           UNCHANGED <<ring, tried, given, outsideFetch>>
    PROVE  IInv'
<1>1. /\ fetch[f] \in Fetch
      /\ tried[f] \in SUBSET Nodes
      /\ given[f] \in [Nodes -> 0..1]
      /\ Accounted(fetch[f], tried[f], given[f])
  BY DEF IInv, TypeOK, Accounts
<1>2. Accounted(job, tried[f], given[f])
  BY <1>1 DEF Accounted
<1>3. /\ tried' = [tried EXCEPT ![f] = tried[f]]
      /\ given' = [given EXCEPT ![f] = given[f]]
      /\ ring' \in [Nodes -> Ring]
      /\ fetches' \in 0..MaxFetches
  BY DEF IInv, TypeOK, outsideFetch
<1>4. UNCHANGED <<nodeVars, panicked>>
  BY DEF outsideFetch
<1>5. QED BY <1>1, <1>2, <1>3, <1>4, Moved

(* The goroutine returns from wherever it is. *)
LEMMA Returned ==
    ASSUME IInv, NEW f \in Fetchers, Return(f)
    PROVE  IInv'
<1> DEFINE g == [n \in Nodes |-> 0]
<1>1. Idle \in Fetch
  BY FetchAssumption DEF Idle, Fetch
<1>2. g \in [Nodes -> 0..1] /\ {} \in SUBSET Nodes
  OBVIOUS
<1>3. Accounted(Idle, {}, g)
  BY DEF Accounted, Idle
<1>4. /\ Go(f, Idle)
      /\ tried' = [tried EXCEPT ![f] = {}]
      /\ given' = [given EXCEPT ![f] = g]
      /\ ring' \in [Nodes -> Ring]
      /\ fetches' \in 0..MaxFetches
      /\ UNCHANGED <<nodeVars, panicked>>
  BY DEF Return, IInv, TypeOK, outsideFetch
<1> HIDE DEF g
<1>5. QED BY <1>1, <1>2, <1>3, <1>4, Moved

(* A result given to node n by goroutine f, which is left with job.        *)
LEMMA Given ==
    ASSUME IInv, NEW f \in Fetchers, NEW n \in Nodes, NEW r \in BOOLEAN, NEW job \in Fetch,
           Give(f, n, r),
           given[f][n] = 0,
           Accounted(job, tried[f], [given[f] EXCEPT ![n] = 1]),
           Go(f, job),
           UNCHANGED <<tried, outsideFetch>>
    PROVE  IInv'
<1> DEFINE g == [given[f] EXCEPT ![n] = 1]
<1>1. given[f] \in [Nodes -> 0..1] /\ given \in [Fetchers -> [Nodes -> 0..1]]
  BY DEF IInv, TypeOK
<1>2. g \in [Nodes -> 0..1]
  BY <1>1
<1>3. given' = [given EXCEPT ![f] = g]
  BY <1>1 DEF Give
<1>4. ring' \in [Nodes -> Ring]
  BY RecordTyped DEF Give, IInv, TypeOK
<1>5. tried' = [tried EXCEPT ![f] = tried[f]] /\ tried[f] \in SUBSET Nodes
  BY DEF IInv, TypeOK
<1>6. fetches' \in 0..MaxFetches /\ UNCHANGED <<nodeVars, panicked>>
  BY DEF IInv, TypeOK, outsideFetch
<1> HIDE DEF g
<1>7. Accounted(job, tried[f], g)
  BY DEF g
<1>8. QED BY <1>2, <1>3, <1>4, <1>5, <1>6, <1>7, Moved

LEMMA StartInv ==
    ASSUME IInv, NEW f \in Fetchers, StartFetch(f)
    PROVE  IInv'
<1>1. PICK h \in 0..MaxHeight :
         Go(f, [Idle EXCEPT !.pc = "select", !.block = h, !.todo = Nodes])
  <2>1. PICK n \in Nodes :
           \E h \in 1..height[n] :
              Go(f, [Idle EXCEPT !.pc = "select", !.block = h, !.todo = Nodes])
    BY DEF StartFetch
  <2>2. height[n] \in 0..MaxHeight
    BY DEF IInv, TypeOK
  <2>3. 1..height[n] \subseteq 0..MaxHeight
    BY <2>2, FetchAssumption
  <2>4. QED BY <2>1, <2>3
<1> DEFINE job == [Idle EXCEPT !.pc = "select", !.block = h, !.todo = Nodes]
<1>2. job \in Fetch /\ job.pc = "select" /\ job.failed = {}
  BY FetchAssumption DEF IInv, TypeOK, Idle, Fetch
<1> HIDE DEF job
<1>3. /\ fetch[f].pc = "idle"
      /\ tried[f] \in SUBSET Nodes
      /\ given[f] \in [Nodes -> 0..1]
      /\ Accounted(fetch[f], tried[f], given[f])
  BY DEF IInv, TypeOK, Accounts, StartFetch
<1>4. Accounted(job, tried[f], given[f])
  BY <1>2, <1>3 DEF Accounted
<1>5. /\ tried' = [tried EXCEPT ![f] = tried[f]]
      /\ given' = [given EXCEPT ![f] = given[f]]
      /\ ring' \in [Nodes -> Ring]
      /\ UNCHANGED <<nodeVars, panicked>>
  BY DEF IInv, TypeOK, StartFetch
<1>6. fetches' \in 0..MaxFetches
  BY FetchAssumption DEF IInv, TypeOK, StartFetch
<1>7. QED BY <1>1, <1>2, <1>3, <1>4, <1>5, <1>6, Moved DEF job

LEMMA FetchInv ==
    ASSUME IInv, NEW f \in Fetchers, FetchStep(f)
    PROVE  IInv'
<1> DEFINE old == fetch[f]
<1>0. /\ old \in Fetch
      /\ tried[f] \in SUBSET Nodes
      /\ given[f] \in [Nodes -> 0..1]
      /\ Accounted(old, tried[f], given[f])
  BY DEF IInv, TypeOK, Accounts
<1>1. CASE LookAt(f)
  <2>1. PICK n \in old.todo :
           Go(f, [old EXCEPT !.todo = @ \ {n},
                             !.cands = IF client[n] /\ healthy[n]
                                       THEN @ \cup {Seen(n, old.block)} ELSE @])
    BY <1>1 DEF LookAt
  <2> DEFINE c   == Seen(n, old.block)
             job == [old EXCEPT !.todo = @ \ {n},
                                !.cands = IF client[n] /\ healthy[n] THEN @ \cup {c} ELSE @]
  <2>a. n \in Nodes /\ old.block \in 0..MaxHeight
    BY <1>0, <2>1 DEF Fetch
  <2>b. c \in Candidate
    BY <2>a, SeenTyped DEF IInv
  <2> HIDE DEF c
  <2>2. job \in Fetch /\ job.pc = old.pc /\ job.failed = old.failed
    BY <1>0, <2>b DEF Fetch
  <2>3. old.pc \in {"select", "gather"} /\ UNCHANGED <<ring, tried, given, outsideFetch>>
    BY <1>1 DEF LookAt
  <2> HIDE DEF job
  <2>4. QED BY <2>1, <2>2, <2>3, Prepared DEF job, c
<1>2. CASE PassOver(f)
  <2>1. PICK n \in old.todo : Go(f, [old EXCEPT !.todo = @ \ {n}])
    BY <1>2 DEF PassOver
  <2> DEFINE job == [old EXCEPT !.todo = @ \ {n}]
  <2>2. job \in Fetch /\ job.pc = old.pc /\ job.failed = old.failed
    BY <1>0 DEF Fetch
  <2>3. old.pc = "gather" /\ UNCHANGED <<ring, tried, given, outsideFetch>>
    BY <1>2 DEF PassOver
  <2> HIDE DEF job
  <2>4. QED BY <2>1, <2>2, <2>3, Prepared DEF job
<1>3. CASE NoProofNode(f) \/ NoCandidate(f) \/ CallCancelled(f) \/ FinishFetch(f)
  BY <1>3, Returned DEF NoProofNode, NoCandidate, CallCancelled, FinishFetch
<1>4. CASE SelectNode(f)
  <2>1. PICK c \in AtPosition(old.cands, 0) :
           Go(f, [old EXCEPT !.pc = "await", !.node = {c.node}, !.cands = {}])
    BY <1>4 DEF SelectNode
  <2> DEFINE job == [old EXCEPT !.pc = "await", !.node = {c.node}, !.cands = {}]
  <2>2. c.node \in Nodes
    BY <1>0, <2>1 DEF AtPosition, Fetch, Candidate
  <2>3. job \in Fetch /\ job.pc = "await" /\ job.failed = old.failed
    BY <1>0, <2>2 DEF Fetch
  <2>4. old.pc = "select" /\ UNCHANGED <<ring, tried, given, outsideFetch>>
    BY <1>4 DEF SelectNode
  <2> HIDE DEF job
  <2>5. QED BY <2>1, <2>3, <2>4, Prepared DEF job
<1>5. ASSUME NEW k \in Nat PROVE
         /\ Gathering(old, k) \in Fetch
         /\ Gathering(old, k).pc = "gather"
         /\ Gathering(old, k).failed = old.failed
  BY <1>0 DEF Gathering, Fetch
<1>6. CASE AwaitHeight(f)
  <2>1. old.pc = "await" /\ UNCHANGED <<ring, tried, given, outsideFetch>>
    BY <1>6 DEF AwaitHeight
  <2>2. CASE Go(f, Gathering(old, 0))
    BY <1>5, <2>1, <2>2, Prepared
  <2>3. CASE Go(f, [old EXCEPT !.pc = "ask"])
    <3> DEFINE job == [old EXCEPT !.pc = "ask"]
    <3>1. job \in Fetch /\ job.pc = "ask" /\ job.failed = old.failed
      BY <1>0 DEF Fetch
    <3> HIDE DEF job
    <3>2. QED BY <2>1, <2>3, <3>1, Prepared DEF job
  <2>4. QED BY <1>6, <2>2, <2>3 DEF AwaitHeight
<1>7. CASE AskForTime(f)
  <2>1. /\ old.pc = "ask"
        /\ Go(f, Gathering(old, 0))
        /\ UNCHANGED <<ring, tried, given, outsideFetch>>
    BY <1>7 DEF AskForTime
  <2>2. QED BY <1>5, <2>1, Prepared
<1>8. CASE AskAgain(f)
  <2> DEFINE job == [old EXCEPT !.attempt = @ + 1]
  <2>1. job \in Fetch /\ job.pc = old.pc /\ job.failed = old.failed
    BY <1>0 DEF Fetch
  <2>2. old.pc = "ask" /\ Go(f, job) /\ UNCHANGED <<ring, tried, given, outsideFetch>>
    BY <1>8 DEF AskAgain
  <2> HIDE DEF job
  <2>3. QED BY <2>1, <2>2, Prepared
<1>9. CASE ChooseCandidate(f)
  <2>1. PICK c \in AtPosition(old.cands, old.attempt % Cardinality(old.cands)) :
           Go(f, [old EXCEPT !.pc = "call", !.node = {c.node}, !.cands = {}])
    BY <1>9 DEF ChooseCandidate
  <2> DEFINE job == [old EXCEPT !.pc = "call", !.node = {c.node}, !.cands = {}]
  <2>2. c.node \in Nodes
    BY <1>0, <2>1 DEF AtPosition, Fetch, Candidate
  <2>3. job \in Fetch /\ job.pc = "call" /\ job.failed = old.failed /\ job.node = {c.node}
    BY <1>0, <2>2 DEF Fetch
  <2>4. old.pc = "gather" /\ UNCHANGED <<ring, tried, given, outsideFetch>>
    BY <1>9 DEF ChooseCandidate
  <2> HIDE DEF job
  <2>5. QED BY <2>1, <2>2, <2>3, <2>4, Prepared DEF job
<1>10. CASE CallSucceeds(f)
  <2> DEFINE job == [old EXCEPT !.pc = "reward"]
             t   == tried[f] \cup old.node
  <2>1. /\ job \in Fetch /\ t \in SUBSET Nodes
        /\ job.pc = "reward" /\ job.failed = old.failed /\ job.node = old.node
    BY <1>0 DEF Fetch
  <2>2. /\ old.pc = "call"
        /\ Go(f, job)
        /\ tried' = [tried EXCEPT ![f] = t]
        /\ UNCHANGED <<ring, given, outsideFetch>>
    BY <1>10 DEF CallSucceeds, CanCall
  <2> HIDE DEF job
  <2>3. Accounted(job, t, given[f])
    BY <1>0, <2>1, <2>2 DEF Accounted
  <2>4. /\ given' = [given EXCEPT ![f] = given[f]]
        /\ ring' \in [Nodes -> Ring]
        /\ fetches' \in 0..MaxFetches
        /\ UNCHANGED <<nodeVars, panicked>>
    BY <2>2 DEF IInv, TypeOK, outsideFetch
  <2> HIDE DEF t
  <2>5. QED BY <1>0, <2>1, <2>2, <2>3, <2>4, Moved
<1>11. CASE CallFails(f)
  <2> DEFINE mid == [old EXCEPT !.failed = @ \cup old.node]
             job == IF mid.attempt + 1 < Attempts THEN Gathering(mid, mid.attempt + 1)
                                                  ELSE Scoring(mid)
             t   == tried[f] \cup old.node
  <2>1. /\ mid \in Fetch /\ t \in SUBSET Nodes
        /\ mid.failed = old.failed \cup old.node
        /\ mid.attempt \in Nat
    BY <1>0 DEF Fetch
  <2>2. /\ old.pc = "call"
        /\ Go(f, job)
        /\ tried' = [tried EXCEPT ![f] = t]
        /\ UNCHANGED <<ring, given, outsideFetch>>
    BY <1>11 DEF CallFails, CanCall
  <2> HIDE DEF mid
  <2>3. job \in Fetch /\ job.pc \in {"gather", "score"} /\ job.failed = mid.failed
    <3>1. ASSUME NEW k \in Nat PROVE
             /\ Gathering(mid, k) \in Fetch
             /\ Gathering(mid, k).pc = "gather"
             /\ Gathering(mid, k).failed = mid.failed
      BY <2>1 DEF Gathering, Fetch
    <3>2. /\ Scoring(mid) \in Fetch
          /\ Scoring(mid).pc = "score"
          /\ Scoring(mid).failed = mid.failed
      BY <2>1 DEF Scoring, Fetch
    <3>3. mid.attempt + 1 \in Nat
      BY <2>1
    <3>4. QED BY <3>1, <3>2, <3>3
  <2> HIDE DEF job
  <2>4. Accounted(job, t, given[f])
    BY <1>0, <2>1, <2>2, <2>3 DEF Accounted
  <2>5. /\ given' = [given EXCEPT ![f] = given[f]]
        /\ ring' \in [Nodes -> Ring]
        /\ fetches' \in 0..MaxFetches
        /\ UNCHANGED <<nodeVars, panicked>>
    BY <2>2 DEF IInv, TypeOK, outsideFetch
  <2> HIDE DEF t
  <2>6. QED BY <1>0, <2>1, <2>2, <2>3, <2>4, <2>5, Moved
<1>12. CASE CallNilClient(f)
  <2>1. panicked' \in BOOLEAN /\ UNCHANGED <<nodeVars, ring, fetchVars>>
    BY <1>12 DEF CallNilClient
  <2>2. QED BY <2>1 DEF IInv, TypeOK, HealthyHasClient, CheckHasClient, Accounts, Accounted,
                        nodeVars, fetchVars
<1>13. CASE Reward(f)
  <2>1. old.pc = "reward" /\ UNCHANGED <<tried, outsideFetch>>
    BY <1>13 DEF Reward
  <2>2. PICK n \in Nodes : old.node = {n}
    BY <1>0, <2>1 DEF Accounted
  <2> DEFINE mid == [old EXCEPT !.failed = @ \ old.node]
             job == Scoring(mid)
  <2>3. Give(f, n, TRUE) /\ Go(f, job)
    BY <1>13, <2>2 DEF Reward
  <2>4. mid \in Fetch /\ mid.failed = old.failed \ {n}
    BY <1>0, <2>2 DEF Fetch
  <2> HIDE DEF mid
  <2>5. job \in Fetch /\ job.pc = "score" /\ job.failed = old.failed \ {n}
    BY <2>4 DEF Scoring, Fetch
  <2> HIDE DEF job
  <2>6. given[f][n] = 0 /\ tried[f] = old.failed \cup {n}
    BY <1>0, <2>1, <2>2 DEF Accounted
  <2>7. Accounted(job, tried[f], [given[f] EXCEPT ![n] = 1])
    BY <1>0, <2>1, <2>5, <2>6 DEF Accounted
  <2>8. QED BY <2>1, <2>3, <2>5, <2>6, <2>7, Given
<1>14. CASE RecordFailure(f)
  <2>1. old.pc = "score" /\ UNCHANGED <<tried, outsideFetch>>
    BY <1>14 DEF RecordFailure
  <2>2. PICK n \in old.failed : Give(f, n, FALSE) /\ Go(f, [old EXCEPT !.failed = @ \ {n}])
    BY <1>14 DEF RecordFailure
  <2> DEFINE job == [old EXCEPT !.failed = @ \ {n}]
  <2>3. job \in Fetch /\ job.pc = "score" /\ job.failed = old.failed \ {n}
    BY <1>0, <2>1 DEF Fetch
  <2> HIDE DEF job
  <2>4. n \in Nodes /\ n \in tried[f] /\ given[f][n] = 0
    BY <1>0, <2>1, <2>2 DEF Accounted, Fetch
  <2>5. Accounted(job, tried[f], [given[f] EXCEPT ![n] = 1])
    BY <1>0, <2>1, <2>2, <2>3, <2>4 DEF Accounted
  <2>6. QED BY <2>1, <2>2, <2>3, <2>4, <2>5, Given DEF job
<1>15. QED BY <1>1, <1>2, <1>3, <1>4, <1>6, <1>7, <1>8, <1>9, <1>10, <1>11, <1>12, <1>13, <1>14
           DEF FetchStep

LEMMA InvStep ==
    ASSUME IInv, [Next]_vars
    PROVE  IInv'
<1>1. ASSUME NEW n \in Nodes, NodeStep(n) PROVE IInv'
  BY <1>1, NodeInv
<1>2. ASSUME NEW f \in Fetchers, StartFetch(f) PROVE IInv'
  BY <1>2, StartInv
<1>3. ASSUME NEW f \in Fetchers, FetchStep(f) PROVE IInv'
  BY <1>3, FetchInv
<1>4. CASE UNCHANGED vars
  BY <1>4 DEF IInv, TypeOK, HealthyHasClient, CheckHasClient, Accounts, Accounted, vars,
              nodeVars, fetchVars
<1>5. QED BY <1>1, <1>2, <1>3, <1>4 DEF Next

(* The inductive invariant holds in every behaviour. *)
THEOREM Invariance == Spec => []IInv
<1>1. Init => IInv
  BY InitInv
<1>2. IInv /\ [Next]_vars => IInv'
  BY InvStep
<1>3. QED BY <1>1, <1>2, PTL DEF Spec

-----------------------------------------------------------------------------
(* Type correctness. *)
THEOREM TypeCorrect == Spec => []TypeOK
<1>1. IInv => TypeOK
  BY DEF IInv
<1>2. QED BY <1>1, Invariance, PTL

(* A node that passes for healthy has a client, whatever way its checks    *)
(* end.                                                                    *)
THEOREM HealthyClients == Spec => []HealthyHasClient
<1>1. IInv => HealthyHasClient
  BY DEF IInv
<1>2. QED BY <1>1, Invariance, PTL

(* What a step does to a fetch that has another place in the code after it,*)
(* or another account of its results: it is a step of that goroutine.      *)
LEMMA OwnStep ==
    ASSUME IInv, [Next]_vars, NEW f \in Fetchers,
           fetch'[f] # fetch[f] \/ given'[f] # given[f]
    PROVE  StartFetch(f) \/ FetchStep(f)
<1>1. ~ UNCHANGED vars
  BY DEF vars, fetchVars
<1>2. ASSUME NEW n \in Nodes, NodeStep(n) PROVE FALSE
  BY <1>2 DEF NodeStep, BeginCheck, CheckEnds, BlockNumberFails, SyncProgressFails,
              CheckPasses, UpdateHeight, outsideNode, fetchVars
<1>3. ASSUME NEW e \in Fetchers, e # f, StartFetch(e) \/ FetchStep(e) PROVE FALSE
  <2>1. \A job : Go(e, job) => fetch'[f] = fetch[f]
    BY <1>3 DEF Go, IInv, TypeOK
  <2>2. \A n \in Nodes, r \in BOOLEAN : Give(e, n, r) => given'[f] = given[f]
    BY <1>3 DEF Give, IInv, TypeOK
  <2>3. Return(e) => given'[f] = given[f]
    BY <1>3 DEF Return, IInv, TypeOK
  <2>4. fetch[e].node \subseteq Nodes /\ fetch[e].failed \subseteq Nodes
    BY DEF IInv, TypeOK, Fetch
  <2>5. fetch'[f] = fetch[f]
    BY <1>3, <2>1 DEF StartFetch, FetchStep, LookAt, PassOver, NoProofNode, SelectNode,
         AwaitHeight, AskForTime, AskAgain, NoCandidate, ChooseCandidate, CallSucceeds,
         CallFails, CallCancelled, CallNilClient, Reward, RecordFailure, FinishFetch, Return,
         fetchVars
  <2>6. CASE Reward(e) \/ RecordFailure(e)
    BY <2>2, <2>4, <2>5, <2>6 DEF Reward, RecordFailure
  <2>7. given'[f] = given[f] \/ Reward(e) \/ RecordFailure(e)
    BY <1>3, <2>3 DEF StartFetch, FetchStep, LookAt, PassOver, NoProofNode, SelectNode,
         AwaitHeight, AskForTime, AskAgain, NoCandidate, ChooseCandidate, CallSucceeds,
         CallFails, CallCancelled, CallNilClient, FinishFetch, fetchVars
  <2>8. QED BY <2>5, <2>6, <2>7
<1>4. QED BY <1>1, <1>2, <1>3 DEF Next

(* A goroutine gives results in the last two places of its loop only.      *)
LEMMA GivenAtEnd ==
    ASSUME IInv, NEW f \in Fetchers, StartFetch(f) \/ FetchStep(f),
           fetch[f].pc \notin {"reward", "score"}
    PROVE  \A n \in Nodes : given'[f][n] = 0
<1>1. Accounted(fetch[f], tried[f], given[f])
  BY DEF IInv, Accounts
<1>2. \A n \in Nodes : given[f][n] = 0
  BY <1>1 DEF Accounted
<1>3. Return(f) => \A n \in Nodes : given'[f][n] = 0
  BY DEF Return, IInv, TypeOK
<1>4. given' = given \/ Return(f)
  BY DEF StartFetch, FetchStep, LookAt, PassOver, NoProofNode, SelectNode,
         AwaitHeight, AskForTime, AskAgain, NoCandidate, ChooseCandidate, CallSucceeds,
         CallFails, CallCancelled, CallNilClient, Reward, RecordFailure, FinishFetch,
         fetchVars
<1>5. QED BY <1>2, <1>3, <1>4

(* From the last place it returns with no failure left to record.          *)
LEMMA ReturnsFromScore ==
    ASSUME IInv, NEW f \in Fetchers, StartFetch(f) \/ FetchStep(f),
           fetch[f].pc = "score", fetch'[f].pc = "idle"
    PROVE  fetch[f].failed = {}
<1>1. ~ RecordFailure(f)
  <2>1. \A n : Go(f, [fetch[f] EXCEPT !.failed = @ \ {n}]) => fetch'[f].pc = fetch[f].pc
    BY DEF Go, IInv, TypeOK, Fetch
  <2>2. QED BY <2>1 DEF RecordFailure
<1>2. FinishFetch(f)
  BY <1>1 DEF StartFetch, FetchStep, LookAt, PassOver, NoProofNode, SelectNode,
         AwaitHeight, AskForTime, AskAgain, NoCandidate, ChooseCandidate, CallSucceeds,
         CallFails, CallCancelled, CanCall, CallNilClient, Reward
<1>3. QED BY <1>2 DEF FinishFetch

(* A fetch that returns from its loop has recorded exactly one result for  *)
(* each node that it called; one that is given up has recorded none.       *)
THEOREM ScoresOnce == Spec => ScoredOnce
<1>1. ASSUME IInv, [Next]_vars, NEW f \in Fetchers
      PROVE  Settles(f)
  <2>1. /\ given[f] \in [Nodes -> 0..1] /\ given'[f] \in [Nodes -> 0..1]
        /\ Accounted(fetch[f], tried[f], given[f])
    <3>1. IInv'
      BY <1>1, InvStep
    <3>2. QED BY <1>1, <3>1 DEF IInv, TypeOK, Accounts
  <2> DEFINE Once == [n \in Nodes |-> IF n \in tried[f] THEN 1 ELSE 0]
             None == [n \in Nodes |-> 0]
  <2>2. ASSUME fetch[f].pc \notin {"reward", "score"}
        PROVE  given'[f] = None
    <3>1. fetch[f].pc \notin {"reward", "score"}
      BY <2>2
    <3>2. CASE given'[f] = given[f]
      BY <2>1, <3>1, <3>2 DEF Accounted
    <3>3. CASE given'[f] # given[f]
      <4>1. \A n \in Nodes : given'[f][n] = 0
        BY <1>1, <3>1, <3>3, OwnStep, GivenAtEnd
      <4>2. QED BY <2>1, <4>1
    <3>4. QED BY <3>2, <3>3
  <2>3. ASSUME fetch[f].pc # "idle", fetch'[f].pc = "idle"
        PROVE  given[f] = IF fetch[f].pc = "score" THEN Once ELSE None
    <3>1. fetch[f].pc # "idle" /\ fetch'[f].pc = "idle"
      BY <2>3
    <3>2. CASE fetch[f].pc # "score"
      BY <2>1, <3>2 DEF Accounted
    <3>3. CASE fetch[f].pc = "score"
      <4>1. fetch[f].failed = {}
        BY <1>1, <3>1, <3>3, OwnStep, ReturnsFromScore
      <4>2. \A n \in Nodes : given[f][n] = IF n \in tried[f] THEN 1 ELSE 0
        BY <2>1, <3>3, <4>1 DEF Accounted
      <4>3. QED BY <2>1, <3>3, <4>2
    <3>4. QED BY <3>2, <3>3
  <2>4. QED BY <2>2, <2>3 DEF Settles
<1>2. IInv /\ [Next]_vars => [\A f \in Fetchers : Settles(f)]_vars
  BY <1>1
<1>3. QED BY <1>2, Invariance, PTL DEF Spec, ScoredOnce

-----------------------------------------------------------------------------
(* The refinement of NodeHistory *)

LEMMA HistoryInit == Init => History!Init
<1> SUFFICES ASSUME Init PROVE History!Init
  OBVIOUS
<1>1. \A n \in Nodes : Recent(ring[n]) = <<>>
  BY DEF Init, EmptyRing, Recent
<1>2. QED BY <1>1 DEF History!Init, LastResults

(* A step that gives no result is a stutter. *)
LEMMA HistoryKept ==
    ASSUME ring' = ring
    PROVE  LastResults' = LastResults
  BY DEF LastResults, Recent, Slot

(* A result given to a node is appended to what it remembers.              *)
LEMMA HistoryGiven ==
    ASSUME IInv, NEW f \in Fetchers, NEW n \in Nodes, NEW r \in BOOLEAN, Give(f, n, r)
    PROVE  History!Next
<1>1. /\ ring \in [Nodes -> Ring]
      /\ ring' = [ring EXCEPT ![n] = RecordResult(ring[n], r)]
  BY DEF IInv, TypeOK, Give
<1>2. \A m \in Nodes : ring'[m] = IF m = n THEN RecordResult(ring[n], r) ELSE ring[m]
  BY <1>1
<1>3. Recent(RecordResult(ring[n], r)) = History!Remembered(Recent(ring[n]), r)
  BY <1>1, RecordRemembers
<1>4. LastResults' = [m \in Nodes |-> Recent(ring'[m])]
  BY DEF LastResults, Recent, Slot
<1>5. LastResults' = [LastResults EXCEPT ![n] = History!Remembered(LastResults[n], r)]
  BY <1>2, <1>3, <1>4 DEF LastResults
<1>6. QED BY <1>5 DEF History!Next, History!Record

LEMMA HistoryStep ==
    ASSUME IInv, [Next]_vars
    PROVE  [History!Next]_LastResults
<1>1. CASE ring' = ring
  BY <1>1, HistoryKept
<1>2. ASSUME NEW f \in Fetchers, Reward(f) \/ RecordFailure(f) PROVE History!Next
  <2>1. PICK n \in Nodes, r \in BOOLEAN : Give(f, n, r)
    <3>1. fetch[f].node \subseteq Nodes /\ fetch[f].failed \subseteq Nodes
      BY DEF IInv, TypeOK, Fetch
    <3>2. QED BY <1>2, <3>1 DEF Reward, RecordFailure
  <2>2. QED BY <2>1, HistoryGiven
<1>3. ASSUME ring' # ring
      PROVE  \E f \in Fetchers : Reward(f) \/ RecordFailure(f)
  <2>1. \A n \in Nodes : ~ NodeStep(n)
    BY <1>3 DEF NodeStep, BeginCheck, CheckEnds, BlockNumberFails, SyncProgressFails,
                CheckPasses, UpdateHeight, outsideNode
  <2>2. \A f \in Fetchers : ~ StartFetch(f)
    BY <1>3 DEF StartFetch
  <2>3. ASSUME NEW f \in Fetchers, FetchStep(f) PROVE Reward(f) \/ RecordFailure(f)
    BY <1>3, <2>3 DEF FetchStep, LookAt, PassOver, NoProofNode, SelectNode, AwaitHeight,
         AskForTime, AskAgain, NoCandidate, ChooseCandidate, CallSucceeds, CallFails,
         CallCancelled, CallNilClient, FinishFetch, Return
  <2>4. QED BY <1>3, <2>1, <2>2, <2>3 DEF Next, vars
<1>4. QED BY <1>1, <1>2, <1>3

(* For any size, the ring of each node is the sequence of its last Size    *)
(* results, across every wrap of the write position.                       *)
THEOREM HistoryRefined == Spec => KeepsHistory
<1>1. Init => History!Init
  BY HistoryInit
<1>2. IInv /\ [Next]_vars => [History!Next]_LastResults
  BY HistoryStep
<1>3. QED BY <1>1, <1>2, Invariance, PTL DEF Spec, KeepsHistory, History!Spec
=============================================================================
