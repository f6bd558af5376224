--------------------------- MODULE Dashboard_proof --------------------------
(***************************************************************************)
(* Proofs about Dashboard for any browsers, pushes, nodes and channels:    *)
(* the mutex keeps two goroutines from writing to one connection, and a    *)
(* browser that stays misses nothing that leaves the channel.              *)
(***************************************************************************)
EXTENDS Dashboard, FiniteSetTheorems, SequenceTheorems, TLAPS

(* Between its lock and its unlock a feed, or a connection's handler, holds*)
(* the mutex.                                                              *)
Holds(x) ==
    \/ x \in Feeds /\ feed[x].pc = "loop"
    \/ x \in Clients /\ stage[x] \notin {"idle", "registered", "served"}

MutexHeld == \A x \in Feeds \cup Clients : Holds(x) => mu = {x}

(* A feed that is not in its round has nobody to write to. *)
RoundsEnd == \A f \in Feeds : feed[f].pc # "loop" => feed[f].todo = {} /\ feed[f].to = {}

(* A sort that swaps is inside the list. *)
SwapsInside ==
    \A x \in Builders :
        /\ stage[x] \in {"swap", "store1", "store2"}
              => 1 < sort[x].j /\ sort[x].i <= Len(Configured)
        /\ stage[x] \in {"store1", "store2"} => sort[x].held \in Nodes \X Nodes

(* A push is in none of the stages of a connection. *)
PushersBuild == \A p \in Pushers : stage[p] \notin {"registered", "config", "served"}

(* A client that is not registered is owed nothing. *)
NothingOwed == \A c \in Clients \ registered : behind[c] = 0

IInv ==
    /\ TypeOK
    /\ MutexHeld
    /\ RoundsEnd
    /\ SwapsInside
    /\ PushersBuild
    /\ NothingOwed
    /\ NothingMissed

-----------------------------------------------------------------------------
(* The list of nodes and its length. *)
LEMMA NodesSequence ==
    ASSUME TypeOK
    PROVE  nodes \in Seq(Nodes) /\ Len(nodes) = Len(Configured)
<1>1. Len(Configured) \in Nat
  BY DashboardAssumption, LenProperties
<1>2. nodes \in [1..Len(Configured) -> Nodes]
  BY DEF TypeOK
<1> QED
  BY <1>1, <1>2, SeqDef, LenProperties

LEMMA OneHolder ==
    /\ Cardinality({}) <= 1
    /\ \A x : Cardinality({x}) <= 1
BY FS_EmptySet, FS_Singleton

LEMMA Initially == Init => IInv
<1> SUFFICES ASSUME Init PROVE IInv
  OBVIOUS
<1> USE DEF Init
<1>1. TypeOK
  <2>1. Len(Configured) \in Nat /\ Configured \in [1..Len(Configured) -> Nodes]
    BY DashboardAssumption, LenProperties
  <2>2. Unsorted \in Sort /\ Unsorted.j <= Unsorted.i
    BY <2>1 DEF Unsorted, Sort
  <2>3. mu \in SUBSET (Clients \cup Feeds) /\ Cardinality(mu) <= 1
    BY OneHolder
  <2> QED
    BY <2>1, <2>2, <2>3, DashboardAssumption
       DEF TypeOK, Feed, Silent, Stage
<1>2. MutexHeld /\ RoundsEnd
  BY DashboardAssumption DEF MutexHeld, Holds, RoundsEnd, Silent, Builders
<1>3. SwapsInside /\ PushersBuild
  BY DEF SwapsInside, PushersBuild, Builders
<1>4. NothingOwed /\ NothingMissed
  BY DEF NothingOwed, NothingMissed
<1> QED
  BY <1>1, <1>2, <1>3, <1>4 DEF IInv

-----------------------------------------------------------------------------
(* What only touches locks and log lines keeps all of it. *)
LEMMA LocksKeep ==
    ASSUME IInv,
           \/ \E k \in Locks : TakeLock(k) \/ RequestEnds(k) \/ LogLine(k)
           \/ PassQuietly
    PROVE  IInv'
<1>1. UNCHANGED outsideLock
  BY DEF TakeLock, RequestEnds, LogLine, PassQuietly
<1>2. TypeOK'
  BY <1>1, DashboardAssumption
     DEF IInv, TypeOK, TakeLock, RequestEnds, LogLine, PassQuietly, outsideLock, sortVars, Locks
<1>3. (MutexHeld /\ RoundsEnd /\ SwapsInside /\ PushersBuild /\ NothingOwed /\ NothingMissed)'
  BY <1>1 DEF IInv, MutexHeld, Holds, RoundsEnd, SwapsInside, PushersBuild, NothingOwed,
              NothingMissed, outsideLock, sortVars
<1> QED
  BY <1>2, <1>3 DEF IInv

(* A build step of x changes the stage of x and the list only. *)
LEMMA BuildsKeep ==
    ASSUME IInv, NEW x \in Builders, Build(x)
    PROVE  IInv'
<1> USE DEF IInv
<1>1. Len(Configured) \in Nat /\ nodes \in Seq(Nodes) /\ Len(nodes) = Len(Configured)
  BY NodesSequence, DashboardAssumption, LenProperties
<1>2. UNCHANGED <<mu, registered, waiting, logs, lock, feed, behind>>
  BY DEF Build, Read, CompareNodes, SwapLoad, SwapStore1, SwapStore2, outsideBuild, chanVars
<1>3. /\ stage' = [stage EXCEPT ![x] = stage'[x]]
      /\ stage[x] \in Stage \ {"idle", "registered", "served"}
      /\ stage'[x] \in Stage \ {"idle", "registered", "served", "config"}
  BY DEF Build, Read, CompareNodes, SwapLoad, SwapStore1, SwapStore2, At, TypeOK, Stage,
         After, LockOf
<1>4. (nodes \in [1..Len(Configured) -> Nodes])'
  BY <1>1 DEF Build, Read, CompareNodes, SwapLoad, SwapStore1, SwapStore2, sortVars, TypeOK,
              SwapsInside
<1>5. (sort \in [Builders -> Sort] /\ \A y \in Builders : sort[y].j <= sort[y].i)'
  <2>1. CASE UNCHANGED sort
    BY <2>1 DEF TypeOK
  <2>2. CASE CompareNodes(x)
    <3>1. sort[x] \in Sort /\ Unsorted \in Sort /\ Unsorted.j <= Unsorted.i
      BY <1>1 DEF TypeOK, Sort, Unsorted
    <3>2. CASE sort' = [sort EXCEPT ![x] = Unsorted]
      BY <3>1, <3>2 DEF TypeOK
    <3>3. CASE /\ sort[x].i <= Len(Configured)
               /\ sort' = [sort EXCEPT ![x].i = sort[x].i + 1, ![x].j = sort[x].i + 1]
      <4> DEFINE next == sort[x].i + 1
      <4>1. next \in 2..(Len(Configured) + 2) /\ next \in 1..(Len(Configured) + 2)
        BY <3>1, <3>3, <1>1 DEF Sort
      <4>2. [sort[x] EXCEPT !.i = next, !.j = next] \in Sort
        <5> HIDE DEF next
        <5> QED
          BY <3>1, <4>1 DEF Sort
      <4>3. sort' = [sort EXCEPT ![x] = [sort[x] EXCEPT !.i = next, !.j = next]]
        BY <3>3
      <4> QED
        BY <4>1, <4>2, <4>3, <3>1 DEF TypeOK, Sort
    <3> QED
      BY <2>1, <2>2, <3>2, <3>3, <1>1, <3>1 DEF CompareNodes, Sort
  <2>3. CASE SwapLoad(x)
    <3>1. sort[x] \in Sort /\ 1 < sort[x].j /\ sort[x].j <= Len(Configured)
      BY <2>3, <1>1 DEF SwapLoad, TypeOK, SwapsInside, Sort
    <3>2. <<nodes[sort[x].j], nodes[sort[x].j - 1]>> \in Nodes \X Nodes
      BY <3>1, <1>1 DEF TypeOK, Sort
    <3>3. [sort[x] EXCEPT !.held = <<nodes[sort[x].j], nodes[sort[x].j - 1]>>] \in Sort
      BY <3>1, <3>2 DEF Sort
    <3>4. sort' = [sort EXCEPT ![x] =
                      [sort[x] EXCEPT !.held = <<nodes[sort[x].j], nodes[sort[x].j - 1]>>]]
      BY <2>3 DEF SwapLoad
    <3> QED
      BY <3>1, <3>3, <3>4 DEF TypeOK, Sort
  <2>4. CASE SwapStore2(x)
    BY <2>4, <1>1 DEF SwapStore2, TypeOK, Sort, SwapsInside
  <2> QED
    BY <2>1, <2>2, <2>3, <2>4 DEF Build, Read, SwapStore1, sortVars
<1>6. TypeOK'
  BY <1>2, <1>3, <1>4, <1>5 DEF TypeOK
<1>7. SwapsInside'
  <2>1. CASE Read(x)
    BY <2>1 DEF Read, At, SwapsInside, After, LockOf, TypeOK, sortVars
  <2>2. CASE CompareNodes(x)
    <3>1. \A y \in Builders \ {x} : stage'[y] = stage[y] /\ sort'[y] = sort[y]
      BY <2>2 DEF CompareNodes, At, TypeOK
    <3>2. CASE stage'[x] = "swap" /\ sort' = sort
      <4>1. 1 < sort[x].j /\ sort[x].i <= Len(Configured)
        BY <2>2, <3>2, <1>1 DEF CompareNodes, At, TypeOK, Sort, Misplaced
      <4> QED
        BY <3>1, <3>2, <4>1 DEF SwapsInside
    <3>3. CASE stage'[x] \in {"compare", "statuses"}
      BY <3>1, <3>3 DEF SwapsInside
    <3>4. stage[x] = "compare"
      BY <2>2 DEF CompareNodes
    <3> QED
      BY <2>2, <3>2, <3>3, <3>4 DEF CompareNodes, At, TypeOK
  <2>3. CASE SwapLoad(x)
    BY <2>3, <1>1 DEF SwapLoad, At, SwapsInside, TypeOK, Sort
  <2>4. CASE SwapStore1(x)
    BY <2>4 DEF SwapStore1, At, SwapsInside, TypeOK
  <2>5. CASE SwapStore2(x)
    BY <2>5 DEF SwapStore2, At, SwapsInside, TypeOK, Sort
  <2> QED
    BY <2>1, <2>2, <2>3, <2>4, <2>5 DEF Build
<1>8. (MutexHeld /\ RoundsEnd /\ PushersBuild)'
  BY <1>2, <1>3 DEF MutexHeld, Holds, RoundsEnd, PushersBuild, TypeOK, Builders
<1>9. (NothingOwed /\ NothingMissed)'
  BY <1>2 DEF NothingOwed, NothingMissed
<1> QED
  BY <1>6, <1>7, <1>8, <1>9

(* A push holds nothing while it builds and sends. *)
LEMMA PushesKeep ==
    ASSUME IInv, NEW p \in Pushers, Push(p) \/ Send(p)
    PROVE  IInv'
<1> USE DEF IInv
<1>1. UNCHANGED <<mu, registered, logs, lock, feed, nodes, sort, behind>>
  BY DEF Push, Send, outsideBuild, chanVars, sortVars
<1>2. /\ stage' = [stage EXCEPT ![p] = stage'[p]]
      /\ stage'[p] \in {"idle", "registry", "compare", "blocktime"}
  BY DEF Push, Send, AfterSend, At, Payloads, After, TypeOK, Builders, PushersBuild
<1>3. waiting' \in 0..ChanCap
  BY DashboardAssumption DEF Push, Send, TypeOK, outsideBuild, chanVars
<1>4. TypeOK'
  BY <1>1, <1>2, <1>3 DEF TypeOK, Stage
<1>5. (MutexHeld /\ RoundsEnd)'
  BY <1>1, <1>2, DashboardAssumption DEF MutexHeld, Holds, RoundsEnd, TypeOK, Builders
<1>6. (SwapsInside /\ PushersBuild)'
  BY <1>1, <1>2 DEF SwapsInside, PushersBuild, TypeOK, Builders
<1>7. (NothingOwed /\ NothingMissed)'
  BY <1>1 DEF NothingOwed, NothingMissed
<1> QED
  BY <1>4, <1>5, <1>6, <1>7

(* The handler of a connection takes the mutex, and gives it back when the *)
(* connection is served or closed.                                         *)
LEMMA ConnectionsKeep ==
    ASSUME IInv, NEW c \in Clients, Connect(c) \/ EndInitialWrite(c)
    PROVE  IInv'
<1> USE DEF IInv, Connect, EndInitialWrite, Register, LockForInitial, WriteInitial,
            WriteInitialFails
<1>1. UNCHANGED <<waiting, logs, lock, feed, nodes, sort>>
  BY DEF outsideConnection, chanVars, sortVars
<1>2. /\ stage' = [stage EXCEPT ![c] = stage'[c]]
      /\ stage'[c] \in Stage \ {"swap", "store1", "store2"}
  BY DEF At, Payloads, After, TypeOK, Builders, Stage
<1>3. stage[c] \in Payloads => mu = {c}
  BY DEF MutexHeld, Holds, Payloads
<1>4. mu' \in SUBSET (Clients \cup Feeds) /\ Cardinality(mu') <= 1
  <2>1. mu' \in {mu, {c}, {}}
    BY <1>3
  <2> QED
    BY <2>1, OneHolder DEF TypeOK
<1>5. registered' \in SUBSET Clients /\ behind' \in [Clients -> Nat]
  BY DEF TypeOK
<1>6. TypeOK'
  BY <1>1, <1>2, <1>4, <1>5 DEF TypeOK
<1>7. MutexHeld'
  <2>1. CASE Register(c)
    BY <2>1, <1>1, <1>2, DashboardAssumption
       DEF At, MutexHeld, Holds, outsideConnection, TypeOK, Builders
  <2>2. CASE LockForInitial(c)
    BY <2>2, <1>1, <1>2, DashboardAssumption
       DEF At, MutexHeld, Holds, outsideConnection, TypeOK, Builders
  <2>3. CASE WriteInitial(c)
    BY <2>3, <1>1, <1>2, <1>3, DashboardAssumption
       DEF At, MutexHeld, Holds, outsideConnection, TypeOK, Builders, Payloads
  <2>4. CASE WriteInitialFails(c)
    BY <2>4, <1>1, <1>2, <1>3, DashboardAssumption
       DEF At, MutexHeld, Holds, outsideConnection, TypeOK, Builders, Payloads
  <2> QED
    BY <2>1, <2>2, <2>3, <2>4
<1>8. (RoundsEnd /\ SwapsInside /\ PushersBuild)'
  BY <1>1, <1>2, DashboardAssumption
     DEF RoundsEnd, SwapsInside, PushersBuild, TypeOK, Builders
<1>9. NothingOwed'
  BY DEF NothingOwed, TypeOK
<1>10. NothingMissed'
  BY <1>1 DEF NothingMissed, NothingOwed, TypeOK
<1> QED
  BY <1>6, <1>7, <1>8, <1>9, <1>10

(* A feed takes the mutex for the whole of a round; what it takes out of   *)
(* the channel is owed to those who are registered, and paid by the round. *)
LEMMA FeedsKeep ==
    ASSUME IInv, NEW f \in Feeds, FeedStep(f)
    PROVE  IInv'
<1> USE DEF IInv, FeedStep
<1>1. UNCHANGED <<registered, lock, stage, nodes, sort>>
  BY DEF Receive, LockFeed, BeginWrite, UnlockFeed, outsideFeed, sortVars
<1>2. feed[f] \in Feed /\ feed \in [Feeds -> Feed]
  BY DEF TypeOK
<1>3. /\ (feed \in [Feeds -> Feed])'
      /\ \A g \in Feeds \ {f} : feed'[g] = feed[g]
      /\ Receive(f) =>
            feed'[f].pc = "lock" /\ feed'[f].todo = feed[f].todo /\ feed'[f].to = feed[f].to
      /\ LockFeed(f) => feed'[f].pc = "loop" /\ feed'[f].todo = registered
      /\ BeginWrite(f) =>
            /\ feed'[f].pc = "loop"
            /\ feed'[f].todo \cup feed'[f].to = feed[f].todo
      /\ UnlockFeed(f) => feed'[f].todo = {} /\ feed'[f].to = {} /\ feed'[f].pc = "receive"
  <2>1. CASE Receive(f)
    <3>1. [feed[f] EXCEPT !.pc = "lock"] \in Feed
      BY <1>2 DEF Feed
    <3> QED
      BY <2>1, <1>2, <3>1 DEF Receive, LockFeed, BeginWrite, UnlockFeed, Feed
  <2>2. CASE LockFeed(f)
    <3>1. [feed[f] EXCEPT !.pc = "loop", !.todo = registered] \in Feed
      BY <1>2 DEF Feed, TypeOK
    <3> QED
      BY <2>2, <1>2, <3>1 DEF Receive, LockFeed, BeginWrite, UnlockFeed, Feed
  <2>3. CASE BeginWrite(f)
    <3> PICK c \in feed[f].todo : feed' = [feed EXCEPT ![f].todo = @ \ {c}, ![f].to = {c}]
      BY <2>3 DEF BeginWrite
    <3>1. [feed[f] EXCEPT !.todo = @ \ {c}, !.to = {c}] \in Feed
      BY <1>2 DEF Feed
    <3>2. /\ (feed \in [Feeds -> Feed])'
          /\ \A g \in Feeds \ {f} : feed'[g] = feed[g]
          /\ feed'[f] = [feed[f] EXCEPT !.todo = @ \ {c}, !.to = {c}]
      BY <1>2, <3>1
    <3>3. feed'[f].pc = "loop" /\ feed'[f].todo \cup feed'[f].to = feed[f].todo
      <4>1. /\ feed'[f].pc = feed[f].pc
            /\ feed'[f].todo = feed[f].todo \ {c}
            /\ feed'[f].to = {c}
        BY <1>2, <3>2 DEF Feed
      <4>2. feed[f].pc = "loop"
        BY <2>3 DEF BeginWrite
      <4> QED
        BY <4>1, <4>2
    <3> QED
      BY <2>3, <3>2, <3>3 DEF Receive, LockFeed, BeginWrite, UnlockFeed
  <2>4. CASE UnlockFeed(f)
    <3>1. [feed[f] EXCEPT !.pc = "receive"] \in Feed
      BY <1>2 DEF Feed
    <3> QED
      BY <2>4, <1>2, <3>1 DEF Receive, LockFeed, BeginWrite, UnlockFeed, Feed
  <2> QED
    BY <2>1, <2>2, <2>3, <2>4
<1>4. (/\ waiting \in 0..ChanCap
       /\ logs \in 0..LogCap
       /\ behind \in [Clients -> Nat])'
  <2>1. CASE Receive(f)
    <3>1. waiting' \in 0..ChanCap /\ logs' \in 0..LogCap
      BY <2>1, DashboardAssumption DEF Receive, TypeOK
    <3>2. behind' \in [Clients -> Nat]
      BY <2>1 DEF Receive, TypeOK
    <3> QED
      BY <3>1, <3>2
  <2> QED
    BY <2>1 DEF LockFeed, BeginWrite, UnlockFeed, chanVars, TypeOK
<1>5. mu' \in SUBSET (Clients \cup Feeds) /\ Cardinality(mu') <= 1
  <2>1. mu' \in {mu, {f}, {}}
    BY DEF Receive, LockFeed, BeginWrite, UnlockFeed
  <2> QED
    BY <2>1, OneHolder DEF TypeOK
<1>6. TypeOK'
  BY <1>1, <1>3, <1>4, <1>5 DEF TypeOK
<1>7. feed[f].pc = "loop" => mu = {f}
  BY DEF MutexHeld, Holds
<1>8. MutexHeld'
  <2>1. CASE Receive(f)
    BY <2>1, <1>1, <1>3 DEF Receive, MutexHeld, Holds
  <2>2. CASE LockFeed(f)
    BY <2>2, <1>1, <1>3, DashboardAssumption DEF LockFeed, MutexHeld, Holds
  <2>3. CASE BeginWrite(f)
    BY <2>3, <1>1, <1>3 DEF BeginWrite, MutexHeld, Holds
  <2>4. CASE UnlockFeed(f)
    <3>1. \A x \in Feeds \cup Clients : Holds(x)' => Holds(x) /\ x # f
      BY <2>4, <1>1, <1>3, DashboardAssumption DEF UnlockFeed, Holds
    <3>2. mu = {f}
      BY <2>4, <1>7 DEF UnlockFeed
    <3> QED
      BY <3>1, <3>2 DEF MutexHeld
  <2> QED
    BY <2>1, <2>2, <2>3, <2>4
<1>9. RoundsEnd'
  BY <1>3 DEF Receive, RoundsEnd
<1>10. (SwapsInside /\ PushersBuild)'
  BY <1>1 DEF SwapsInside, PushersBuild
<1>11. NothingOwed'
  BY <1>1 DEF Receive, LockFeed, BeginWrite, UnlockFeed, NothingOwed, TypeOK
<1>12. NothingMissed'
  <2> SUFFICES ASSUME NEW c \in registered
               PROVE  /\ behind'[c] <= 1
                      /\ behind'[c] = 1 =>
                            \/ feed'["messages"].pc = "lock"
                            \/ c \in feed'["messages"].todo \cup feed'["messages"].to
    BY <1>1 DEF NothingMissed
  <2>1. c \in Clients /\ behind[c] \in Nat
    BY DEF TypeOK
  <2>2. /\ behind[c] <= 1
        /\ behind[c] = 1 => \/ feed["messages"].pc = "lock"
                            \/ c \in feed["messages"].todo \cup feed["messages"].to
    BY DEF NothingMissed
  <2>3. CASE f = "logs"
    <3>1. behind' = behind /\ feed'["messages"] = feed["messages"]
      BY <2>3, <1>3 DEF Receive, LockFeed, BeginWrite, UnlockFeed, Feeds, TypeOK
    <3> QED
      BY <2>2, <3>1
  <2>4. CASE f = "messages"
    <3>1. CASE Receive(f)
      <4>1. behind[c] = 0
        BY <3>1, <2>1, <2>2, <2>4, <1>2 DEF Receive, RoundsEnd
      <4> QED
        BY <3>1, <2>1, <2>4, <4>1, <1>3 DEF Receive
    <3>2. CASE LockFeed(f)
      BY <3>2, <2>2, <2>4, <1>3 DEF LockFeed
    <3>3. CASE BeginWrite(f)
      BY <3>3, <2>2, <2>4, <1>3 DEF BeginWrite
    <3>4. CASE UnlockFeed(f)
      BY <3>4, <2>2, <2>4, <1>3 DEF UnlockFeed
    <3> QED
      BY <3>1, <3>2, <3>3, <3>4
  <2> QED
    BY <2>3, <2>4 DEF Feeds
<1> QED
  BY <1>6, <1>8, <1>9, <1>10, <1>11, <1>12

(* The end of a write settles what the client is owed, or the client goes. *)
LEMMA FeedWritesKeep ==
    ASSUME IInv, NEW f \in Feeds, EndFeedWrite(f)
    PROVE  IInv'
<1> USE DEF IInv, EndFeedWrite
<1>1. UNCHANGED <<mu, waiting, logs, lock, nodes, sort>>
  BY DEF EndWrite, WriteFails, outsideFeed, chanVars, sortVars
<1>2. feed[f] \in Feed /\ feed \in [Feeds -> Feed]
  BY DEF TypeOK
<1>3. /\ feed' = [feed EXCEPT ![f].to = {}]
      /\ (feed \in [Feeds -> Feed])'
      /\ \A g \in Feeds : feed'[g].pc = feed[g].pc /\ feed'[g].todo = feed[g].todo
      /\ \A g \in Feeds \ {f} : feed'[g] = feed[g]
      /\ feed'[f].to = {}
  BY <1>2 DEF EndWrite, WriteFails, Feed
<1>4. stage' \in [Builders -> Stage]
  BY DEF EndWrite, WriteFails, Drop, TypeOK, Stage
<1>5. \A x \in Builders : stage'[x] = stage[x] \/ (stage[x] = "served" /\ stage'[x] = "idle")
  BY DEF EndWrite, WriteFails, Drop, TypeOK
<1>6. registered' \in SUBSET Clients /\ behind' \in [Clients -> Nat]
  BY DEF EndWrite, WriteFails, Drop, TypeOK
<1>7. TypeOK'
  BY <1>1, <1>3, <1>4, <1>6 DEF TypeOK
<1>8. MutexHeld'
  <2>1. \A x \in Feeds \cup Clients : Holds(x)' => Holds(x)
    BY <1>3, <1>5, DashboardAssumption DEF Holds, Builders
  <2> QED
    BY <2>1, <1>1 DEF MutexHeld
<1>9. RoundsEnd'
  BY <1>3 DEF RoundsEnd
<1>10. (SwapsInside /\ PushersBuild)'
  BY <1>1, <1>5 DEF SwapsInside, PushersBuild, Builders
<1>11. NothingOwed'
  BY DEF EndWrite, WriteFails, Drop, NothingOwed, TypeOK
<1>12. NothingMissed'
  <2> SUFFICES ASSUME NEW c \in registered'
               PROVE  /\ behind'[c] <= 1
                      /\ behind'[c] = 1 =>
                            \/ feed'["messages"].pc = "lock"
                            \/ c \in feed'["messages"].todo \cup feed'["messages"].to
    BY DEF NothingMissed
  <2>1. c \in registered /\ c \in Clients
    BY DEF EndWrite, WriteFails, Drop, TypeOK
  <2>2. /\ behind[c] <= 1
        /\ behind[c] = 1 => \/ feed["messages"].pc = "lock"
                            \/ c \in feed["messages"].todo \cup feed["messages"].to
    BY <2>1 DEF NothingMissed
  <2>3. behind'[c] \in {behind[c], 0}
    BY <2>1 DEF EndWrite, WriteFails, Drop, TypeOK
  <2>4. f = "messages" /\ c \in feed[f].to => behind'[c] = 0
    BY <2>1 DEF EndWrite, WriteFails, Drop, TypeOK
  <2> QED
    BY <2>2, <2>3, <2>4, <1>3 DEF Feeds
<1> QED
  BY <1>7, <1>8, <1>9, <1>10, <1>11, <1>12

LEMMA Inductive == IInv /\ [Next]_vars => IInv'
<1> SUFFICES ASSUME IInv, [Next]_vars PROVE IInv'
  OBVIOUS
<1>1. CASE UNCHANGED vars
  BY <1>1 DEF vars, chanVars, sortVars, IInv, TypeOK, MutexHeld, Holds, RoundsEnd, SwapsInside,
              PushersBuild, NothingOwed, NothingMissed
<1>2. CASE Next
  <2>1. ASSUME NEW k \in Locks, TakeLock(k) \/ RequestEnds(k) \/ LogLine(k) PROVE IInv'
    BY <2>1, LocksKeep
  <2>2. CASE PassQuietly
    BY <2>2, LocksKeep
  <2>3. ASSUME NEW p \in Pushers, Push(p) \/ PushStep(p) PROVE IInv'
    BY <2>3, PushesKeep, BuildsKeep DEF PushStep, Builders
  <2>4. ASSUME NEW c \in Clients, Connect(c) \/ Build(c) \/ EndInitialWrite(c) PROVE IInv'
    BY <2>4, ConnectionsKeep, BuildsKeep DEF Builders
  <2>5. ASSUME NEW f \in Feeds, FeedStep(f) \/ EndFeedWrite(f) PROVE IInv'
    BY <2>5, FeedsKeep, FeedWritesKeep
  <2> QED
    BY <1>2, <2>1, <2>2, <2>3, <2>4, <2>5 DEF Next
<1> QED
  BY <1>1, <1>2

(* IInv holds in every reachable state. *)
THEOREM Invariance == Spec => []IInv
<1> QED
  BY Initially, Inductive, PTL DEF Spec

(* The state of the feeds is of its type, and the channels stay within     *)
(* their buffers (server.go:119-120).                                      *)
THEOREM TypeCorrect == Spec => []TypeOK
<1>1. IInv => TypeOK
  BY DEF IInv
<1> QED
  BY Invariance, <1>1, PTL

(* The writers of a connection hold the mutex. *)
LEMMA WritersHold ==
    ASSUME IInv, NEW c \in Clients
    PROVE  \A w \in Writers(c) : mu = {w}
<1> USE DEF IInv
<1>1. ASSUME NEW f \in Feeds, c \in feed[f].to PROVE mu = {f}
  BY <1>1 DEF RoundsEnd, MutexHeld, Holds
<1>2. ASSUME stage[c] \in Payloads PROVE mu = {c}
  BY <1>2 DEF MutexHeld, Holds, Payloads
<1> QED
  BY <1>1, <1>2 DEF Writers

(* No two goroutines write to the same connection (server.go:356).         *)
THEOREM OneWriterOnly == Spec => []OneWriter
<1>1. IInv => OneWriter
  <2> SUFFICES ASSUME IInv, NEW c \in Clients PROVE Cardinality(Writers(c)) <= 1
    BY DEF OneWriter
  <2>1. CASE Writers(c) = {}
    BY <2>1, OneHolder
  <2>2. ASSUME NEW w \in Writers(c) PROVE Cardinality(Writers(c)) <= 1
    <3>1. Writers(c) = {w}
      BY <2>2, WritersHold
    <3> QED
      BY <3>1, OneHolder
  <2> QED
    BY <2>1, <2>2
<1> QED
  BY Invariance, <1>1, PTL

(* What leaves the channel goes to every browser that was registered and   *)
(* still is (handleMessages, server.go).                                   *)
THEOREM NobodyMisses == Spec => []NothingMissed
<1>1. IInv => NothingMissed
  BY DEF IInv
<1> QED
  BY Invariance, <1>1, PTL

=============================================================================
