------------------------- MODULE BlockPipeline_proof -------------------------
(***************************************************************************)
(* Proofs of the safety properties of BlockPipeline, for any sets of       *)
(* nodes, validators and goroutines and any values of the bounds.          *)
(***************************************************************************)
EXTENDS BlockPipeline, RollingWindow_proof

-----------------------------------------------------------------------------
(* The inductive invariant *)

(* What moves through the pipeline are heights the chain has produced, and *)
(* what is recorded about one is what its signers say.                     *)
HeightsProduced ==
    /\ \A n \in Nodes : nodeHeight[n] <= head /\ holding[n] <= head
    /\ \A n \in Nodes : listener[n] = "send" => holding[n] >= 1
    /\ \A i \in DOMAIN blockCh : blockCh[i] <= head
    /\ \A w \in Workers : job[w].height <= head
    /\ \A v \in Validators : \A r \in recorded[v] :
          /\ r.height \in 1..head
          /\ r.signed = Participated(v, r.height)

(* A goroutine has a height from its start on, and is between Add and the  *)
(* validator's lock for one validator at most.                             *)
JobShape ==
    \A w \in Workers :
        /\ job[w].pc # "idle" => job[w].height >= 1
        /\ job[w].pc # "update" => job[w].adding = {}
        /\ \A a, b \in job[w].adding : a = b

FlowInv == TypeOK /\ HeightsProduced /\ JobShape

WindowDuration == \A v \in Validators : window[v].duration = Duration

(* A block that is being added is in the record already. *)
AddingRecorded ==
    \A v \in Validators, w \in Workers : v \in job[w].adding =>
        \E r \in recorded[v] : /\ r.height = job[w].height
                               /\ r.signed = Participated(v, job[w].height)

(* What makes DownMeansSilent inductive: a validator that is down has an   *)
(* all-missed window, or its state is about to be updated by a goroutine   *)
(* whose block it signed.                                                  *)
Rising(v) == \E w \in Workers : v \in job[w].adding /\ Participated(v, job[w].height)

DownMeansAllMissed ==
    \A v \in Validators : down[v] =>
        \/ \A i \in DOMAIN window[v].items : ~ window[v].items[i].signed
        \/ Rising(v)

LastHeightCovers ==
    \A v \in Validators :
        /\ lastHeight[v] = 0 \/ \E r \in recorded[v] : r.signed /\ r.height = lastHeight[v]
        /\ \A r \in recorded[v] : r.signed => r.height <= lastHeight[v] \/ Adding(v, r.height)

ItemsRecorded ==
    \A v \in Validators : \A i \in DOMAIN window[v].items : window[v].items[i] \in recorded[v]

WindowInv ==
    /\ WindowDuration
    /\ ItemsRecorded
    /\ MissedCounterExact
    /\ NoLiveBlockLost
    /\ AddingRecorded
    /\ DownMeansAllMissed
    /\ LastHeightCovers

(* Where a height is on its way to v's window, or in it: with a listener   *)
(* that is sending, in the channel, with a goroutine that has not added it *)
(* yet, and in the items of the window.                                    *)
Carries(w, v, h) ==
    /\ job[w].height = h
    /\ \/ job[w].pc \in {"time", "proof"}
       \/ job[w].pc = "update" /\ v \in job[w].todo

Sending(h)       == {n \in Nodes : listener[n] = "send" /\ holding[n] = h}
Queued(h)        == {i \in DOMAIN blockCh : blockCh[i] = h}
Processing(v, h) == {w \in Workers : Carries(w, v, h)}
Counted(v, h)    == {i \in DOMAIN window[v].items : window[v].items[i].height = h}

AllFinite(v, h) ==
    /\ IsFiniteSet(Sending(h)) /\ IsFiniteSet(Queued(h))
    /\ IsFiniteSet(Processing(v, h)) /\ IsFiniteSet(Counted(v, h))

Load(v, h) ==
    Cardinality(Sending(h)) + Cardinality(Queued(h))
        + Cardinality(Processing(v, h)) + Cardinality(Counted(v, h))

(* A height enters the pipeline when it is marked as seen, and it can be   *)
(* marked again after a reset only; no later step duplicates it.           *)
Within(v, h) ==
    /\ AllFinite(v, h)
    /\ Load(v, h) <= cleanups + (IF h \in seen THEN 1 ELSE 0)

CarriedOnce == \A v \in Validators, h \in Heights : Within(v, h)

IInv == FlowInv /\ WindowInv /\ CarriedOnce

-----------------------------------------------------------------------------
(* The initial states *)

LEMMA InitInv == Init => IInv
<1> SUFFICES ASSUME Init PROVE IInv
  OBVIOUS
<1> USE PipelineAssumption
<1>1. NewWindow(Duration) \in Window
  <2>1. <<>> \in Seq(Item)
    BY EmptySeq
  <2>2. QED BY <2>1 DEF NewWindow, Window
<1>2. TypeOK
  <2>1. Idle \in Job
    BY DEF Idle, Job
  <2>2. blockCh \in Seq(Heights)
    BY EmptySeq DEF Init
  <2>3. head \in 0..MaxHeight /\ 0 \in 0..MaxHeight /\ cleanups \in 0..MaxCleanups
    BY DEF Init
  <2>4. /\ window \in [Validators -> Window]
        /\ recorded \in [Validators -> SUBSET Item]
    BY <1>1 DEF Init
  <2>5. QED BY <2>1, <2>2, <2>3, <2>4 DEF Init, TypeOK
<1>3. HeightsProduced /\ JobShape
  <2>1. DOMAIN blockCh = {}
    BY DEF Init
  <2>2. QED BY <2>1 DEF Init, HeightsProduced, JobShape, Idle
<1>4. MissedCounterExact
  <2>1. MissedPositions(<<>>) = {}
    BY DEF MissedPositions
  <2>2. MissedIn(<<>>) = 0
    BY <2>1, FS_EmptySet DEF MissedIn
  <2>3. ASSUME NEW v \in Validators PROVE window[v].missed = MissedIn(window[v].items)
    <3>1. window[v].items = <<>> /\ window[v].missed = 0
      BY DEF Init, NewWindow
    <3>2. QED BY <2>2, <3>1
  <2>4. QED BY <2>3 DEF MissedCounterExact
<1>5. CarriedOnce
  <2>1. ASSUME NEW v \in Validators, NEW h \in Heights PROVE Within(v, h)
    <3>1. Sending(h) = {} /\ Queued(h) = {} /\ Processing(v, h) = {} /\ Counted(v, h) = {}
      BY DEF Init, Sending, Queued, Processing, Counted, Carries, Idle, NewWindow
    <3> QED
      BY <3>1, FS_EmptySet DEF Init, Within, AllFinite, Load
  <2> QED
    BY <2>1 DEF CarriedOnce
<1>6. WindowInv
  BY <1>4 DEF Init, WindowInv, WindowDuration, NoLiveBlockLost, AddingRecorded, ItemsRecorded,
              DownMeansAllMissed, LastHeightCovers, NewWindow, Idle
<1>7. QED
  BY <1>2, <1>3, <1>5, <1>6 DEF IInv, FlowInv

-----------------------------------------------------------------------------
(* Types and the flow of heights *)

(* A goroutine that returns leaves everything but its own record alone.    *)
LEMMA ReturnFlow ==
    ASSUME FlowInv, NEW w \in Workers, Return(w), job[w].pc # "idle"
    PROVE  FlowInv'
<1> USE DEF FlowInv
<1>1. job[w].height \in Heights
  BY PipelineAssumption DEF TypeOK, JobShape, Job, Heights
<1>2. Idle \in Job /\ Idle.height = 0 /\ Idle.adding = {} /\ Idle.pc = "idle"
  BY PipelineAssumption DEF Idle, Job
<1>3. TypeOK'
  BY <1>1, <1>2 DEF Return, TypeOK, outsideJob, chainVars, listenerVars, validatorVars
<1>4. HeightsProduced'
  BY <1>2 DEF Return, TypeOK, HeightsProduced, Participated, outsideJob, chainVars,
              listenerVars, validatorVars
<1>5. JobShape'
  BY <1>2 DEF Return, TypeOK, JobShape
<1>6. QED BY <1>3, <1>4, <1>5

(* Listeners, the cleanup, the chain and main do not touch the goroutines  *)
(* nor what they record.                                                   *)
LEMMA ListenerFlow ==
    ASSUME FlowInv, NEW n \in Nodes, ListenerStep(n)
    PROVE  FlowInv'
<1> USE DEF FlowInv, outsideListener, chainVars, historyVars, validatorVars
<1>1. CASE Subscribe(n)
  BY <1>1 DEF Subscribe, TypeOK, HeightsProduced, JobShape, Participated
<1>2. CASE SubscriptionError(n)
  BY <1>2 DEF SubscriptionError, TypeOK, HeightsProduced, JobShape, Participated
<1>3. CASE Receive(n)
  <2>1. PICK h \in 1..head :
          /\ UpdateHeight(n, h)
          /\ IF h \in seen
             THEN UNCHANGED <<seen, listener, holding>>
             ELSE /\ seen' = seen \cup {h}
                  /\ listener' = [listener EXCEPT ![n] = "send"]
                  /\ holding' = [holding EXCEPT ![n] = h]
    BY <1>3 DEF Receive
  <2>2. h \in Heights /\ h >= 1 /\ h <= head /\ h \in 0..MaxHeight
    BY <2>1, PipelineAssumption DEF TypeOK, Heights
  <2>3. TypeOK'
    <3>1. nodeHeight' \in [Nodes -> 0..MaxHeight]
      <4>1. (IF h > nodeHeight[n] THEN h ELSE nodeHeight[n]) \in 0..MaxHeight
        BY <2>2 DEF TypeOK
      <4>2. nodeHeight' = [nodeHeight EXCEPT ![n] =
                              IF h > nodeHeight[n] THEN h ELSE nodeHeight[n]]
        BY <2>1 DEF UpdateHeight
      <4> DEFINE newest == IF h > nodeHeight[n] THEN h ELSE nodeHeight[n]
      <4> HIDE DEF newest
      <4>3. nodeHeight' = [nodeHeight EXCEPT ![n] = newest] /\ newest \in 0..MaxHeight
        BY <4>1, <4>2 DEF newest
      <4>4. QED BY <4>3 DEF TypeOK
    <3>2. /\ seen' \in SUBSET Heights
          /\ listener' \in [Nodes -> {"dial", "receive", "send", "stopped"}]
          /\ holding' \in [Nodes -> 0..MaxHeight]
      <4>1. CASE h \in seen
        BY <2>1, <4>1 DEF TypeOK
      <4>2. CASE h \notin seen
        <5>1. /\ seen' = seen \cup {h}
              /\ listener' = [listener EXCEPT ![n] = "send"]
              /\ holding' = [holding EXCEPT ![n] = h]
          BY <2>1, <4>2
        <5>2. QED BY <2>2, <5>1 DEF TypeOK
      <4>3. QED BY <4>1, <4>2
    <3>3. QED BY <1>3, <3>1, <3>2 DEF Receive, TypeOK
  <2>4. HeightsProduced'
    <3>1. UNCHANGED <<head, signers, blockCh, job, recorded>>
      BY <1>3 DEF Receive
    <3>2. \A m \in Nodes : nodeHeight'[m] <= head
      BY <2>1, <2>2 DEF TypeOK, HeightsProduced, UpdateHeight
    <3>3. \A m \in Nodes : holding'[m] <= head /\ (listener'[m] = "send" => holding'[m] >= 1)
      <4>1. CASE h \in seen
        BY <2>1, <4>1 DEF HeightsProduced
      <4>2. CASE h \notin seen
        BY <2>1, <2>2, <4>2 DEF TypeOK, HeightsProduced
      <4>3. QED BY <4>1, <4>2
    <3>4. QED BY <3>1, <3>2, <3>3 DEF HeightsProduced, Participated
  <2>5. JobShape'
    BY <1>3 DEF Receive, JobShape
  <2>6. QED BY <2>3, <2>4, <2>5
<1>4. CASE SendBlock(n)
  <2>1. holding[n] \in Heights /\ holding[n] <= head
    BY <1>4, PipelineAssumption DEF SendBlock, TypeOK, HeightsProduced, Heights
  <2>2. /\ blockCh' \in Seq(Heights)
        /\ Len(blockCh') = Len(blockCh) + 1
        /\ \A i \in 1..Len(blockCh) : blockCh'[i] = blockCh[i]
        /\ blockCh'[Len(blockCh) + 1] = holding[n]
    BY <1>4, <2>1, AppendProperties DEF SendBlock, TypeOK
  <2>3. TypeOK'
    BY <1>4, <2>2, PipelineAssumption DEF SendBlock, TypeOK
  <2>4. \A i \in DOMAIN blockCh' : blockCh'[i] <= head
    <3>1. /\ Len(blockCh) \in Nat
          /\ DOMAIN blockCh = 1..Len(blockCh)
          /\ DOMAIN blockCh' = 1..(Len(blockCh) + 1)
      BY <2>2, LenProperties DEF TypeOK
    <3>2. QED BY <2>1, <2>2, <3>1 DEF HeightsProduced
  <2>5. HeightsProduced'
    BY <1>4, <2>4 DEF SendBlock, TypeOK, HeightsProduced, Participated
  <2>6. JobShape'
    BY <1>4 DEF SendBlock, JobShape
  <2>7. QED BY <2>3, <2>5, <2>6
<1>5. CASE StopListener(n)
  BY <1>5, PipelineAssumption
     DEF StopListener, TypeOK, HeightsProduced, JobShape, Participated
<1>6. QED
  BY <1>1, <1>2, <1>3, <1>4, <1>5 DEF ListenerStep

(* A goroutine takes a height from the channel. *)
LEMMA TakeFlow ==
    ASSUME FlowInv, NEW w \in Workers, TakeBlock(w)
    PROVE  FlowInv'
<1> USE DEF FlowInv
<1>1. /\ Head(blockCh) \in Heights
      /\ Head(blockCh) <= head
      /\ Tail(blockCh) \in Seq(Heights)
      /\ \A i \in DOMAIN Tail(blockCh) : Tail(blockCh)[i] <= head
  <2>1. /\ blockCh \in Seq(Heights)
        /\ blockCh # <<>>
        /\ DOMAIN blockCh = 1..Len(blockCh)
        /\ Len(blockCh) \in Nat \ {0}
    BY LenProperties, EmptySeq DEF TakeBlock, TypeOK
  <2>2. /\ Head(blockCh) \in Heights
        /\ Tail(blockCh) \in Seq(Heights)
        /\ Len(Tail(blockCh)) = Len(blockCh) - 1
        /\ \A i \in 1..Len(Tail(blockCh)) : Tail(blockCh)[i] = blockCh[i + 1]
    BY <2>1, HeadTailProperties
  <2>3. Head(blockCh) = blockCh[1] /\ 1 \in DOMAIN blockCh
    BY <2>1
  <2>4. DOMAIN Tail(blockCh) = 1..(Len(blockCh) - 1)
    BY <2>2, LenProperties
  <2>5. ASSUME NEW i \in DOMAIN Tail(blockCh) PROVE Tail(blockCh)[i] <= head
    <3>1. i + 1 \in DOMAIN blockCh /\ Tail(blockCh)[i] = blockCh[i + 1]
      BY <2>1, <2>2, <2>4
    <3>2. QED BY <3>1 DEF HeightsProduced
  <2>6. QED BY <2>2, <2>3, <2>5 DEF HeightsProduced
<1> DEFINE started == Started(Head(blockCh))
<1>2. /\ started \in Job
      /\ started.pc = "time"
      /\ started.adding = {}
      /\ started.height = Head(blockCh)
      /\ started.height >= 1
  BY <1>1, PipelineAssumption DEF Started, Job, Heights
<1>3. /\ job' = [job EXCEPT ![w] = started]
      /\ blockCh' = Tail(blockCh)
  BY DEF TakeBlock
<1> HIDE DEF started
<1>4. TypeOK'
  BY <1>1, <1>2, <1>3 DEF TakeBlock, TypeOK, chainVars, listenerVars, validatorVars,
                          historyVars
<1>5. HeightsProduced'
  BY <1>1, <1>2, <1>3 DEF TakeBlock, TypeOK, HeightsProduced, Participated, chainVars,
                          listenerVars, validatorVars, historyVars
<1>6. JobShape'
  BY <1>2, <1>3 DEF TypeOK, JobShape
<1>7. QED BY <1>4, <1>5, <1>6

(* The two steps of a goroutine that write a validator. *)
LEMMA AddFlow ==
    ASSUME FlowInv, WindowDuration, NEW w \in Workers, AddToWindow(w)
    PROVE  FlowInv'
<1> USE DEF FlowInv
<1>1. PICK v \in job[w].todo :
        /\ window' = [window EXCEPT ![v] =
              Add(@, Participated(v, job[w].height), job[w].ts, job[w].height)]
        /\ recorded' = [recorded EXCEPT ![v] =
              @ \cup {[ts |-> job[w].ts, signed |-> Participated(v, job[w].height),
                       height |-> job[w].height]}]
        /\ job' = [job EXCEPT ![w].adding = {v}, ![w].todo = @ \ {v}]
  BY DEF AddToWindow
<1>2. /\ job[w] \in Job
      /\ v \in Validators
      /\ job[w].pc = "update"
      /\ job[w].height \in 1..head
      /\ job[w].height \in Nat
      /\ job[w].ts \in Nat
      /\ Participated(v, job[w].height) \in BOOLEAN
      /\ [ts |-> job[w].ts, signed |-> Participated(v, job[w].height),
          height |-> job[w].height] \in Item
  BY PipelineAssumption
     DEF AddToWindow, TypeOK, HeightsProduced, JobShape, Job, Participated, Item
<1>3. Add(window[v], Participated(v, job[w].height), job[w].ts, job[w].height) \in Window
  <2>1. window[v] \in Window /\ window[v].duration \in Nat \ {0}
    BY <1>2, PipelineAssumption DEF TypeOK, WindowDuration
  <2>2. QED BY <1>2, <2>1, AddProperties
<1>4. /\ job' \in [Workers -> Job]
      /\ job'[w].adding = {v}
      /\ job'[w].pc = "update"
      /\ job'[w].height = job[w].height
      /\ \A u \in Workers \ {w} : job'[u] = job[u]
  BY <1>1, <1>2 DEF TypeOK, Job
<1>5. UNCHANGED <<head, signers, cancelled, nodeHeight, listener, holding, seen, cleanups, blockCh,
                  looping, down, lastHeight, settled>>
  BY DEF AddToWindow, outsideJob, chainVars, listenerVars
<1>6. TypeOK'
  <2>1. window' \in [Validators -> Window]
    BY <1>1, <1>3 DEF TypeOK
  <2>2. recorded' \in [Validators -> SUBSET Item]
    BY <1>1, <1>2 DEF TypeOK
  <2>3. QED BY <1>4, <1>5, <2>1, <2>2 DEF TypeOK
<1>7. HeightsProduced'
  <2>1. \A u \in Workers : job'[u].height <= head
    BY <1>4 DEF HeightsProduced
  <2>2. ASSUME NEW u \in Validators, NEW r \in recorded'[u]
        PROVE  r.height \in 1..head /\ r.signed = Participated(u, r.height)
    <3>1. \/ r \in recorded[u]
          \/ u = v /\ r = [ts |-> job[w].ts, signed |-> Participated(v, job[w].height),
                           height |-> job[w].height]
      BY <1>1, <1>2, <2>2 DEF TypeOK
    <3>2. QED BY <1>2, <3>1 DEF HeightsProduced
  <2>3. QED BY <1>5, <2>1, <2>2 DEF HeightsProduced, Participated
<1>8. JobShape'
  BY <1>2, <1>4 DEF JobShape
<1>9. QED BY <1>6, <1>7, <1>8

LEMMA UpdateFlow ==
    ASSUME FlowInv, NEW w \in Workers, UpdateDown(w)
    PROVE  FlowInv'
<1> USE DEF FlowInv
<1>1. PICK v \in job[w].adding :
        /\ down' = [down EXCEPT ![v] = DownAfter(v, Participated(v, job[w].height))]
        /\ lastHeight' = [lastHeight EXCEPT ![v] =
              LastHeightAfter(v, Participated(v, job[w].height), job[w].height)]
  BY DEF UpdateDown
<1>2. /\ job[w] \in Job
      /\ v \in Validators
      /\ job[w].pc = "update"
      /\ job[w].height \in 0..MaxHeight
  BY DEF UpdateDown, TypeOK, Job
<1>3. /\ job' = [job EXCEPT ![w].adding = {}]
      /\ job' \in [Workers -> Job]
      /\ job'[w].adding = {}
      /\ job'[w].pc = "update"
      /\ job'[w].height = job[w].height
      /\ \A u \in Workers \ {w} : job'[u] = job[u]
  BY <1>2 DEF UpdateDown, TypeOK, Job
<1>4. UNCHANGED <<head, signers, cancelled, nodeHeight, listener, holding, seen, cleanups, blockCh,
                  looping, window, recorded, settled>>
  BY DEF UpdateDown, outsideJob, chainVars, listenerVars, historyVars
<1>5. TypeOK'
  <2>1. down' \in [Validators -> BOOLEAN]
    BY <1>1, <1>2 DEF TypeOK, DownAfter, AllMissed
  <2>2. lastHeight' \in [Validators -> 0..MaxHeight]
    BY <1>1, <1>2 DEF TypeOK, LastHeightAfter
  <2>3. QED BY <1>3, <1>4, <2>1, <2>2 DEF TypeOK
<1>6. HeightsProduced'
  BY <1>3, <1>4 DEF HeightsProduced, Participated
<1>7. JobShape'
  BY <1>2, <1>3 DEF JobShape
<1>8. QED BY <1>5, <1>6, <1>7

(* The other steps of a goroutine only move its program counter. *)
LEMMA MoveFlow ==
    ASSUME FlowInv, NEW w \in Workers, GetBlockTime(w) \/ ProofFetched(w)
    PROVE  FlowInv'
<1> USE DEF FlowInv
<1>1. job[w] \in Job /\ job[w].pc # "update" /\ job[w].pc # "idle"
  BY DEF GetBlockTime, ProofFetched, TypeOK
<1>2. /\ job' \in [Workers -> Job]
      /\ job'[w].adding = job[w].adding
      /\ job'[w].height = job[w].height
      /\ \A u \in Workers \ {w} : job'[u] = job[u]
  <2>1. CASE GetBlockTime(w)
    <3>1. PICK ts \in {job[w].height, head} :
            job' = [job EXCEPT ![w].pc = "proof", ![w].ts = ts]
      BY <2>1 DEF GetBlockTime
    <3>2. ts \in 0..MaxHeight
      BY <1>1 DEF TypeOK, Job
    <3>3. QED BY <1>1, <3>1, <3>2 DEF TypeOK, Job
  <2>2. CASE ProofFetched(w)
    BY <1>1, <2>2 DEF ProofFetched, TypeOK, Job
  <2>3. QED BY <2>1, <2>2
<1>3. UNCHANGED <<head, signers, cancelled, nodeHeight, listener, holding, seen, cleanups, blockCh,
                  looping, window, down, lastHeight, recorded, settled>>
  BY DEF GetBlockTime, ProofFetched, outsideJob, chainVars, listenerVars, validatorVars,
         historyVars
<1>4. TypeOK'
  BY <1>2, <1>3 DEF TypeOK
<1>5. HeightsProduced'
  BY <1>2, <1>3 DEF HeightsProduced, Participated
<1>6. JobShape'
  BY <1>1, <1>2 DEF JobShape
<1>7. QED BY <1>4, <1>5, <1>6

(* The steps of the chain, of main, of the cleanup and of the loop. *)
LEMMA ProduceFlow ==
    ASSUME FlowInv, ProduceBlock
    PROVE  FlowInv'
<1> USE DEF FlowInv
<1>1. /\ head' = head + 1
      /\ head \in Nat
      /\ head' \in 0..MaxHeight
      /\ head + 1 \in Heights
  BY PipelineAssumption DEF ProduceBlock, TypeOK, Heights
<1>2. /\ signers' \in [Heights -> SUBSET Validators]
      /\ \A h \in Heights : h <= head => signers'[h] = signers[h]
  BY <1>1 DEF ProduceBlock, TypeOK, Heights
<1>3. UNCHANGED <<cancelled, nodeHeight, listener, holding, seen, cleanups, blockCh, looping, job,
                  window, down, lastHeight, recorded, settled>>
  BY DEF ProduceBlock, listenerVars, validatorVars, historyVars
<1>4. TypeOK'
  BY <1>1, <1>2, <1>3 DEF TypeOK
<1>5. HeightsProduced'
  <2>1. \A n \in Nodes : nodeHeight[n] <= head + 1 /\ holding[n] <= head + 1
    BY <1>1 DEF HeightsProduced, TypeOK
  <2>2. \A i \in DOMAIN blockCh : blockCh[i] <= head + 1
    <3>1. \A i \in DOMAIN blockCh : blockCh[i] \in Heights
      BY LenProperties, ElementOfSeq DEF TypeOK
    <3>2. QED BY <1>1, <3>1 DEF HeightsProduced, Heights
  <2>3. \A w \in Workers : job[w].height <= head + 1
    BY <1>1 DEF HeightsProduced, TypeOK, Job
  <2>4. ASSUME NEW v \in Validators, NEW r \in recorded[v]
        PROVE  r.height \in 1..(head + 1) /\ r.signed = (v \in signers'[r.height])
    <3>1. r.height \in 1..head /\ r.signed = (v \in signers[r.height])
      BY DEF HeightsProduced, Participated
    <3>2. r.height \in Heights /\ r.height <= head
      BY <1>1, <3>1, PipelineAssumption DEF Heights, TypeOK
    <3>3. QED BY <1>1, <1>2, <3>1, <3>2
  <2>5. QED BY <1>1, <1>3, <2>1, <2>2, <2>3, <2>4 DEF HeightsProduced, Participated
<1>6. JobShape'
  BY <1>3 DEF JobShape
<1>7. QED BY <1>4, <1>5, <1>6

LEMMA OtherFlow ==
    ASSUME FlowInv, Cancel \/ CleanupSeenBlocks \/ StopLoop \/ UNCHANGED vars
    PROVE  FlowInv'
<1>1. /\ UNCHANGED <<head, signers, nodeHeight, listener, holding, blockCh, job, window,
                     down, lastHeight, recorded, settled>>
      /\ cancelled' \in BOOLEAN
      /\ looping' \in BOOLEAN
      /\ seen' \in SUBSET Heights
  BY DEF Cancel, CleanupSeenBlocks, StopLoop, vars, outsideListener, chainVars,
         listenerVars, validatorVars, historyVars, FlowInv, TypeOK
<1>2. cleanups' \in 0..MaxCleanups
  <2>1. CASE CleanupSeenBlocks
    BY <2>1, PipelineAssumption DEF CleanupSeenBlocks, FlowInv, TypeOK
  <2>2. CASE Cancel \/ StopLoop \/ UNCHANGED vars
    BY <2>2 DEF Cancel, StopLoop, vars, listenerVars, FlowInv, TypeOK
  <2>3. QED BY <2>1, <2>2
<1>3. TypeOK' /\ HeightsProduced' /\ JobShape'
  BY <1>1, <1>2 DEF FlowInv, TypeOK, HeightsProduced, JobShape, Participated
<1>4. QED BY <1>3 DEF FlowInv

LEMMA FlowStep ==
    ASSUME FlowInv, WindowDuration, [Next]_vars
    PROVE  FlowInv'
<1>1. CASE ProduceBlock
  BY <1>1, ProduceFlow
<1>2. CASE Cancel \/ CleanupSeenBlocks \/ StopLoop \/ UNCHANGED vars
  BY <1>2, OtherFlow
<1>3. CASE \E n \in Nodes : ListenerStep(n)
  BY <1>3, ListenerFlow
<1>4. CASE \E w \in Workers : TakeBlock(w)
  BY <1>4, TakeFlow
<1>5. ASSUME NEW w \in Workers, WorkerStep(w) PROVE FlowInv'
  <2>1. CASE NoProofNode(w) \/ ProofFailed(w) \/ FinishBlock(w)
    BY <2>1, ReturnFlow DEF NoProofNode, ProofFailed, FinishBlock
  <2>2. CASE GetBlockTime(w) \/ ProofFetched(w)
    BY <2>2, MoveFlow
  <2>3. CASE AddToWindow(w)
    BY <2>3, AddFlow
  <2>4. CASE UpdateDown(w)
    BY <2>4, UpdateFlow
  <2>5. QED BY <1>5, <2>1, <2>2, <2>3, <2>4 DEF WorkerStep
<1>6. QED
  BY <1>1, <1>2, <1>3, <1>4, <1>5 DEF Next

-----------------------------------------------------------------------------
(* Windows and validator states *)

(* A goroutine that is adding a block has one. *)
LEMMA AddingHeight ==
    ASSUME FlowInv, NEW w \in Workers, NEW v \in job[w].adding
    PROVE  /\ job[w].pc = "update"
           /\ job[w].height \in Heights
           /\ v \in Validators
<1>1. job[w] \in Job
  BY DEF FlowInv, TypeOK
<1>2. job[w].pc = "update" /\ job[w].height >= 1
  BY DEF FlowInv, JobShape
<1>3. job[w].height \in 0..MaxHeight /\ v \in Validators
  BY <1>1 DEF Job
<1>4. QED
  BY <1>2, <1>3, PipelineAssumption DEF Heights

(* A step that writes no window, no validator and no record, and leaves    *)
(* every goroutine that is adding a block as it is.                        *)
LEMMA QuietStep ==
    ASSUME FlowInv, WindowInv,
           UNCHANGED <<window, down, lastHeight, recorded>>,
           \A w \in Workers : \/ job[w].adding = {} /\ job'[w].adding = {}
                             \/ job'[w] = job[w],
           \A h \in Heights : h <= head => signers'[h] = signers[h]
    PROVE  WindowInv'
<1>1. WindowDuration' /\ ItemsRecorded' /\ MissedCounterExact' /\ NoLiveBlockLost'
  BY DEF WindowInv, WindowDuration, ItemsRecorded, MissedCounterExact, NoLiveBlockLost
<1>2. ASSUME NEW w \in Workers, NEW v \in job[w].adding
      PROVE  /\ job'[w] = job[w]
             /\ Participated(v, job[w].height)' = Participated(v, job[w].height)
  <2>1. job[w].height \in Heights /\ job[w].height <= head
    BY <1>2, AddingHeight DEF FlowInv, HeightsProduced
  <2>2. QED BY <1>2, <2>1 DEF Participated
<1>3. ASSUME NEW w \in Workers, NEW v \in job'[w].adding PROVE v \in job[w].adding
  BY <1>3
<1>4. AddingRecorded'
  BY <1>2, <1>3 DEF WindowInv, AddingRecorded
<1>5. DownMeansAllMissed'
  <2>1. \A v \in Validators : Rising(v) => Rising(v)'
    BY <1>2 DEF Rising
  <2>2. QED BY <2>1 DEF WindowInv, DownMeansAllMissed
<1>6. LastHeightCovers'
  <2>1. \A v \in Validators : \A h : Adding(v, h) => Adding(v, h)'
    BY <1>2 DEF Adding
  <2>2. QED BY <2>1 DEF WindowInv, LastHeightCovers
<1>7. QED
  BY <1>1, <1>4, <1>5, <1>6 DEF WindowInv

(* Window.Add, outside the validator's lock. *)
LEMMA AddStep ==
    ASSUME FlowInv, WindowInv, NEW w \in Workers, AddToWindow(w)
    PROVE  WindowInv'
<1> DEFINE h == job[w].height
           ts == job[w].ts
<1>1. PICK v \in job[w].todo :
        /\ window' = [window EXCEPT ![v] = Add(@, Participated(v, h), ts, h)]
        /\ recorded' = [recorded EXCEPT ![v] =
              @ \cup {[ts |-> ts, signed |-> Participated(v, h), height |-> h]}]
        /\ job' = [job EXCEPT ![w].adding = {v}, ![w].todo = @ \ {v}]
  BY DEF AddToWindow
<1> DEFINE x == [ts |-> ts, signed |-> Participated(v, h), height |-> h]
           old == window[v]
           new == Add(old, Participated(v, h), ts, h)
<1>2. /\ job[w] \in Job
      /\ job[w].adding = {}
      /\ v \in Validators
      /\ h \in Nat
      /\ ts \in Nat
      /\ Participated(v, h) \in BOOLEAN
  BY PipelineAssumption DEF AddToWindow, FlowInv, TypeOK, Job, Participated
<1>3. old \in Window /\ old.duration = Duration /\ Duration \in Nat \ {0}
  BY <1>2, PipelineAssumption DEF FlowInv, TypeOK, WindowInv, WindowDuration
<1>4. /\ new.duration = Duration
      /\ \E i \in DOMAIN new.items : new.items[i] = x
      /\ \A i \in DOMAIN new.items :
            \/ new.items[i] = x
            \/ \E j \in DOMAIN old.items : new.items[i] = old.items[j]
      /\ \A j \in DOMAIN old.items : old.items[j].ts > ts - Duration
            => \E i \in DOMAIN new.items : new.items[i] = old.items[j]
      /\ old.missed = MissedIn(old.items) => new.missed = MissedIn(new.items)
  <2> DEFINE signed == Participated(v, h)
  <2>1. x = [ts |-> ts, signed |-> signed, height |-> h] /\ new = Add(old, signed, ts, h)
    OBVIOUS
  <2>2. signed \in BOOLEAN
    BY <1>2
  <2> HIDE DEF h, ts, old, x, new, signed
  <2>3. /\ new.duration = old.duration
        /\ Renewed(old.items, new.items, x, ts - old.duration)
        /\ old.missed = MissedIn(old.items) => new.missed = MissedIn(new.items)
    BY <1>2, <1>3, <2>1, <2>2, AddProperties
  <2>4. QED BY <1>3, <2>3 DEF Renewed
<1>5. /\ window'[v] = new
      /\ recorded'[v] = recorded[v] \cup {x}
      /\ \A u \in Validators \ {v} : window'[u] = window[u] /\ recorded'[u] = recorded[u]
  BY <1>1, <1>2 DEF FlowInv, TypeOK
<1>6. /\ job'[w].adding = {v}
      /\ job'[w].height = h
      /\ \A u \in Workers \ {w} : job'[u] = job[u]
  BY <1>1, <1>2 DEF FlowInv, TypeOK, Job
<1>7. UNCHANGED <<signers, down, lastHeight>>
  BY DEF AddToWindow, outsideJob, chainVars
<1>8. x.ts = ts /\ x.height = h /\ x.signed = Participated(v, h)
  OBVIOUS
<1> HIDE DEF x, new, h, ts, old
<1>9. WindowDuration'
  BY <1>4, <1>5 DEF WindowInv, WindowDuration
<1>10. MissedCounterExact'
  <2>1. old.missed = MissedIn(old.items)
    BY <1>2 DEF WindowInv, MissedCounterExact, old
  <2>2. QED BY <1>4, <1>5, <2>1 DEF WindowInv, MissedCounterExact
<1>11. NoLiveBlockLost'
  <2>1. SUFFICES ASSUME NEW u \in Validators, NEW r \in recorded'[u],
                        \A q \in recorded'[u] : r.ts > q.ts - Duration
                 PROVE  \E i \in DOMAIN window'[u].items : window'[u].items[i] = r
    BY DEF NoLiveBlockLost
  <2>2. CASE u # v
    BY <1>5, <2>1, <2>2 DEF WindowInv, NoLiveBlockLost
  <2>3. CASE u = v /\ r = x
    BY <1>4, <1>5, <2>3
  <2>4. CASE u = v /\ r \in recorded[v]
    <3>1. \A q \in recorded[v] : r.ts > q.ts - Duration
      BY <1>5, <2>1, <2>4
    <3>2. PICK j \in DOMAIN old.items : old.items[j] = r
      BY <1>2, <2>4, <3>1 DEF WindowInv, NoLiveBlockLost, old
    <3>3. r.ts > ts - Duration
      BY <1>5, <1>8, <2>1, <2>4
    <3>4. QED BY <1>4, <1>5, <2>4, <3>2, <3>3
  <2>5. QED BY <1>5, <2>1, <2>2, <2>3, <2>4
<1>12. AddingRecorded'
  <2>1. SUFFICES ASSUME NEW u \in Validators, NEW k \in Workers, u \in job'[k].adding
                 PROVE  \E r \in recorded'[u] :
                           /\ r.height = job'[k].height
                           /\ r.signed = Participated(u, job'[k].height)
    BY <1>7 DEF AddingRecorded, Participated
  <2>2. CASE k = w
    BY <1>5, <1>6, <1>8, <2>1, <2>2
  <2>3. CASE k # w
    <3>1. PICK r \in recorded[u] : /\ r.height = job[k].height
                                   /\ r.signed = Participated(u, job[k].height)
      BY <1>6, <2>1, <2>3 DEF WindowInv, AddingRecorded
    <3>2. r \in recorded'[u] /\ job'[k] = job[k]
      BY <1>5, <1>6, <2>3
    <3>3. QED BY <3>1, <3>2
  <2>4. QED BY <2>2, <2>3
<1>13. \A u : Rising(u) => Rising(u)'
  BY <1>2, <1>6, <1>7 DEF Rising, Participated
<1>14. DownMeansAllMissed'
  <2>1. SUFFICES ASSUME NEW u \in Validators, down[u]
                 PROVE  \/ \A i \in DOMAIN window'[u].items : ~ window'[u].items[i].signed
                        \/ Rising(u)'
    BY <1>7 DEF DownMeansAllMissed
  <2>2. CASE Rising(u)
    BY <1>13, <2>2
  <2>3. CASE u # v /\ ~ Rising(u)
    BY <1>5, <2>1, <2>3 DEF WindowInv, DownMeansAllMissed
  <2>4. CASE u = v /\ ~ Rising(u) /\ Participated(v, h)
    BY <1>6, <1>7, <2>4 DEF Rising, Participated
  <2>5. CASE u = v /\ ~ Rising(u) /\ ~ Participated(v, h)
    <3>1. \A j \in DOMAIN old.items : ~ old.items[j].signed
      BY <2>1, <2>5 DEF WindowInv, DownMeansAllMissed, old
    <3>2. \A i \in DOMAIN new.items : ~ new.items[i].signed
      BY <1>4, <1>8, <2>5, <3>1
    <3>3. QED BY <1>5, <2>5, <3>2
  <2>6. QED BY <2>2, <2>3, <2>4, <2>5
<1>15. LastHeightCovers'
  <2>1. \A u, g : Adding(u, g) => Adding(u, g)'
    BY <1>2, <1>6 DEF Adding
  <2>2. SUFFICES ASSUME NEW u \in Validators
                 PROVE  /\ \/ lastHeight[u] = 0
                           \/ \E r \in recorded'[u] : r.signed /\ r.height = lastHeight[u]
                        /\ \A r \in recorded'[u] : r.signed =>
                              r.height <= lastHeight[u] \/ Adding(u, r.height)'
    BY <1>7 DEF LastHeightCovers
  <2>3. recorded[u] \subseteq recorded'[u]
    BY <1>5
  <2>4. \/ lastHeight[u] = 0
        \/ \E r \in recorded'[u] : r.signed /\ r.height = lastHeight[u]
    BY <2>3 DEF WindowInv, LastHeightCovers
  <2>5. ASSUME NEW r \in recorded'[u], r.signed
        PROVE  r.height <= lastHeight[u] \/ Adding(u, r.height)'
    <3>1. CASE r \in recorded[u]
      BY <2>1, <2>5, <3>1 DEF WindowInv, LastHeightCovers
    <3>2. CASE u = v /\ r = x
      BY <1>6, <1>8, <3>2 DEF Adding
    <3>3. QED BY <1>5, <3>1, <3>2
  <2>6. QED BY <2>4, <2>5
<1>16. ItemsRecorded'
  <2>1. \A i \in DOMAIN old.items : old.items[i] \in recorded[v]
    BY <1>2 DEF WindowInv, ItemsRecorded, old
  <2>2. \A i \in DOMAIN new.items : new.items[i] \in recorded'[v]
    BY <1>4, <1>5, <2>1
  <2>3. QED BY <1>5, <2>2 DEF WindowInv, ItemsRecorded
<1>17. QED
  BY <1>9, <1>10, <1>11, <1>12, <1>14, <1>15, <1>16 DEF WindowInv

(* The section under the validator's lock. *)
LEMMA UpdateStep ==
    ASSUME FlowInv, WindowInv, NEW w \in Workers, UpdateDown(w)
    PROVE  WindowInv'
<1> DEFINE h == job[w].height
<1>1. PICK v \in job[w].adding :
        /\ down' = [down EXCEPT ![v] = DownAfter(v, Participated(v, h))]
        /\ lastHeight' = [lastHeight EXCEPT ![v] =
              LastHeightAfter(v, Participated(v, h), h)]
  BY DEF UpdateDown
<1>2. /\ v \in Validators
      /\ h \in Heights
      /\ h \in Nat
      /\ job[w].adding = {v}
  BY AddingHeight, PipelineAssumption DEF Heights, FlowInv, JobShape
<1>3. /\ job'[w].adding = {}
      /\ \A u \in Workers \ {w} : job'[u] = job[u]
  BY DEF UpdateDown, FlowInv, TypeOK, Job
<1>4. UNCHANGED <<signers, window, recorded>>
  BY DEF UpdateDown, outsideJob, chainVars, historyVars
<1>5. /\ down'[v] = DownAfter(v, Participated(v, h))
      /\ lastHeight'[v] = LastHeightAfter(v, Participated(v, h), h)
      /\ lastHeight[v] \in Nat
      /\ \A u \in Validators \ {v} : down'[u] = down[u] /\ lastHeight'[u] = lastHeight[u]
  BY <1>1, <1>2, PipelineAssumption DEF FlowInv, TypeOK
<1> HIDE DEF h
<1>6. WindowDuration' /\ ItemsRecorded' /\ MissedCounterExact' /\ NoLiveBlockLost'
  BY <1>4 DEF WindowInv, WindowDuration, ItemsRecorded, MissedCounterExact, NoLiveBlockLost
<1>7. AddingRecorded'
  BY <1>3, <1>4 DEF WindowInv, AddingRecorded, Participated
<1>8. DownMeansAllMissed'
  <2>1. SUFFICES ASSUME NEW u \in Validators, down'[u]
                 PROVE  \/ \A i \in DOMAIN window[u].items : ~ window[u].items[i].signed
                        \/ Rising(u)'
    BY <1>4 DEF DownMeansAllMissed
  <2>2. CASE u # v
    <3>1. Rising(u) => Rising(u)'
      BY <1>2, <1>3, <1>4, <2>2 DEF Rising, Participated
    <3>2. QED BY <1>5, <2>1, <2>2, <3>1 DEF WindowInv, DownMeansAllMissed
  <2>3. CASE u = v
    <3>1. ~ Participated(v, h)
      BY <1>5, <2>1, <2>3 DEF DownAfter
    <3>2. Rising(v) => Rising(v)'
      BY <1>3, <1>4, <3>1 DEF Rising, Participated, h
    <3>3. CASE down[v]
      BY <1>2, <2>3, <3>2, <3>3 DEF WindowInv, DownMeansAllMissed
    <3>4. CASE AllMissed(v)
      <4>1. window[v].items # <<>> => window[v].missed = Len(window[v].items)
        BY <3>4 DEF AllMissed, GetStats
      <4>2. window[v].missed = MissedIn(window[v].items) /\ window[v].items \in Seq(Item)
        BY <1>2 DEF FlowInv, TypeOK, Window, WindowInv, MissedCounterExact
      <4>3. window[v].items = <<>> => DOMAIN window[v].items = {}
        OBVIOUS
      <4>4. QED BY <2>3, <4>1, <4>2, <4>3, MissedInType
    <3>5. QED BY <1>5, <2>1, <2>3, <3>1, <3>3, <3>4 DEF DownAfter
  <2>4. QED BY <2>2, <2>3
<1>9. LastHeightCovers'
  <2>1. SUFFICES ASSUME NEW u \in Validators
                 PROVE  /\ \/ lastHeight'[u] = 0
                           \/ \E r \in recorded[u] : r.signed /\ r.height = lastHeight'[u]
                        /\ \A r \in recorded[u] : r.signed =>
                              r.height <= lastHeight'[u] \/ Adding(u, r.height)'
    BY <1>4 DEF LastHeightCovers
  <2>2. CASE u # v
    <3>1. \A g : Adding(u, g) => Adding(u, g)'
      BY <1>2, <1>3, <2>2 DEF Adding
    <3>2. QED BY <1>5, <2>2, <3>1 DEF WindowInv, LastHeightCovers
  <2>3. CASE u = v
    <3>1. \/ lastHeight'[v] = 0
          \/ \E r \in recorded[v] : r.signed /\ r.height = lastHeight'[v]
      <4>1. CASE Participated(v, h) /\ h > lastHeight[v]
        <5>1. PICK r \in recorded[v] : r.height = h /\ r.signed = Participated(v, h)
          BY <1>2 DEF WindowInv, AddingRecorded, h
        <5>2. QED BY <1>5, <4>1, <5>1 DEF LastHeightAfter
      <4>2. CASE ~ (Participated(v, h) /\ h > lastHeight[v])
        BY <1>2, <1>5, <4>2 DEF LastHeightAfter, WindowInv, LastHeightCovers
      <4>3. QED BY <4>1, <4>2
    <3>2. ASSUME NEW r \in recorded[v], r.signed
          PROVE  r.height <= lastHeight'[v] \/ Adding(v, r.height)'
      <4>1. r.height \in Nat /\ Participated(v, r.height)
        BY <1>2, <3>2 DEF FlowInv, HeightsProduced, TypeOK
      <4>2. lastHeight[v] <= lastHeight'[v] /\ lastHeight'[v] \in Nat
        BY <1>2, <1>5 DEF LastHeightAfter
      <4>3. CASE r.height <= lastHeight[v]
        BY <1>5, <4>1, <4>2, <4>3
      <4>4. CASE r.height = h
        BY <1>2, <1>5, <4>1, <4>4 DEF LastHeightAfter
      <4>5. CASE Adding(v, r.height) /\ r.height # h
        BY <1>3, <4>5 DEF Adding, h
      <4>6. QED BY <1>2, <3>2, <4>3, <4>4, <4>5 DEF WindowInv, LastHeightCovers
    <3>3. QED BY <2>3, <3>1, <3>2
  <2>4. QED BY <2>2, <2>3
<1>10. QED
  BY <1>6, <1>7, <1>8, <1>9 DEF WindowInv

LEMMA WindowStep ==
    ASSUME IInv, [Next]_vars
    PROVE  WindowInv'
<1> USE DEF IInv
<1>1. CASE ProduceBlock
  <2>1. \A h \in Heights : h <= head => signers'[h] = signers[h]
    BY <1>1, PipelineAssumption DEF ProduceBlock, FlowInv, TypeOK, Heights
  <2>2. UNCHANGED <<job, window, down, lastHeight, recorded>>
    BY <1>1 DEF ProduceBlock, validatorVars, historyVars
  <2>3. QED BY <2>1, <2>2, QuietStep
<1>2. CASE \/ Cancel \/ CleanupSeenBlocks \/ StopLoop \/ UNCHANGED vars
           \/ \E n \in Nodes : ListenerStep(n)
  <2>1. UNCHANGED <<signers, job, window, down, lastHeight, recorded>>
    BY <1>2 DEF Cancel, CleanupSeenBlocks, StopLoop, vars, ListenerStep, Subscribe,
                SubscriptionError, Receive, SendBlock, StopListener, outsideListener,
                chainVars, validatorVars, historyVars
  <2>2. QED BY <2>1, QuietStep
<1>3. ASSUME NEW w \in Workers, TakeBlock(w) PROVE WindowInv'
  <2>1. UNCHANGED <<signers, window, down, lastHeight, recorded>>
    BY <1>3 DEF TakeBlock, chainVars, validatorVars, historyVars
  <2>2. /\ job[w].adding = {}
        /\ job' = [job EXCEPT ![w] = Started(Head(blockCh))]
        /\ Started(Head(blockCh)).adding = {}
    BY <1>3 DEF TakeBlock, Started, FlowInv, JobShape
  <2>3. \A u \in Workers : (job[u].adding = {} /\ job'[u].adding = {}) \/ job'[u] = job[u]
    BY <2>2 DEF FlowInv, TypeOK
  <2>4. QED BY <2>1, <2>3, QuietStep
<1>4. ASSUME NEW w \in Workers, WorkerStep(w) PROVE WindowInv'
  <2>1. CASE AddToWindow(w)
    BY <2>1, AddStep
  <2>2. CASE UpdateDown(w)
    BY <2>2, UpdateStep
  <2>3. CASE NoProofNode(w) \/ ProofFailed(w) \/ FinishBlock(w)
    <3>1. UNCHANGED <<signers, window, down, lastHeight, recorded>>
      BY <2>3 DEF NoProofNode, ProofFailed, FinishBlock, Return, outsideJob, chainVars,
                  validatorVars
    <3>2. /\ job[w].adding = {}
          /\ job' = [job EXCEPT ![w] = Idle]
          /\ Idle.adding = {}
      BY <2>3 DEF NoProofNode, ProofFailed, FinishBlock, Return, Idle, FlowInv, JobShape
    <3>3. \A u \in Workers : \/ job[u].adding = {} /\ job'[u].adding = {}
                             \/ job'[u] = job[u]
      BY <3>2 DEF FlowInv, TypeOK
    <3>4. QED BY <3>1, <3>3, QuietStep
  <2>4. CASE GetBlockTime(w) \/ ProofFetched(w)
    <3>1. UNCHANGED <<signers, window, down, lastHeight, recorded>>
      BY <2>4 DEF GetBlockTime, ProofFetched, outsideJob, chainVars, validatorVars,
                  historyVars
    <3>2. /\ job[w] \in Job
          /\ job[w].adding = {}
      BY <2>4 DEF GetBlockTime, ProofFetched, FlowInv, TypeOK, JobShape
    <3>3. \A u \in Workers : \/ job[u].adding = {} /\ job'[u].adding = {}
                             \/ job'[u] = job[u]
      <4>1. CASE GetBlockTime(w)
        <5>1. PICK ts : job' = [job EXCEPT ![w].pc = "proof", ![w].ts = ts]
          BY <4>1 DEF GetBlockTime
        <5>2. QED BY <3>2, <5>1 DEF FlowInv, TypeOK, Job
      <4>2. CASE ProofFetched(w)
        BY <3>2, <4>2 DEF ProofFetched, FlowInv, TypeOK, Job
      <4>3. QED BY <2>4, <4>1, <4>2
    <3>4. QED BY <3>1, <3>3, QuietStep
  <2>5. QED BY <1>4, <2>1, <2>2, <2>3, <2>4 DEF WorkerStep
<1>5. QED
  BY <1>1, <1>2, <1>3, <1>4 DEF Next

-----------------------------------------------------------------------------
(* The number of times a height is on its way to a window or in it *)

LEMMA NoMore ==
    ASSUME NEW T, IsFiniteSet(T), NEW S \in SUBSET T
    PROVE  IsFiniteSet(S) /\ Cardinality(S) \in Nat /\ Cardinality(S) <= Cardinality(T)
BY FS_Subset, FS_CardinalityType

LEMMA OneMore ==
    ASSUME NEW T, IsFiniteSet(T), NEW x, NEW S \in SUBSET (T \cup {x})
    PROVE  IsFiniteSet(S) /\ Cardinality(S) \in Nat /\ Cardinality(S) <= Cardinality(T) + 1
<1> DEFINE U == T \cup {x}
<1>1. /\ IsFiniteSet(U)
      /\ Cardinality(U) = IF x \in T THEN Cardinality(T) ELSE Cardinality(T) + 1
  BY FS_AddElement
<1> HIDE DEF U
<1>2. Cardinality(T) \in Nat /\ Cardinality(U) \in Nat
  BY <1>1, FS_CardinalityType
<1>3. Cardinality(U) <= Cardinality(T) + 1
  BY <1>1, <1>2
<1>4. IsFiniteSet(S) /\ Cardinality(S) \in Nat /\ Cardinality(S) <= Cardinality(U)
  BY <1>1, NoMore DEF U
<1> QED
  BY <1>2, <1>3, <1>4

LEMMA OneLess ==
    ASSUME NEW T, IsFiniteSet(T), NEW x \in T, NEW S \in SUBSET (T \ {x})
    PROVE  IsFiniteSet(S) /\ Cardinality(S) \in Nat /\ Cardinality(S) + 1 <= Cardinality(T)
<1> DEFINE U == T \ {x}
<1>1. /\ IsFiniteSet(U)
      /\ Cardinality(U) = IF x \in T THEN Cardinality(T) - 1 ELSE Cardinality(T)
  BY FS_RemoveElement
<1> HIDE DEF U
<1>2. Cardinality(T) \in Nat /\ Cardinality(U) = Cardinality(T) - 1
  BY <1>1, FS_CardinalityType
<1>3. IsFiniteSet(S) /\ Cardinality(S) \in Nat /\ Cardinality(S) <= Cardinality(U)
  BY <1>1, NoMore DEF U
<1> QED
  BY <1>2, <1>3

(* Places that move, each to one of its own. *)
LEMMA Moved ==
    ASSUME NEW S, NEW T, IsFiniteSet(T), NEW f \in [S -> T],
           \A a, b \in S : f[a] = f[b] => a = b
    PROVE  IsFiniteSet(S) /\ Cardinality(S) \in Nat /\ Cardinality(S) <= Cardinality(T)
<1>1. f \in Injection(S, T)
  BY DEF Injection, IsInjective
<1> QED
  BY <1>1, FS_Injection, FS_CardinalityType

(* A step with which no height gets more carriers. *)
LEMMA CarriedOn ==
    ASSUME FlowInv, NEW v, NEW h, Within(v, h), AllFinite(v, h)',
           Load(v, h)' \in Nat, Load(v, h)' <= Load(v, h),
           UNCHANGED <<seen, cleanups>> \/ CleanupSeenBlocks
    PROVE  Within(v, h)'
<1> DEFINE before == Load(v, h)
           after  == Load(v, h)'
<1>1. before \in Nat
  BY FS_CardinalityType DEF Within, AllFinite, Load
<1>2. /\ cleanups \in Nat /\ after \in Nat
      /\ before <= cleanups + (IF h \in seen THEN 1 ELSE 0) /\ after <= before
  BY PipelineAssumption DEF FlowInv, TypeOK, Within
<1> HIDE DEF before, after
<1>3. after <= cleanups' + (IF h \in seen' THEN 1 ELSE 0)
  BY <1>1, <1>2 DEF CleanupSeenBlocks
<1> QED
  BY <1>3 DEF Within, after

LEMMA LoadType ==
    ASSUME NEW v, NEW h, AllFinite(v, h)
    PROVE  /\ Cardinality(Sending(h)) \in Nat /\ Cardinality(Queued(h)) \in Nat
           /\ Cardinality(Processing(v, h)) \in Nat /\ Cardinality(Counted(v, h)) \in Nat
           /\ Load(v, h) \in Nat
BY FS_CardinalityType DEF AllFinite, Load

(* Steps that move no height forward, and those that give one up. *)
LEMMA CarriedStill ==
    ASSUME FlowInv, NEW v \in Validators, NEW h \in Heights, Within(v, h),
           UNCHANGED <<blockCh, window>>,
           \A n \in Nodes : listener'[n] = "send" => /\ listener[n] = "send"
                                                     /\ holding'[n] = holding[n],
           \A w \in Workers : Carries(w, v, h)' => Carries(w, v, h),
           UNCHANGED <<seen, cleanups>> \/ CleanupSeenBlocks
    PROVE  Within(v, h)'
<1>1. /\ Sending(h)' \subseteq Sending(h) /\ Queued(h)' = Queued(h)
      /\ Processing(v, h)' \subseteq Processing(v, h) /\ Counted(v, h)' = Counted(v, h)
  BY DEF Sending, Queued, Processing, Counted
<1>2. AllFinite(v, h)
  BY DEF Within
<1>3. /\ IsFiniteSet(Sending(h)') /\ Cardinality(Sending(h)') \in Nat
      /\ Cardinality(Sending(h)') <= Cardinality(Sending(h))
      /\ IsFiniteSet(Processing(v, h)') /\ Cardinality(Processing(v, h)') \in Nat
      /\ Cardinality(Processing(v, h)') <= Cardinality(Processing(v, h))
  BY <1>1, <1>2, NoMore DEF AllFinite
<1>4. AllFinite(v, h)' /\ Load(v, h)' \in Nat /\ Load(v, h)' <= Load(v, h)
  BY <1>1, <1>2, <1>3, LoadType DEF AllFinite, Load
<1> QED
  BY <1>4, CarriedOn

(* A header is marked as seen and given to a listener to send. *)
LEMMA CarriedReceived ==
    ASSUME FlowInv, NEW v \in Validators, NEW h \in Heights, Within(v, h),
           NEW n \in Nodes, Receive(n)
    PROVE  Within(v, h)'
<1>1. UNCHANGED <<blockCh, window, job, cleanups>> /\ listener[n] = "receive"
  BY DEF Receive, outsideListener, validatorVars
<1>2. PICK g \in 1..head :
        IF g \in seen
        THEN UNCHANGED <<seen, listener, holding>>
        ELSE /\ seen' = seen \cup {g}
             /\ listener' = [listener EXCEPT ![n] = "send"]
             /\ holding' = [holding EXCEPT ![n] = g]
  BY DEF Receive
<1>3. CASE g \in seen
  <2>1. UNCHANGED <<seen, listener, holding>>
    BY <1>2, <1>3
  <2> QED
    BY <1>1, <2>1, CarriedStill DEF Carries
<1>4. CASE g \notin seen
  <2>1. /\ seen' = seen \cup {g}
        /\ listener'[n] = "send" /\ holding'[n] = g
        /\ \A m \in Nodes \ {n} : listener'[m] = listener[m] /\ holding'[m] = holding[m]
    BY <1>2, <1>4 DEF FlowInv, TypeOK
  <2>2. /\ Queued(h)' = Queued(h) /\ Processing(v, h)' = Processing(v, h)
        /\ Counted(v, h)' = Counted(v, h)
        /\ Sending(h)' \subseteq Sending(h) \cup {n}
        /\ g # h => Sending(h)' \subseteq Sending(h)
    BY <1>1, <2>1 DEF Sending, Queued, Processing, Counted, Carries
  <2>3. AllFinite(v, h) /\ cleanups \in Nat
    BY PipelineAssumption DEF Within, FlowInv, TypeOK
  <2>4. /\ IsFiniteSet(Sending(h)') /\ Cardinality(Sending(h)') \in Nat
        /\ Cardinality(Sending(h)') <= Cardinality(Sending(h)) + 1
    BY <2>2, <2>3, OneMore DEF AllFinite
  <2>5. g # h => Cardinality(Sending(h)') <= Cardinality(Sending(h))
    BY <2>2, <2>3, NoMore DEF AllFinite
  <2>6. Load(v, h)' <= Load(v, h) + 1 /\ (g # h => Load(v, h)' <= Load(v, h))
    BY <2>2, <2>3, <2>4, <2>5, LoadType DEF Load
  <2>7. AllFinite(v, h)' /\ Load(v, h)' \in Nat /\ Load(v, h) \in Nat
    BY <2>2, <2>3, <2>4, LoadType DEF AllFinite, Load
  <2>8. Load(v, h)' <= cleanups + (IF h \in seen' THEN 1 ELSE 0)
    <3> DEFINE before == Load(v, h)
               after  == Load(v, h)'
    <3>1. /\ before <= cleanups + (IF h \in seen THEN 1 ELSE 0)
          /\ before \in Nat /\ after \in Nat
          /\ after <= before + 1 /\ (g # h => after <= before)
      BY <2>6, <2>7 DEF Within
    <3> HIDE DEF before, after
    <3>2. after <= cleanups + (IF h \in seen' THEN 1 ELSE 0)
      BY <1>4, <2>1, <2>3, <3>1
    <3> QED
      BY <3>2 DEF after
  <2> QED
    BY <1>1, <2>7, <2>8 DEF Within
<1> QED
  BY <1>3, <1>4

(* The last place of the channel takes the height from the listener. *)
LEMMA CarriedSent ==
    ASSUME FlowInv, NEW v \in Validators, NEW h \in Heights, Within(v, h),
           NEW n \in Nodes, SendBlock(n)
    PROVE  Within(v, h)'
<1> DEFINE place == Len(blockCh) + 1
<1>1. /\ UNCHANGED <<window, job, seen, cleanups>> /\ listener[n] = "send"
      /\ listener'[n] = "receive"
      /\ \A m \in Nodes \ {n} : listener'[m] = listener[m] /\ holding'[m] = holding[m]
  BY DEF SendBlock, outsideListener, validatorVars, FlowInv, TypeOK
<1>2. /\ place \in Nat
      /\ DOMAIN blockCh = 1..(place - 1)
      /\ DOMAIN blockCh' = 1..place
      /\ blockCh'[place] = holding[n]
      /\ \A i \in 1..(place - 1) : blockCh'[i] = blockCh[i]
  <2>1. blockCh \in Seq(Heights) /\ Len(blockCh) \in Nat /\ holding[n] \in Heights
    BY <1>1, PipelineAssumption, LenProperties DEF FlowInv, TypeOK, HeightsProduced, Heights
  <2>2. blockCh' = Append(blockCh, holding[n])
    BY DEF SendBlock
  <2>3. /\ blockCh' \in Seq(Heights) /\ Len(blockCh') = place
        /\ \A i \in 1..Len(blockCh) : blockCh'[i] = blockCh[i]
        /\ blockCh'[place] = holding[n]
    BY <2>1, <2>2, AppendProperties
  <2> QED
    BY <2>1, <2>3, LenProperties
<1> HIDE DEF place
<1>3. /\ Processing(v, h)' = Processing(v, h) /\ Counted(v, h)' = Counted(v, h)
      /\ Sending(h)' \subseteq Sending(h) \ {n}
      /\ Queued(h)' \subseteq Queued(h) \cup {place}
      /\ IF holding[n] = h THEN n \in Sending(h) ELSE Queued(h)' \subseteq Queued(h)
  BY <1>1, <1>2 DEF Sending, Queued, Processing, Counted, Carries
<1>4. AllFinite(v, h)
  BY DEF Within
<1>5. /\ IsFiniteSet(Sending(h)') /\ Cardinality(Sending(h)') \in Nat
      /\ Cardinality(Sending(h)') <= Cardinality(Sending(h))
      /\ IsFiniteSet(Queued(h)') /\ Cardinality(Queued(h)') \in Nat
      /\ Cardinality(Queued(h)') <= Cardinality(Queued(h)) + 1
  <2>1. Sending(h)' \in SUBSET Sending(h) /\ Queued(h)' \in SUBSET (Queued(h) \cup {place})
    BY <1>3
  <2> QED
    BY <1>4, <2>1, NoMore, OneMore DEF AllFinite
<1>6. \/ Cardinality(Sending(h)') + 1 <= Cardinality(Sending(h))
      \/ Cardinality(Queued(h)') <= Cardinality(Queued(h))
  <2>1. CASE holding[n] = h
    BY <1>3, <1>4, <2>1, OneLess DEF AllFinite
  <2>2. CASE holding[n] # h
    BY <1>3, <1>4, <2>2, NoMore DEF AllFinite
  <2> QED
    BY <2>1, <2>2
<1>7. AllFinite(v, h)' /\ Load(v, h)' \in Nat /\ Load(v, h)' <= Load(v, h)
  BY <1>3, <1>4, <1>5, <1>6, LoadType DEF AllFinite, Load
<1> QED
  BY <1>1, <1>7, CarriedOn

(* A goroutine takes the height from the first place of the channel, and   *)
(* the others move up.                                                     *)
LEMMA CarriedTaken ==
    ASSUME FlowInv, NEW v \in Validators, NEW h \in Heights, Within(v, h),
           NEW w \in Workers, TakeBlock(w)
    PROVE  Within(v, h)'
<1>1. /\ UNCHANGED <<window, listener, holding, seen, cleanups>> /\ job[w].pc = "idle"
      /\ job'[w].height = Head(blockCh)
      /\ \A u \in Workers \ {w} : job'[u] = job[u]
  BY DEF TakeBlock, listenerVars, validatorVars, FlowInv, TypeOK, Started
<1>2. /\ Len(blockCh) \in Nat \ {0}
      /\ DOMAIN blockCh = 1..Len(blockCh)
      /\ DOMAIN blockCh' = 1..(Len(blockCh) - 1)
      /\ \A i \in DOMAIN blockCh' : blockCh'[i] = blockCh[i + 1]
      /\ Head(blockCh) = blockCh[1]
  <2>1. blockCh \in Seq(Heights) /\ blockCh # <<>> /\ blockCh' = Tail(blockCh)
    BY DEF TakeBlock, FlowInv, TypeOK
  <2>2. /\ blockCh' \in Seq(Heights)
        /\ Len(blockCh') = Len(blockCh) - 1
        /\ \A i \in 1..Len(blockCh') : blockCh'[i] = blockCh[i + 1]
        /\ DOMAIN blockCh = 1..Len(blockCh)
        /\ Len(blockCh) \in Nat \ {0}
    BY <2>1, HeadTailProperties, LenProperties, EmptySeq
  <2> QED
    BY <2>1, <2>2, LenProperties
<1>3. /\ Sending(h)' = Sending(h) /\ Counted(v, h)' = Counted(v, h)
      /\ Processing(v, h)' \subseteq Processing(v, h) \cup {w}
      /\ Queued(h)' \subseteq Int
      /\ \A i \in Queued(h)' : i + 1 \in Queued(h) \ {1}
      /\ IF Head(blockCh) = h THEN 1 \in Queued(h)
                              ELSE Processing(v, h)' \subseteq Processing(v, h)
  BY <1>1, <1>2 DEF Sending, Queued, Processing, Counted, Carries
<1>4. AllFinite(v, h)
  BY DEF Within
<1>5. /\ IsFiniteSet(Processing(v, h)') /\ Cardinality(Processing(v, h)') \in Nat
      /\ Cardinality(Processing(v, h)') <= Cardinality(Processing(v, h)) + 1
  BY <1>3, <1>4, OneMore DEF AllFinite
<1>6. /\ IsFiniteSet(Queued(h)') /\ Cardinality(Queued(h)') \in Nat
      /\ Cardinality(Queued(h)') <= Cardinality(Queued(h))
      /\ Head(blockCh) = h => Cardinality(Queued(h)') + 1 <= Cardinality(Queued(h))
  <2> DEFINE rest == Queued(h) \ {1}
             f == [i \in Queued(h)' |-> i + 1]
  <2>1. /\ IsFiniteSet(rest) /\ Cardinality(rest) \in Nat
        /\ Cardinality(rest) <= Cardinality(Queued(h))
    BY <1>4, NoMore DEF AllFinite
  <2>2. Head(blockCh) = h => Cardinality(rest) + 1 <= Cardinality(Queued(h))
    BY <1>3, <1>4, OneLess DEF AllFinite
  <2>3. f \in [Queued(h)' -> rest] /\ \A a, b \in Queued(h)' : f[a] = f[b] => a = b
    BY <1>3
  <2> HIDE DEF rest, f
  <2>4. /\ IsFiniteSet(Queued(h)') /\ Cardinality(Queued(h)') \in Nat
        /\ Cardinality(Queued(h)') <= Cardinality(rest)
    BY <2>1, <2>3, Moved
  <2>5. Cardinality(Queued(h)) \in Nat
    BY <1>4, LoadType
  <2> QED
    BY <2>1, <2>2, <2>4, <2>5
<1>7. Head(blockCh) # h => Cardinality(Processing(v, h)') <= Cardinality(Processing(v, h))
  BY <1>3, <1>4, NoMore DEF AllFinite
<1>8. AllFinite(v, h)' /\ Load(v, h)' \in Nat /\ Load(v, h)' <= Load(v, h)
  BY <1>3, <1>4, <1>5, <1>6, <1>7, LoadType DEF AllFinite, Load
<1> QED
  BY <1>1, <1>8, CarriedOn

(* The last item of the window takes the height from the goroutine, and    *)
(* the others move up.                                                     *)
LEMMA CarriedAdded ==
    ASSUME FlowInv, WindowDuration, NEW v \in Validators, NEW h \in Heights, Within(v, h),
           NEW w \in Workers, AddToWindow(w)
    PROVE  Within(v, h)'
<1>1. PICK u \in job[w].todo :
        /\ window' = [window EXCEPT ![u] =
              Add(@, Participated(u, job[w].height), job[w].ts, job[w].height)]
        /\ job' = [job EXCEPT ![w].adding = {u}, ![w].todo = @ \ {u}]
  BY DEF AddToWindow
<1>2. /\ UNCHANGED <<blockCh, listener, holding, seen, cleanups>> /\ job[w].pc = "update"
      /\ job[w] \in Job
      /\ job'[w] = [job[w] EXCEPT !.adding = {u}, !.todo = job[w].todo \ {u}]
      /\ \A k \in Workers \ {w} : job'[k] = job[k]
  BY <1>1 DEF AddToWindow, outsideJob, listenerVars, FlowInv, TypeOK
<1>3. /\ job'[w].height = job[w].height /\ job'[w].pc = "update"
      /\ job'[w].todo = job[w].todo \ {u}
  BY <1>2 DEF Job
<1>4. /\ Sending(h)' = Sending(h) /\ Queued(h)' = Queued(h)
      /\ Processing(v, h)' \subseteq Processing(v, h)
      /\ u = v => Processing(v, h)' \subseteq Processing(v, h) \ {w}
      /\ u = v /\ job[w].height = h => w \in Processing(v, h)
  BY <1>2, <1>3 DEF Sending, Queued, Processing, Carries
<1>5. AllFinite(v, h)
  BY DEF Within
<1>6. /\ IsFiniteSet(Processing(v, h)') /\ Cardinality(Processing(v, h)') \in Nat
      /\ Cardinality(Processing(v, h)') <= Cardinality(Processing(v, h))
  BY <1>4, <1>5, NoMore DEF AllFinite
<1>7. CASE u # v
  <2>1. window'[v] = window[v]
    BY <1>1, <1>7 DEF FlowInv, TypeOK
  <2>2. Counted(v, h)' = Counted(v, h)
    BY <2>1 DEF Counted
  <2>3. AllFinite(v, h)' /\ Load(v, h)' \in Nat /\ Load(v, h)' <= Load(v, h)
    BY <1>4, <1>5, <1>6, <2>2, LoadType DEF AllFinite, Load
  <2> QED
    BY <1>2, <2>3, CarriedOn
<1>8. CASE u = v
  <2> DEFINE last == Len(window[v].items) + 1
             signed == Participated(v, job[w].height)
             x == [ts |-> job[w].ts, signed |-> signed, height |-> job[w].height]
  <2>1. /\ window[v] \in Window /\ window[v].duration \in Nat \ {0}
        /\ signed \in BOOLEAN /\ job[w].ts \in Nat /\ job[w].height \in Nat
    BY <1>2, PipelineAssumption DEF FlowInv, TypeOK, WindowDuration, Job, Participated
  <2>2. window'[v] = Add(window[v], signed, job[w].ts, job[w].height)
    BY <1>1, <1>8 DEF FlowInv, TypeOK
  <2>3. /\ x = [ts |-> job[w].ts, signed |-> signed, height |-> job[w].height]
        /\ x.height = job[w].height
    OBVIOUS
  <2> HIDE DEF signed, x
  <2>4. SlidOn(window[v].items, window'[v].items, x)
    BY <2>1, <2>2, <2>3, AddProperties
  <2>5. PICK p \in 0..(last - 1) :
          /\ DOMAIN window'[v].items = 1..(last - p)
          /\ \A i \in DOMAIN window'[v].items :
                window'[v].items[i] = IF p + i = last THEN x ELSE window[v].items[p + i]
    BY <2>4 DEF SlidOn
  <2>6. last \in Nat \ {0} /\ DOMAIN window[v].items = 1..(last - 1) /\ p \in Nat
    BY <2>1, LenProperties DEF Window
  <2> HIDE DEF last
  <2>7. ASSUME NEW i \in Counted(v, h)'
        PROVE  /\ i \in Int
               /\ i + p \in Counted(v, h) \/ (i + p = last /\ job[w].height = h)
    <3>1. i \in 1..(last - p) /\ window'[v].items[i].height = h /\ i + p = p + i
      BY <2>5, <2>6 DEF Counted
    <3>2. CASE p + i = last
      BY <2>3, <2>5, <3>1, <3>2
    <3>3. CASE p + i # last
      <4>1. p + i \in DOMAIN window[v].items /\ window[v].items[p + i].height = h
        BY <2>5, <2>6, <3>1, <3>3
      <4> QED
        BY <3>1, <4>1 DEF Counted
    <3> QED
      BY <3>1, <3>2, <3>3
  <2> DEFINE before == Cardinality(Counted(v, h))
             after  == Cardinality(Counted(v, h)')
             grown  == Counted(v, h) \cup {last}
             f      == [i \in Counted(v, h)' |-> i + p]
  <2>8. /\ IsFiniteSet(Counted(v, h)') /\ after \in Nat /\ after <= before + 1
    <3>1. IsFiniteSet(grown) /\ Cardinality(grown) \in Nat /\ Cardinality(grown) <= before + 1
      BY <1>5, OneMore DEF AllFinite
    <3>2. /\ f \in [Counted(v, h)' -> grown]
          /\ \A a, b \in Counted(v, h)' : f[a] = f[b] => a = b
      BY <2>6, <2>7
    <3> HIDE DEF grown, f
    <3>3. IsFiniteSet(Counted(v, h)') /\ after \in Nat /\ after <= Cardinality(grown)
      BY <3>1, <3>2, Moved
    <3>4. before \in Nat
      BY <1>5, LoadType
    <3> QED
      BY <3>1, <3>3, <3>4
  <2>9. job[w].height # h => after <= before
    <3> HAVE job[w].height # h
    <3>1. /\ f \in [Counted(v, h)' -> Counted(v, h)]
          /\ \A a, b \in Counted(v, h)' : f[a] = f[b] => a = b
      BY <2>6, <2>7
    <3> HIDE DEF f
    <3> QED
      BY <1>5, <3>1, Moved DEF AllFinite
  <2>10. job[w].height = h
            => Cardinality(Processing(v, h)') + 1 <= Cardinality(Processing(v, h))
    BY <1>4, <1>5, <1>8, OneLess DEF AllFinite
  <2>11. AllFinite(v, h)' /\ Load(v, h)' \in Nat /\ Load(v, h)' <= Load(v, h)
    BY <1>4, <1>5, <1>6, <2>8, <2>9, <2>10, LoadType DEF AllFinite, Load
  <2> QED
    BY <1>2, <2>11, CarriedOn
<1> QED
  BY <1>7, <1>8

LEMMA CarriedStep ==
    ASSUME FlowInv, WindowDuration, CarriedOnce, [Next]_vars
    PROVE  CarriedOnce'
<1> SUFFICES ASSUME NEW v \in Validators, NEW h \in Heights PROVE Within(v, h)'
  BY DEF CarriedOnce
<1>1. Within(v, h)
  BY DEF CarriedOnce
<1>2. CASE ProduceBlock \/ Cancel \/ CleanupSeenBlocks \/ StopLoop \/ UNCHANGED vars
  <2>1. UNCHANGED <<blockCh, window, listener, holding, job>>
    BY <1>2 DEF ProduceBlock, Cancel, CleanupSeenBlocks, StopLoop, vars, listenerVars,
                validatorVars, outsideListener
  <2>2. UNCHANGED <<seen, cleanups>> \/ CleanupSeenBlocks
    BY <1>2 DEF ProduceBlock, Cancel, StopLoop, vars, listenerVars
  <2>3. \A w \in Workers : Carries(w, v, h)' => Carries(w, v, h)
    BY <2>1 DEF Carries
  <2> QED
    BY <1>1, <2>1, <2>2, <2>3, CarriedStill
<1>3. ASSUME NEW n \in Nodes, ListenerStep(n) PROVE Within(v, h)'
  <2>1. CASE Receive(n)
    BY <1>1, <2>1, CarriedReceived
  <2>2. CASE SendBlock(n)
    BY <1>1, <2>2, CarriedSent
  <2>3. CASE Subscribe(n) \/ SubscriptionError(n) \/ StopListener(n)
    <3>1. UNCHANGED <<blockCh, window, job, seen, cleanups>>
      BY <2>3 DEF Subscribe, SubscriptionError, StopListener, outsideListener, validatorVars
    <3>2. \A m \in Nodes : listener'[m] = "send" => /\ listener[m] = "send"
                                                    /\ holding'[m] = holding[m]
      BY <2>3 DEF Subscribe, SubscriptionError, StopListener, FlowInv, TypeOK
    <3>3. \A w \in Workers : Carries(w, v, h)' => Carries(w, v, h)
      BY <3>1 DEF Carries
    <3> QED
      BY <1>1, <3>1, <3>2, <3>3, CarriedStill
  <2> QED
    BY <1>3, <2>1, <2>2, <2>3 DEF ListenerStep
<1>4. ASSUME NEW w \in Workers, TakeBlock(w) PROVE Within(v, h)'
  BY <1>1, <1>4, CarriedTaken
<1>5. ASSUME NEW w \in Workers, WorkerStep(w) PROVE Within(v, h)'
  <2>1. CASE AddToWindow(w)
    BY <1>1, <2>1, CarriedAdded
  <2>2. ASSUME UNCHANGED <<blockCh, window, listener, holding, seen, cleanups>>,
               \A u \in Workers : Carries(u, v, h)' => Carries(u, v, h)
        PROVE  Within(v, h)'
    BY <1>1, <2>2, CarriedStill
  <2>3. CASE Return(w)
    <3>1. UNCHANGED <<blockCh, window, listener, holding, seen, cleanups>>
      BY <2>3 DEF Return, outsideJob, listenerVars, validatorVars
    <3>2. job'[w].pc = "idle" /\ \A u \in Workers \ {w} : job'[u] = job[u]
      BY <2>3 DEF Return, Idle, FlowInv, TypeOK
    <3> QED
      BY <2>2, <3>1, <3>2 DEF Carries
  <2>4. CASE GetBlockTime(w)
    <3>1. UNCHANGED <<blockCh, window, listener, holding, seen, cleanups>>
      BY <2>4 DEF GetBlockTime, outsideJob, listenerVars, validatorVars
    <3>2. job[w].pc = "time" /\ job'[w].pc = "proof" /\ job'[w].height = job[w].height
          /\ \A u \in Workers \ {w} : job'[u] = job[u]
      BY <2>4 DEF GetBlockTime, FlowInv, TypeOK, Job
    <3> QED
      BY <2>2, <3>1, <3>2 DEF Carries
  <2>5. CASE ProofFetched(w)
    <3>1. UNCHANGED <<blockCh, window, listener, holding, seen, cleanups>>
      BY <2>5 DEF ProofFetched, outsideJob, listenerVars, validatorVars
    <3>2. job[w].pc = "proof" /\ job'[w].height = job[w].height
          /\ \A u \in Workers \ {w} : job'[u] = job[u]
      BY <2>5 DEF ProofFetched, FlowInv, TypeOK, Job
    <3> QED
      BY <2>2, <3>1, <3>2 DEF Carries
  <2>6. CASE UpdateDown(w)
    <3>1. UNCHANGED <<blockCh, window, listener, holding, seen, cleanups>>
      BY <2>6 DEF UpdateDown, outsideJob, listenerVars
    <3>2. /\ job'[w].pc = job[w].pc /\ job'[w].height = job[w].height
          /\ job'[w].todo = job[w].todo
          /\ \A u \in Workers \ {w} : job'[u] = job[u]
      BY <2>6 DEF UpdateDown, FlowInv, TypeOK, Job
    <3> QED
      BY <2>2, <3>1, <3>2 DEF Carries
  <2> QED
    BY <1>5, <2>1, <2>3, <2>4, <2>5, <2>6 DEF WorkerStep, NoProofNode, ProofFailed, FinishBlock
<1> QED
  BY <1>2, <1>3, <1>4, <1>5 DEF Next

-----------------------------------------------------------------------------
(* The invariant holds in every reachable state. *)
THEOREM Invariance == Spec => []IInv
<1>1. IInv /\ [Next]_vars => IInv'
  <2>1. SUFFICES ASSUME IInv, [Next]_vars PROVE IInv'
    OBVIOUS
  <2>2. FlowInv'
    BY <2>1, FlowStep DEF IInv, WindowInv
  <2>3. CarriedOnce'
    BY <2>1, CarriedStep DEF IInv, WindowInv
  <2>4. QED BY <2>1, <2>2, <2>3, WindowStep DEF IInv
<1>2. QED
  BY <1>1, InitInv, PTL DEF Spec

-----------------------------------------------------------------------------
(* The properties of the specification *)

(* Every variable has its type. *)
THEOREM TypeCorrect == Spec => []TypeOK
<1>1. IInv => TypeOK
  BY DEF IInv, FlowInv
<1>2. QED BY <1>1, Invariance, PTL

(* The missed counter of a window is the number of missed blocks in it,    *)
(* for any number of concurrent block goroutines and any order of the      *)
(* timestamps.                                                             *)
THEOREM MissedCounterCorrect == Spec => []MissedCounterExact
<1>1. IInv => MissedCounterExact
  BY DEF IInv, WindowInv
<1>2. QED BY <1>1, Invariance, PTL

(* No block within the duration of the newest one recorded is ever pruned. *)
THEOREM WindowKeepsLiveBlocks == Spec => []NoLiveBlockLost
<1>1. IInv => NoLiveBlockLost
  BY DEF IInv, WindowInv
<1>2. QED BY <1>1, Invariance, PTL

(* A validator that is down has signed none of the blocks recorded over    *)
(* the last window, or a goroutine is about to bring it up.                *)
THEOREM DownIsSilent == Spec => []DownMeansSilent
<1>1. IInv => DownMeansSilent
  <2>1. SUFFICES ASSUME IInv, NEW v \in Validators, down[v], NEW r \in recorded[v],
                        r.signed, \A q \in recorded[v] : r.ts > q.ts - Duration
                 PROVE  \E h \in Heights : Participated(v, h) /\ Adding(v, h)
    BY DEF DownMeansSilent
  <2>2. PICK i \in DOMAIN window[v].items : window[v].items[i] = r
    BY <2>1 DEF IInv, WindowInv, NoLiveBlockLost
  <2>3. Rising(v)
    BY <2>1, <2>2 DEF IInv, WindowInv, DownMeansAllMissed
  <2>4. QED
    BY <2>1, <2>3, AddingHeight DEF IInv, Rising, Adding
<1>2. QED BY <1>1, Invariance, PTL

(* Between two updates LastHeight is the highest recorded block that the   *)
(* validator signed.                                                       *)
THEOREM LastHeightCorrect == Spec => []LastHeightIsNewest
<1>1. IInv => LastHeightIsNewest
  <2>1. SUFFICES ASSUME IInv, NEW v \in Validators, \A h \in Heights : ~ Adding(v, h)
                 PROVE  LET signedHeights ==
                              {0} \cup {r.height : r \in {q \in recorded[v] : q.signed}}
                        IN  /\ lastHeight[v] \in signedHeights
                            /\ \A h \in signedHeights : h <= lastHeight[v]
    BY DEF LastHeightIsNewest
  <2>2. lastHeight[v] = 0 \/ \E r \in recorded[v] : r.signed /\ r.height = lastHeight[v]
    BY <2>1 DEF IInv, WindowInv, LastHeightCovers
  <2>3. ASSUME NEW r \in recorded[v], r.signed PROVE r.height <= lastHeight[v]
    <3>1. ~ Adding(v, r.height)
      BY <2>1, AddingHeight DEF IInv, Adding
    <3>2. QED BY <2>1, <2>3, <3>1 DEF IInv, WindowInv, LastHeightCovers
  <2>4. 0 <= lastHeight[v]
    BY <2>1, PipelineAssumption DEF IInv, FlowInv, TypeOK
  <2>5. QED BY <2>2, <2>3, <2>4
<1>2. QED BY <1>1, Invariance, PTL

(* A window counts a height once, and once more for each reset of the map  *)
(* of seen heights, whichever nodes announce it and how often.             *)
THEOREM HeightsCountedOnce == Spec => []CountedOnce
<1>1. IInv => CountedOnce
  <2>1. SUFFICES ASSUME IInv, NEW v \in Validators, NEW h \in Heights
                 PROVE  Cardinality({i \in DOMAIN window[v].items :
                                        window[v].items[i].height = h}) <= cleanups + 1
    BY DEF CountedOnce
  <2>2. AllFinite(v, h) /\ Load(v, h) <= cleanups + (IF h \in seen THEN 1 ELSE 0)
    BY <2>1 DEF IInv, CarriedOnce, Within
  <2>3. cleanups \in Nat
    BY <2>1, PipelineAssumption DEF IInv, FlowInv, TypeOK
  <2>4. /\ Cardinality(Counted(v, h)) <= Load(v, h) /\ Load(v, h) \in Nat
        /\ Cardinality(Counted(v, h)) \in Nat
    BY <2>2, LoadType DEF Load
  <2>5. Cardinality(Counted(v, h)) <= cleanups + 1
    BY <2>2, <2>3, <2>4
  <2>6. QED BY <2>5 DEF Counted
<1>2. QED BY <1>1, Invariance, PTL

(* What a window holds of a block is what its signers say.                 *)
LEMMA ItemsTrue ==
    ASSUME IInv, NEW v \in Validators, NEW k \in DOMAIN window[v].items
    PROVE  /\ window[v].items[k].height \in Heights
           /\ window[v].items[k].signed = Participated(v, window[v].items[k].height)
<1> DEFINE r == window[v].items[k]
<1>1. r \in recorded[v]
  BY DEF IInv, WindowInv, ItemsRecorded
<1> HIDE DEF r
<1>2. r.height \in 1..head /\ r.signed = Participated(v, r.height)
  BY <1>1 DEF IInv, FlowInv, HeightsProduced
<1>3. r.height \in Heights
  BY <1>2, PipelineAssumption DEF IInv, FlowInv, TypeOK, Heights
<1>4. QED BY <1>2, <1>3 DEF r

(* A bitmap that ends at any height shows the blocks of the window that    *)
(* are in its range, each at its place and as the validator signed or      *)
(* missed it.                                                              *)
THEOREM BitmapCorrect == Spec => []BitmapTrue
<1>1. IInv => BitmapTrue
  <2>1. SUFFICES ASSUME IInv, NEW v \in Validators, NEW base \in Heights, NEW n \in Heights
                 PROVE  ShowsSigned(window[v], base, n, {h \in Heights : Participated(v, h)})
    BY Zenon DEF BitmapTrue
  <2> DEFINE S == {h \in Heights : Participated(v, h)}
  <2>2. window[v] \in Window
    BY <2>1 DEF IInv, FlowInv, TypeOK
  <2>3. base \in Nat \ {0} /\ n \in Nat \ {0}
    BY PipelineAssumption DEF Heights
  <2>4. ASSUME NEW k \in DOMAIN window[v].items
        PROVE  /\ window[v].items[k].height >= 1
               /\ window[v].items[k].signed = (window[v].items[k].height \in S)
    <3> DEFINE h == window[v].items[k].height
    <3>1. h \in Heights /\ window[v].items[k].signed = Participated(v, h)
      BY <2>1, ItemsTrue
    <3> HIDE DEF h
    <3>2. (h \in S) = Participated(v, h)
      BY <3>1 DEF Participated
    <3>3. h >= 1
      BY <3>1, PipelineAssumption DEF Heights
    <3> HIDE DEF S
    <3>4. QED BY <3>1, <3>2, <3>3 DEF h
  <2> HIDE DEF S
  <2>5. ShowsSigned(window[v], base, n, S)
    BY <2>2, <2>3, <2>4, BitmapOfWindow
  <2>6. QED BY <2>5 DEF S
<1>2. QED BY <1>1, Invariance, PTL

-----------------------------------------------------------------------------
(* The pipeline keeps ValidatorWatch *)

(* If n places are spread over the members of D, c to each at most, there  *)
(* are c times as many places as members at most: number the places of     *)
(* each member in their order.                                             *)
LEMMA Spread ==
    ASSUME NEW n \in Nat, NEW D, IsFiniteSet(D), NEW c \in Nat, NEW f \in [1..n -> D],
           \A d \in D : /\ IsFiniteSet({i \in 1..n : f[i] = d})
                        /\ Cardinality({i \in 1..n : f[i] = d}) <= c
    PROVE  n <= Cardinality(D) * c
<1> DEFINE Places(d) == {i \in 1..n : f[i] = d}
           Upto(i)   == {j \in 1..i : f[j] = f[i]}
           number(i) == Cardinality(Upto(i))
           pair      == [i \in 1..n |-> <<f[i], number(i)>>]
<1>1. ASSUME NEW i \in 1..n
      PROVE  /\ IsFiniteSet(Upto(i)) /\ i \in Upto(i)
             /\ number(i) \in 1..c
  <2>1. Upto(i) \in SUBSET Places(f[i]) /\ i \in Upto(i)
    OBVIOUS
  <2>2. f[i] \in D
    OBVIOUS
  <2>3. IsFiniteSet(Places(f[i])) /\ Cardinality(Places(f[i])) <= c
    BY <2>2
  <2> HIDE DEF Upto, Places
  <2>4. /\ IsFiniteSet(Upto(i)) /\ number(i) \in Nat
        /\ number(i) <= Cardinality(Places(f[i]))
    BY <2>1, <2>3, NoMore
  <2>5. number(i) # 0
    BY <2>1, <2>4, FS_EmptySet
  <2>6. Cardinality(Places(f[i])) \in Nat
    BY <2>3, FS_CardinalityType
  <2> HIDE DEF number
  <2>7. number(i) \in 1..c
    BY <2>3, <2>4, <2>5, <2>6
  <2>8. QED BY <2>1, <2>4, <2>7
<1>2. ASSUME NEW i \in 1..n, NEW j \in 1..n, i < j, f[i] = f[j]
      PROVE  number(i) # number(j)
  <2>1. Upto(i) \in SUBSET (Upto(j) \ {j})
    BY <1>2
  <2> HIDE DEF Upto
  <2>2. /\ IsFiniteSet(Upto(j)) /\ j \in Upto(j)
        /\ number(i) \in Nat /\ number(j) \in Nat
    <3> HIDE DEF number
    <3>1. /\ IsFiniteSet(Upto(j)) /\ j \in Upto(j)
          /\ number(i) \in 1..c /\ number(j) \in 1..c
      BY <1>1
    <3>2. QED BY <3>1
  <2>3. number(i) + 1 <= number(j)
    BY <2>1, <2>2, OneLess
  <2> HIDE DEF number
  <2>4. QED BY <2>2, <2>3
<1>3. ASSUME NEW i \in 1..n, NEW j \in 1..n, f[i] = f[j], number(i) = number(j)
      PROVE  i = j
  <2>1. ~ (i < j)
    BY <1>2, <1>3
  <2>2. ~ (j < i)
    BY <1>2, <1>3
  <2>3. QED BY <2>1, <2>2
<1> HIDE DEF number
<1>4. pair \in [1..n -> D \X (1..c)]
  BY <1>1
<1>5. \A i, j \in 1..n : pair[i] = pair[j] => i = j
  BY <1>3
<1> HIDE DEF pair
<1>6. /\ IsFiniteSet(1..c) /\ Cardinality(1..c) = c
      /\ IsFiniteSet(1..n) /\ Cardinality(1..n) = n
  BY FS_Interval
<1>7. /\ IsFiniteSet(D \X (1..c))
      /\ Cardinality(D \X (1..c)) = Cardinality(D) * c
  BY <1>6, FS_Product
<1>8. QED BY <1>4, <1>5, <1>6, <1>7, Moved

(* A window that brings its validator down has the evidence: as many       *)
(* different missed blocks as MinBlocks, but for repetitions.              *)
LEMMA Evidence ==
    ASSUME IInv, NEW v \in Validators, AllMissed(v)
    PROVE  Cardinality(Watch!Missed(v)) * (cleanups + 1) >= MinBlocks
<1> DEFINE items == window[v].items
           n     == Len(items)
           D     == Watch!Missed(v)
           f     == [i \in 1..n |-> items[i].height]
<1>1. /\ items \in Seq(Item) /\ n \in Nat /\ DOMAIN items = 1..n
      /\ cleanups \in Nat /\ MinBlocks \in Nat \ {0}
  <2>1. window[v] \in Window
    BY DEF IInv, FlowInv, TypeOK
  <2>2. items \in Seq(Item)
    BY <2>1 DEF Window
  <2>3. QED BY <2>2, LenProperties, PipelineAssumption DEF IInv, FlowInv, TypeOK
<1>2. n >= MinBlocks /\ \A i \in 1..n : ~ items[i].signed
  <2>1. GetStats(window[v]).total >= MinBlocks
        /\ GetStats(window[v]).missed = GetStats(window[v]).total
    BY DEF AllMissed
  <2>2. items # <<>>
    <3>1. SUFFICES ASSUME items = <<>> PROVE FALSE
      OBVIOUS
    <3>2. GetStats(window[v]).total = 0
      BY <3>1 DEF GetStats
    <3>3. QED BY <1>1, <2>1, <3>2
  <2>3. n >= MinBlocks /\ window[v].missed = n
    BY <2>1, <2>2 DEF GetStats
  <2>4. MissedIn(items) = n
    BY <2>3 DEF IInv, WindowInv, MissedCounterExact
  <2> HIDE DEF items
  <2>5. QED BY <1>1, <2>3, <2>4, MissedInType
<1>3. ASSUME NEW i \in 1..n PROVE items[i].height \in D
  <2>1. items[i] \in recorded[v]
    BY <1>1 DEF IInv, WindowInv, ItemsRecorded
  <2> DEFINE r == items[i]
  <2> HIDE DEF r
  <2>2. r.signed = Participated(v, r.height) /\ ~ r.signed
    BY <1>2, <2>1 DEF IInv, FlowInv, HeightsProduced, r
  <2>3. v \notin signers[r.height]
    BY <2>2 DEF Participated
  <2>4. r.height \in HeightsRecorded[v]
    BY <2>1 DEF HeightsRecorded, r
  <2>5. QED BY <2>3, <2>4 DEF Watch!Missed, r
<1>4. D \in SUBSET Heights /\ IsFiniteSet(D) /\ Cardinality(D) \in Nat
  <2>1. \A r \in recorded[v] : r.height \in Heights
    <3>1. \A r \in recorded[v] : r.height \in 1..head
      BY DEF IInv, FlowInv, HeightsProduced
    <3>2. head \in 0..MaxHeight
      BY DEF IInv, FlowInv, TypeOK
    <3>3. QED BY <3>1, <3>2, PipelineAssumption DEF Heights
  <2>2. D \in SUBSET Heights
    BY <2>1 DEF Watch!Missed, HeightsRecorded
  <2>3. IsFiniteSet(Heights)
    BY PipelineAssumption, FS_Interval DEF Heights
  <2> HIDE DEF D
  <2>4. QED BY <2>2, <2>3, NoMore
<1>5. ASSUME NEW d \in D
      PROVE  /\ IsFiniteSet({i \in 1..n : f[i] = d})
             /\ Cardinality({i \in 1..n : f[i] = d}) <= cleanups + 1
  <2>1. Within(v, d)
    BY <1>4, <1>5 DEF IInv, CarriedOnce
  <2>2. {i \in 1..n : f[i] = d} = Counted(v, d)
    BY <1>1 DEF Counted
  <2>3. Cardinality(Counted(v, d)) <= Load(v, d) /\ Load(v, d) \in Nat
        /\ Cardinality(Counted(v, d)) \in Nat
    BY <2>1, LoadType DEF Within, Load
  <2>4. Cardinality(Counted(v, d)) <= cleanups + 1
    BY <1>1, <2>1, <2>3 DEF Within
  <2>5. QED BY <2>1, <2>2, <2>4 DEF Within, AllFinite
<1>6. f \in [1..n -> D]
  BY <1>3
<1> HIDE DEF items, n, D, f
<1>7. n <= Cardinality(D) * (cleanups + 1)
  BY <1>1, <1>4, <1>5, <1>6, Spread
<1>8. Cardinality(D) * (cleanups + 1) \in Int
  BY <1>1, <1>4
<1>9. Cardinality(D) * (cleanups + 1) >= MinBlocks
  BY <1>1, <1>2, <1>7, <1>8
<1>10. QED BY <1>9 DEF D

LEMMA WatchInit == Init => Watch!Init
<1> SUFFICES ASSUME Init PROVE Watch!Init
  OBVIOUS
<1>1. HeightsRecorded = [v \in Validators |-> {}]
  BY DEF Init, HeightsRecorded
<1>2. QED BY <1>1 DEF Init, Watch!Init, Heights

(* A window that is written makes its block known. *)
LEMMA WatchLearns ==
    ASSUME FlowInv, NEW w \in Workers, AddToWindow(w)
    PROVE  Watch!Next
<1>1. PICK v \in job[w].todo :
        recorded' = [recorded EXCEPT ![v] =
            @ \cup {[ts |-> job[w].ts, signed |-> Participated(v, job[w].height),
                     height |-> job[w].height]}]
  BY DEF AddToWindow
<1> DEFINE h == job[w].height
           x == [ts |-> job[w].ts, signed |-> Participated(v, job[w].height),
                 height |-> job[w].height]
<1>2. v \in Validators /\ h \in 1..head
  BY PipelineAssumption DEF AddToWindow, FlowInv, TypeOK, HeightsProduced, JobShape, Job
<1>3. x.height = h /\ recorded' = [recorded EXCEPT ![v] = recorded[v] \cup {x}]
  BY <1>1
<1> HIDE DEF h, x
<1>4. /\ {r.height : r \in recorded'[v]} = {r.height : r \in recorded[v]} \cup {h}
      /\ \A u \in Validators \ {v} : recorded'[u] = recorded[u]
  BY <1>2, <1>3 DEF FlowInv, TypeOK
<1>5. HeightsRecorded' = [HeightsRecorded EXCEPT ![v] = HeightsRecorded[v] \cup {h}]
  BY <1>2, <1>4 DEF HeightsRecorded
<1>6. UNCHANGED <<head, signers, down, cleanups>>
  BY DEF AddToWindow, outsideJob, chainVars, listenerVars
<1>7. Watch!Learn(v)
  BY <1>2, <1>5, <1>6 DEF Watch!Learn
<1>8. QED BY <1>2, <1>7 DEF Watch!Next

(* The section under the validator's lock judges by what is known.         *)
LEMMA WatchJudges ==
    ASSUME IInv, NEW w \in Workers, UpdateDown(w)
    PROVE  Watch!Next \/ UNCHANGED Watch!vars
<1> DEFINE h == job[w].height
<1>1. PICK v \in job[w].adding : down' = [down EXCEPT ![v] = DownAfter(v, Participated(v, h))]
  BY DEF UpdateDown
<1>2. v \in Validators /\ down \in [Validators -> BOOLEAN]
  BY DEF IInv, FlowInv, TypeOK, Job
<1>3. UNCHANGED <<head, signers, recorded, cleanups>>
  BY DEF UpdateDown, outsideJob, chainVars, listenerVars, historyVars
<1>4. UNCHANGED HeightsRecorded
  BY <1>3 DEF HeightsRecorded
<1>5. CASE Participated(v, h)
  <2>1. PICK r \in recorded[v] : r.height = h
    BY <1>2 DEF IInv, WindowInv, AddingRecorded
  <2>2. h \in HeightsRecorded[v] /\ v \in signers[h]
    BY <1>2, <1>5, <2>1 DEF HeightsRecorded, Participated
  <2>3. down' = [down EXCEPT ![v] = FALSE]
    BY <1>1, <1>5 DEF DownAfter
  <2>4. Watch!BringUp(v)
    BY <1>3, <1>4, <2>2, <2>3 DEF Watch!BringUp
  <2>5. QED BY <1>2, <2>4 DEF Watch!Next
<1>6. CASE ~ Participated(v, h) /\ AllMissed(v)
  <2>1. down' = [down EXCEPT ![v] = TRUE]
    BY <1>1, <1>6 DEF DownAfter
  <2>2. Cardinality(Watch!Missed(v)) * (cleanups + 1) >= MinBlocks
    BY <1>2, <1>6, Evidence
  <2>3. Watch!BringDown(v)
    <3>1. Watch!Cardinality(Watch!Missed(v)) = Cardinality(Watch!Missed(v))
      BY Zenon DEF Cardinality, Watch!Cardinality
    <3>2. QED BY <1>3, <1>4, <2>1, <2>2, <3>1 DEF Watch!BringDown
  <2>4. QED BY <1>2, <2>3 DEF Watch!Next
<1>7. CASE ~ Participated(v, h) /\ ~ AllMissed(v)
  <2>1. down' = [down EXCEPT ![v] = down[v]]
    BY <1>1, <1>2, <1>7 DEF DownAfter
  <2>2. down' = down
    BY <1>2, <2>1
  <2>3. QED BY <1>3, <1>4, <2>2 DEF Watch!vars
<1>8. QED BY <1>5, <1>6, <1>7

LEMMA WatchStep ==
    ASSUME IInv, [Next]_vars
    PROVE  [Watch!Next]_(Watch!vars)
<1>1. CASE ProduceBlock
  <2>1. UNCHANGED HeightsRecorded
    BY <1>1 DEF ProduceBlock, historyVars, HeightsRecorded
  <2>2. Watch!Produce
    BY <1>1, <2>1 DEF ProduceBlock, Watch!Produce, validatorVars, listenerVars
  <2>3. QED BY <2>2 DEF Watch!Next
<1>2. CASE CleanupSeenBlocks
  <2>1. UNCHANGED HeightsRecorded
    BY <1>2 DEF CleanupSeenBlocks, outsideListener, historyVars, HeightsRecorded
  <2>2. Watch!Forget
    BY <1>2, <2>1 DEF CleanupSeenBlocks, Watch!Forget, outsideListener, chainVars, validatorVars
  <2>3. QED BY <2>2 DEF Watch!Next
<1>3. ASSUME UNCHANGED <<head, signers, recorded, down, cleanups>>
      PROVE  UNCHANGED Watch!vars
  <2>1. UNCHANGED HeightsRecorded
    BY <1>3 DEF HeightsRecorded
  <2>2. QED BY <1>3, <2>1 DEF Watch!vars
<1>4. CASE Cancel \/ StopLoop \/ UNCHANGED vars
  BY <1>3, <1>4 DEF Cancel, StopLoop, vars, chainVars, listenerVars, validatorVars, historyVars
<1>5. ASSUME NEW n \in Nodes, ListenerStep(n) PROVE UNCHANGED Watch!vars
  BY <1>3, <1>5 DEF ListenerStep, Subscribe, SubscriptionError, Receive, SendBlock, StopListener,
                    outsideListener, chainVars, validatorVars, historyVars
<1>6. ASSUME NEW w \in Workers, TakeBlock(w) PROVE UNCHANGED Watch!vars
  BY <1>3, <1>6 DEF TakeBlock, chainVars, listenerVars, validatorVars, historyVars
<1>7. ASSUME NEW w \in Workers, WorkerStep(w) PROVE Watch!Next \/ UNCHANGED Watch!vars
  <2>1. CASE AddToWindow(w)
    BY <2>1, WatchLearns DEF IInv
  <2>2. CASE UpdateDown(w)
    BY <2>2, WatchJudges
  <2>3. CASE NoProofNode(w) \/ GetBlockTime(w) \/ ProofFailed(w) \/ ProofFetched(w)
             \/ FinishBlock(w)
    BY <1>3, <2>3 DEF NoProofNode, GetBlockTime, ProofFailed, ProofFetched, FinishBlock, Return,
                      outsideJob, chainVars, listenerVars, validatorVars, historyVars
  <2>4. QED BY <1>7, <2>1, <2>2, <2>3 DEF WorkerStep
<1>8. QED BY <1>1, <1>2, <1>4, <1>5, <1>6, <1>7 DEF Next

(* For any nodes, validators, goroutines and bounds, a validator is        *)
(* brought down on the evidence of enough different missed blocks only,    *)
(* and up on that of a signed one.                                         *)
THEOREM WatchKept == Spec => KeepsWatch
<1>1. Init => Watch!Init
  BY WatchInit
<1>2. IInv /\ [Next]_vars => [Watch!Next]_(Watch!vars)
  BY WatchStep
<1>3. QED BY <1>1, <1>2, Invariance, PTL DEF Spec, KeepsWatch, Watch!Spec
=============================================================================
