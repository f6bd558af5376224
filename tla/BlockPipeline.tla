---------------------------- MODULE BlockPipeline ----------------------------
(***************************************************************************)
(* How a block becomes a validator's state: one listener goroutine per     *)
(* node receives new heads, removes duplicates and sends each height to a  *)
(* bounded channel (internal/ws/listener.go); the processor starts one     *)
(* goroutine per header, which fetches the block's time and its proof and  *)
(* records the participation of every validator                            *)
(* (internal/processor/processor.go).                                      *)
(*                                                                         *)
(* Time is counted in blocks: block h carries timestamp h, and the wall    *)
(* clock reads `head', the number of blocks produced so far. The chain and *)
(* the nodes are the environment: any validator may sign or miss a block,  *)
(* a node may skip, repeat and reorder headers and lose its subscription,  *)
(* and a request may fail at any attempt.                                  *)
(***************************************************************************)
EXTENDS RollingWindow

CONSTANTS
    Nodes,      \* the nodes with a websocket URL
    Validators, \* the validators of the registry
    Workers,    \* bound: the block goroutines alive at one time
    MaxHeight,  \* bound: the blocks produced
    ChanCap,    \* capacity of blockCh
    SeenLimit,  \* the size beyond which the cleanup resets seenBlocks
    MaxCleanups,\* bound: the resets of seenBlocks
    Duration,   \* advanced.window
    MinBlocks   \* minBlocksForDownAlert

ASSUME PipelineAssumption ==
    /\ MaxHeight \in Nat
    /\ ChanCap \in Nat \ {0}
    /\ SeenLimit \in Nat
    /\ MaxCleanups \in Nat
    /\ Duration \in Nat \ {0}
    /\ MinBlocks \in Nat \ {0}

VARIABLES
    head,       \* height of the newest block of the chain
    signers,    \* the validators that signed each block
    cancelled,  \* the context of main is cancelled
    nodeHeight, \* the height last announced by each node
    listener,   \* where each listener goroutine is
    holding,    \* the height a listener has marked and is sending
    seen,       \* seenBlocks
    cleanups,   \* number of resets of seenBlocks
    blockCh,    \* the channel between listeners and processor
    looping,    \* the processor's receive loop runs
    job,        \* the block goroutines
    window,     \* Window of each validator
    down,       \* Down of each validator
    lastHeight, \* LastHeight of each validator
    recorded,   \* history: every item ever given to Add
    settled     \* history: the heights whose goroutine has returned

chainVars     == <<head, signers>>
listenerVars  == <<nodeHeight, listener, holding, seen, cleanups>>
validatorVars == <<window, down, lastHeight>>
historyVars   == <<recorded, settled>>
vars == <<chainVars, cancelled, listenerVars, blockCh, looping, job,
          validatorVars, historyVars>>

Heights == 1..MaxHeight

(* A block goroutine: `todo' are the validators still to update, `adding'  *)
(* is empty or holds the one whose window is written and whose Down is not.*)
Idle == [pc |-> "idle", height |-> 0, ts |-> 0, todo |-> {}, adding |-> {}]

Started(h) == [pc |-> "time", height |-> h, ts |-> 0, todo |-> {}, adding |-> {}]

Job == [pc : {"idle", "time", "proof", "update"}, height : 0..MaxHeight,
        ts : 0..MaxHeight, todo : SUBSET Validators, adding : SUBSET Validators]

Init ==
    /\ head = 0
    /\ signers = [h \in Heights |-> {}]
    /\ cancelled = FALSE
    /\ nodeHeight = [n \in Nodes |-> 0]
    /\ listener = [n \in Nodes |-> "dial"]
    /\ holding = [n \in Nodes |-> 0]
    /\ seen = {}
    /\ cleanups = 0
    /\ blockCh = <<>>
    /\ looping = TRUE
    /\ job = [w \in Workers |-> Idle]
    /\ window = [v \in Validators |-> NewWindow(Duration)]
    /\ down = [v \in Validators |-> FALSE]
    /\ lastHeight = [v \in Validators |-> 0]
    /\ recorded = [v \in Validators |-> {}]
    /\ settled = {}

-----------------------------------------------------------------------------
(* The chain, and main's shutdown *)

ProduceBlock ==
    /\ head < MaxHeight
    /\ head' = head + 1
    /\ \E S \in SUBSET Validators : signers' = [signers EXCEPT ![head + 1] = S]
    /\ UNCHANGED <<cancelled, listenerVars, blockCh, looping, job, validatorVars,
                   historyVars>>

Cancel ==
    /\ ~ cancelled
    /\ cancelled' = TRUE
    /\ UNCHANGED <<chainVars, listenerVars, blockCh, looping, job, validatorVars,
                   historyVars>>

-----------------------------------------------------------------------------
(* The listener goroutine of node n *)

outsideListener == <<chainVars, cancelled, looping, job, validatorVars, historyVars>>

(* DialContext and SubscribeNewHead both succeed; a failure of either only *)
(* waits and tries again.                                                  *)
Subscribe(n) ==
    /\ listener[n] = "dial"
    /\ ~ cancelled
    /\ listener' = [listener EXCEPT ![n] = "receive"]
    /\ UNCHANGED <<nodeHeight, holding, seen, blockCh, cleanups, outsideListener>>

SubscriptionError(n) ==
    /\ listener[n] = "receive"
    /\ listener' = [listener EXCEPT ![n] = "dial"]
    /\ UNCHANGED <<nodeHeight, holding, seen, blockCh, cleanups, outsideListener>>

UpdateHeight(n, h) ==
    nodeHeight' = [nodeHeight EXCEPT ![n] = IF h > @ THEN h ELSE @]

(* Mutation: the check and the mark are two critical sections, so a height *)
(* another listener has just marked is taken for new.                      *)
ReceiveUnchecked(n) ==
    /\ listener[n] = "receive"
    /\ \E h \in 1..head :
        /\ UpdateHeight(n, h)
        /\ seen' = seen \cup {h}
        /\ listener' = [listener EXCEPT ![n] = "send"]
        /\ holding' = [holding EXCEPT ![n] = h]
    /\ UNCHANGED <<blockCh, cleanups, outsideListener>>

(* A header arrives, maybe late or announced before: UpdateHeight, then    *)
(* the check and the mark of its height in one critical section. The send  *)
(* comes after the unlock.                                                 *)
Receive(n) ==
    /\ listener[n] = "receive"
    /\ \E h \in 1..head :
        /\ UpdateHeight(n, h)
        /\ IF h \in seen
           THEN UNCHANGED <<seen, listener, holding>>
           ELSE /\ seen' = seen \cup {h}
                /\ listener' = [listener EXCEPT ![n] = "send"]
                /\ holding' = [holding EXCEPT ![n] = h]
    /\ UNCHANGED <<blockCh, cleanups, outsideListener>>

(* Mutation: a send with a default case drops the header when it is full. *)
SendBlockOrDrop(n) ==
    /\ listener[n] = "send"
    /\ blockCh' = IF Len(blockCh) < ChanCap THEN Append(blockCh, holding[n])
                                            ELSE blockCh
    /\ listener' = [listener EXCEPT ![n] = "receive"]
    /\ holding' = [holding EXCEPT ![n] = 0]
    /\ UNCHANGED <<nodeHeight, seen, cleanups, outsideListener>>

(* The blocking send: it waits for room in the channel. *)
SendBlock(n) ==
    /\ listener[n] = "send"
    /\ Len(blockCh) < ChanCap
    /\ blockCh' = Append(blockCh, holding[n])
    /\ listener' = [listener EXCEPT ![n] = "receive"]
    /\ holding' = [holding EXCEPT ![n] = 0]
    /\ UNCHANGED <<nodeHeight, seen, cleanups, outsideListener>>

(* Every select of the goroutine has a ctx.Done case. A listener that is   *)
(* sending gives up its header.                                            *)
StopListener(n) ==
    /\ cancelled
    /\ listener[n] # "stopped"
    /\ listener' = [listener EXCEPT ![n] = "stopped"]
    /\ holding' = [holding EXCEPT ![n] = 0]
    /\ UNCHANGED <<nodeHeight, seen, blockCh, cleanups, outsideListener>>

(* cleanupSeenBlocks: a tick of its ticker finds the map too big. *)
CleanupSeenBlocks ==
    /\ Cardinality(seen) > SeenLimit
    /\ cleanups < MaxCleanups
    /\ cleanups' = cleanups + 1
    /\ seen' = {}
    /\ UNCHANGED <<nodeHeight, listener, holding, blockCh, outsideListener>>

-----------------------------------------------------------------------------
(* The processor's loop *)

TakeBlock(w) ==
    /\ looping
    /\ blockCh # <<>>
    /\ job[w].pc = "idle"
    /\ job' = [job EXCEPT ![w] = Started(Head(blockCh))]
    /\ blockCh' = Tail(blockCh)
    /\ UNCHANGED <<chainVars, cancelled, listenerVars, looping, validatorVars,
                   historyVars>>

StopLoop ==
    /\ cancelled
    /\ looping
    /\ looping' = FALSE
    /\ UNCHANGED <<chainVars, cancelled, listenerVars, blockCh, job,
                   validatorVars, historyVars>>

-----------------------------------------------------------------------------
(* processBlock, by goroutine w *)

outsideJob == <<chainVars, cancelled, listenerVars, blockCh, looping>>

(* The goroutine returns: its height will not be looked at again. *)
Return(w) ==
    /\ job' = [job EXCEPT ![w] = Idle]
    /\ settled' = settled \cup {job[w].height}
    /\ UNCHANGED <<validatorVars, recorded, outsideJob>>

(* ensureProofNode finds no healthy node, or one without a client. *)
NoProofNode(w) ==
    /\ job[w].pc = "time"
    /\ Return(w)

(* getBlockTimeAndUpdateMetrics: the block's own time when a node or the   *)
(* cache has it, else the wall clock at this moment.                       *)
GetBlockTime(w) ==
    /\ job[w].pc = "time"
    /\ \E ts \in {job[w].height, head} :
          job' = [job EXCEPT ![w].pc = "proof", ![w].ts = ts]
    /\ UNCHANGED <<validatorVars, historyVars, outsideJob>>

(* fetchBlockProofWithRetry gives up. *)
ProofFailed(w) ==
    /\ job[w].pc = "proof"
    /\ Return(w)

(* The proof arrives and updateValidatorsFromProof copies the registry. *)
ProofFetched(w) ==
    /\ job[w].pc = "proof"
    /\ job' = [job EXCEPT ![w].pc = "update", ![w].todo = Validators]
    /\ UNCHANGED <<validatorVars, historyVars, outsideJob>>

Participated(v, h) == v \in signers[h]

(* Window.Add for the next validator of the copy, under the window's lock  *)
(* and outside the validator's.                                            *)
AddToWindow(w) ==
    /\ job[w].pc = "update"
    /\ job[w].adding = {}
    /\ \E v \in job[w].todo :
        LET h  == job[w].height
            ts == job[w].ts
            s  == Participated(v, h)
        IN  /\ window' = [window EXCEPT ![v] = Add(@, s, ts, h)]
            /\ recorded' = [recorded EXCEPT ![v] =
                               @ \cup {[ts |-> ts, signed |-> s, height |-> h]}]
            /\ job' = [job EXCEPT ![w].adding = {v}, ![w].todo = @ \ {v}]
    /\ UNCHANGED <<down, lastHeight, settled, outsideJob>>

(* Mutation: an off-by-one lets one signed block pass for silence. *)
AlmostAllMissed(v) ==
    LET stats == GetStats(window[v])
    IN  stats.total >= MinBlocks /\ stats.missed + 1 >= stats.total

AllMissed(v) ==
    LET stats == GetStats(window[v])
    IN  stats.total >= MinBlocks /\ stats.missed = stats.total

(* A miss that fills the window brings a validator down, any participation *)
(* brings it up, whatever the heights.                                     *)
DownAfter(v, participated) ==
    IF participated THEN FALSE ELSE down[v] \/ AllMissed(v)

(* Mutation: the height of the last processed block replaces the newest. *)
LastHeightOverwritten(v, participated, h) ==
    IF participated THEN h ELSE lastHeight[v]

(* Mutation: LastHeight as the next height expected. *)
NextHeightAfter(v, participated, h) ==
    IF participated THEN h + 1 ELSE lastHeight[v]

LastHeightAfter(v, participated, h) ==
    IF participated /\ h > lastHeight[v] THEN h ELSE lastHeight[v]

(* The section under val.Mu that follows the Add. *)
UpdateDown(w) ==
    /\ job[w].pc = "update"
    /\ \E v \in job[w].adding :
        LET h == job[w].height
        IN  /\ down' = [down EXCEPT ![v] = DownAfter(v, Participated(v, h))]
            /\ lastHeight' = [lastHeight EXCEPT ![v] =
                                 LastHeightAfter(v, Participated(v, h), h)]
    /\ job' = [job EXCEPT ![w].adding = {}]
    /\ UNCHANGED <<window, historyVars, outsideJob>>

FinishBlock(w) ==
    /\ job[w].pc = "update"
    /\ job[w].todo = {}
    /\ job[w].adding = {}
    /\ Return(w)

-----------------------------------------------------------------------------
ListenerStep(n) ==
    \/ Subscribe(n)
    \/ SubscriptionError(n)
    \/ Receive(n)
    \/ SendBlock(n)
    \/ StopListener(n)

WorkerStep(w) ==
    \/ NoProofNode(w)
    \/ GetBlockTime(w)
    \/ ProofFailed(w)
    \/ ProofFetched(w)
    \/ AddToWindow(w)
    \/ UpdateDown(w)
    \/ FinishBlock(w)

Next ==
    \/ ProduceBlock
    \/ Cancel
    \/ CleanupSeenBlocks
    \/ StopLoop
    \/ \E n \in Nodes : ListenerStep(n)
    \/ \E w \in Workers : TakeBlock(w) \/ WorkerStep(w)

Spec == Init /\ [][Next]_vars

(* Goroutine w is in a call that nothing ends before main does: the        *)
(* requests for the block's time and for the proof have no timeout, and    *)
(* GetValidators, before and after the block (BroadcastUpdate, Update) and *)
(* when the proof has arrived, waits for the registry's lock, which a      *)
(* reload holds over requests that have none either.                       *)
Waiting(w) ==
    \/ job[w].pc \in {"time", "proof"}
    \/ job[w].pc = "update" /\ job[w].todo = {} /\ job[w].adding = {}

(* Goroutines that can run do run: a send into a channel with room, the    *)
(* receive loop, and a block goroutine that updates validators. Nothing    *)
(* obliges a request to be answered, nor the chain, the nodes or main.     *)
Fairness ==
    /\ \A n \in Nodes : WF_vars(SendBlock(n))
    /\ WF_vars(\E w \in Workers : TakeBlock(w))
    /\ \A w \in Workers : WF_vars(~ Waiting(w) /\ WorkerStep(w))

FairSpec == Spec /\ Fairness

-----------------------------------------------------------------------------
(* Properties *)

(* Type correctness. *)
TypeOK ==
    /\ head \in 0..MaxHeight
    /\ signers \in [Heights -> SUBSET Validators]
    /\ cancelled \in BOOLEAN
    /\ nodeHeight \in [Nodes -> 0..MaxHeight]
    /\ listener \in [Nodes -> {"dial", "receive", "send", "stopped"}]
    /\ holding \in [Nodes -> 0..MaxHeight]
    /\ seen \in SUBSET Heights
    /\ cleanups \in 0..MaxCleanups
    /\ blockCh \in Seq(Heights)
    /\ looping \in BOOLEAN
    /\ job \in [Workers -> Job]
    /\ window \in [Validators -> Window]
    /\ down \in [Validators -> BOOLEAN]
    /\ lastHeight \in [Validators -> 0..MaxHeight]
    /\ recorded \in [Validators -> SUBSET Item]
    /\ settled \in SUBSET Heights

(* A goroutine has written block h into v's window and not yet v's state. *)
Adding(v, h) == \E w \in Workers : v \in job[w].adding /\ job[w].height = h

(* The missed counter, which Add only ever adjusts by differences, is the  *)
(* number of missed blocks in the window, whatever the interleaving of     *)
(* block goroutines and the order of their timestamps.                     *)
MissedCounterExact ==
    \A v \in Validators : window[v].missed = MissedIn(window[v].items)

(* Pruning by the timestamp of the block that happens to be added never    *)
(* loses a block that is still within the duration of the newest one       *)
(* recorded, in whatever order the goroutines get to Add.                  *)
NoLiveBlockLost ==
    \A v \in Validators : \A r \in recorded[v] :
        (\A q \in recorded[v] : r.ts > q.ts - Duration)
            => \E i \in DOMAIN window[v].items : window[v].items[i] = r

(* A validator is held down only while it has signed none of the recorded  *)
(* blocks of the last window: Add runs outside the validator's lock, so    *)
(* the goroutine that decides may see a window others have written since,  *)
(* and any signature it overlooks must still be on its way to bring the    *)
(* validator up.                                                           *)
DownMeansSilent ==
    \A v \in Validators : down[v] =>
        \A r \in recorded[v] :
            r.signed /\ (\A q \in recorded[v] : r.ts > q.ts - Duration)
                => \E h \in Heights : Participated(v, h) /\ Adding(v, h)

(* Between two updates of a validator its LastHeight is the highest block  *)
(* it has signed of those recorded, though blocks are recorded out of      *)
(* order.                                                                  *)
LastHeightIsNewest ==
    \A v \in Validators : (\A h \in Heights : ~ Adding(v, h)) =>
        LET signedHeights == {0} \cup {r.height : r \in {q \in recorded[v] : q.signed}}
        IN  /\ lastHeight[v] \in signedHeights
            /\ \A h \in signedHeights : h <= lastHeight[v]

(* However many nodes announce a height, a window counts it once, and once *)
(* more for each time that the cleanup has reset the map of seen heights.  *)
CountedOnce ==
    \A v \in Validators : \A h \in Heights :
        Cardinality({i \in DOMAIN window[v].items : window[v].items[i].height = h})
            <= cleanups + 1

(* Whatever height the dashboard has taken for its bitmaps (the nodes', or *)
(* the validators' when no node has one) and however many blocks have been *)
(* recorded since, the bitmap of a validator has each block of its window  *)
(* among the last n up to that height at its place, and says of no block   *)
(* that the validator signed it when it missed it, or the other way round. *)
BitmapTrue ==
    \A v \in Validators : \A base, n \in Heights :
        ShowsSigned(window[v], base, n, {h \in Heights : Participated(v, h)})

HeightsRecorded == [v \in Validators |-> {r.height : r \in recorded[v]}]

Watch == INSTANCE ValidatorWatch WITH known <- HeightsRecorded, resets <- cleanups

(* A validator goes down on the evidence of MinBlocks different blocks     *)
(* that it missed, or fewer only where resets of the map of seen heights   *)
(* let a block be counted again, and up on that of a block it signed; both *)
(* are recorded as the chain has them, whatever the order and the number   *)
(* of announcements, goroutines and failures.                              *)
KeepsWatch == Watch!Spec

(* Every height marked as seen is processed or given up, unless main shuts *)
(* down or the height's goroutine is in a call that never ends: a full     *)
(* channel delays a height and never drops it, and a goroutine that hangs  *)
(* holds up no height but its own. (The last case is of the model: there   *)
(* are no more than Workers goroutines, and all of them hang.)             *)
SeenIsSettled ==
    \A h \in Heights :
        (h \in seen) ~> \/ h \in settled
                        \/ cancelled
                        \/ \E w \in Workers : [](job[w].height = h /\ Waiting(w))
                        \/ \A w \in Workers : []Waiting(w)
=============================================================================
