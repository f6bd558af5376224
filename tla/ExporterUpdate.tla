--------------------------- MODULE ExporterUpdate ---------------------------
(***************************************************************************)
(* How the Prometheus gauges follow the validators                         *)
(* (internal/metrics/exporter.go). Block goroutines call Update, which     *)
(* coalesces requests through the flag pendingUpdate and a channel of      *)
(* capacity one; one worker goroutine serves the channel; HTTP scrapes     *)
(* call UpdateNow. The two kinds of update exclude each other by updateMu. *)
(*                                                                         *)
(* What the registry holds is abstracted to a version that every processed *)
(* block increases. An update reads the validators and then sets the       *)
(* gauges; it is taken to publish the version that it found when it        *)
(* started to read, the oldest it can have seen.                           *)
(***************************************************************************)
EXTENDS Naturals

CONSTANTS
    Callers,    \* block goroutines, which call Update
    Scrapers,   \* HTTP handlers, which call UpdateNow
    Worker,     \* the goroutine started by Start
    MaxVersion  \* bound: the blocks processed

Updaters == Scrapers \cup {Worker}

ASSUME ExporterAssumption == Worker \notin Scrapers /\ MaxVersion \in Nat

VARIABLES
    version,   \* what the registry holds
    exported,  \* what the gauges show
    pending,   \* pendingUpdate
    token,     \* updateCh holds an element
    cancelled, \* the context is cancelled
    closing,   \* the channel closing is closed
    caller,    \* where each block goroutine is
    updater,   \* where the worker and each handler are
    locked,    \* the holder of updateMu, if any
    snapshot   \* what each updater has read

vars == <<version, exported, pending, token, cancelled, closing, caller, updater,
          locked, snapshot>>

Init ==
    /\ version = 0
    /\ exported = 0
    /\ pending = FALSE
    /\ token = FALSE
    /\ cancelled = FALSE
    /\ closing = FALSE
    /\ caller = [c \in Callers |-> "idle"]
    /\ updater = [u \in Updaters |-> "idle"]
    /\ locked = {}
    /\ snapshot = [u \in Updaters |-> 0]

-----------------------------------------------------------------------------
(* A block goroutine *)

(* The goroutine has written what its block says and calls Update. *)
WriteState(c) ==
    /\ caller[c] = "idle"
    /\ version < MaxVersion
    /\ version' = version + 1
    /\ caller' = [caller EXCEPT ![c] = "swap"]
    /\ UNCHANGED <<exported, pending, token, cancelled, closing, updater, locked, snapshot>>

(* Mutation: the flag is loaded and stored, not swapped, so two callers    *)
(* can both find it unset; the second one finds the channel full.          *)
LoadAndStorePending(c) ==
    /\ caller[c] = "swap"
    /\ pending' = TRUE
    /\ \E seen \in {pending, FALSE} :
          caller' = [caller EXCEPT ![c] = IF seen THEN "idle" ELSE "send"]
    /\ UNCHANGED <<version, exported, token, cancelled, closing, updater, locked, snapshot>>

(* CompareAndSwap(pendingUpdate, 0, 1): a request that is pending already  *)
(* covers this one.                                                        *)
SwapPending(c) ==
    /\ caller[c] = "swap"
    /\ pending' = TRUE
    /\ caller' = [caller EXCEPT ![c] = IF pending THEN "idle" ELSE "send"]
    /\ UNCHANGED <<version, exported, token, cancelled, closing, updater, locked, snapshot>>

(* The select of Update: a send, or its default case when the channel is   *)
(* full, which clears the flag and drops the request. NeverFull shows that *)
(* the default case is never taken.                                        *)
ChannelFull(c) == caller[c] = "send" /\ token

SendToken(c) ==
    /\ caller[c] = "send"
    /\ IF ChannelFull(c)
       THEN ~ closing /\ pending' = FALSE /\ UNCHANGED token
       ELSE token' = TRUE /\ UNCHANGED pending
    /\ caller' = [caller EXCEPT ![c] = "idle"]
    /\ UNCHANGED <<version, exported, cancelled, closing, updater, locked, snapshot>>

GiveUpSend(c) ==
    /\ caller[c] = "send"
    /\ closing
    /\ caller' = [caller EXCEPT ![c] = "idle"]
    /\ UNCHANGED <<version, exported, pending, token, cancelled, closing, updater, locked,
                   snapshot>>

-----------------------------------------------------------------------------
(* The worker *)

Cancel ==
    /\ ~ cancelled
    /\ cancelled' = TRUE
    /\ UNCHANGED <<version, exported, pending, token, closing, caller, updater, locked,
                   snapshot>>

StopWorker ==
    /\ cancelled
    /\ updater[Worker] = "idle"
    /\ closing' = TRUE
    /\ updater' = [updater EXCEPT ![Worker] = "stopped"]
    /\ UNCHANGED <<version, exported, pending, token, cancelled, caller, locked, snapshot>>

ReceiveToken ==
    /\ updater[Worker] = "idle"
    /\ token
    /\ token' = FALSE
    /\ updater' = [updater EXCEPT ![Worker] = "clear"]
    /\ UNCHANGED <<version, exported, pending, cancelled, closing, caller, locked, snapshot>>

(* Mutation: the worker does not clear the flag. *)
KeepPending ==
    /\ updater[Worker] = "clear"
    /\ updater' = [updater EXCEPT ![Worker] = "lock"]
    /\ UNCHANGED <<version, exported, pending, token, cancelled, closing, caller, locked,
                   snapshot>>

(* The flag is cleared before the state is read, so that a block processed *)
(* during the update asks for another one.                                 *)
ClearPending ==
    /\ updater[Worker] = "clear"
    /\ pending' = FALSE
    /\ updater' = [updater EXCEPT ![Worker] = "lock"]
    /\ UNCHANGED <<version, exported, token, cancelled, closing, caller, locked, snapshot>>

-----------------------------------------------------------------------------
(* An update, by the worker or by a handler *)

ScrapeRequest(u) ==
    /\ u \in Scrapers
    /\ updater[u] = "idle"
    /\ updater' = [updater EXCEPT ![u] = "lock"]
    /\ UNCHANGED <<version, exported, pending, token, cancelled, closing, caller, locked,
                   snapshot>>

(* Mutation: the handler's update does not take updateMu. *)
MayAlwaysLock == locked \subseteq Updaters

MayLock == locked = {}

LockUpdate(u) ==
    /\ updater[u] = "lock"
    /\ MayLock
    /\ locked' = locked \cup {u}
    /\ updater' = [updater EXCEPT ![u] = "read"]
    /\ UNCHANGED <<version, exported, pending, token, cancelled, closing, caller, snapshot>>

(* Mutation: a block that is still being processed is counted as read. *)
ReadStateAhead(u) ==
    /\ updater[u] = "read"
    /\ snapshot' = [snapshot EXCEPT ![u] = version + 1]
    /\ updater' = [updater EXCEPT ![u] = "set"]
    /\ UNCHANGED <<version, exported, pending, token, cancelled, closing, caller, locked>>

ReadState(u) ==
    /\ updater[u] = "read"
    /\ snapshot' = [snapshot EXCEPT ![u] = version]
    /\ updater' = [updater EXCEPT ![u] = "set"]
    /\ UNCHANGED <<version, exported, pending, token, cancelled, closing, caller, locked>>

(* The gauges are set and updateMu is released. *)
SetGauges(u) ==
    /\ updater[u] = "set"
    /\ exported' = snapshot[u]
    /\ locked' = locked \ {u}
    /\ updater' = [updater EXCEPT ![u] = "idle"]
    /\ UNCHANGED <<version, pending, token, cancelled, closing, caller, snapshot>>

-----------------------------------------------------------------------------
CallerStep(c) ==
    \/ SwapPending(c)
    \/ SendToken(c)
    \/ GiveUpSend(c)

UpdateStep(u) == LockUpdate(u) \/ ReadState(u) \/ SetGauges(u)

WorkerStep == ReceiveToken \/ ClearPending \/ UpdateStep(Worker)

Next ==
    \/ \E c \in Callers : WriteState(c) \/ CallerStep(c)
    \/ Cancel
    \/ StopWorker
    \/ WorkerStep
    \/ \E u \in Scrapers : ScrapeRequest(u) \/ UpdateStep(u)

Spec == Init /\ [][Next]_vars

(* The first call of an update, GetValidators, waits for the registry's    *)
(* lock while a reload holds it, and no timeout bounds a reload's calls.   *)
Reading(u) == updater[u] = "read"

(* Goroutines that can run do run, but for those waiting for a reload. The *)
(* mutex is granted to a goroutine that asks for it again and again (Go's  *)
(* mutexes do not starve a waiter), hence the strong fairness of its lock. *)
Fairness ==
    /\ \A c \in Callers : WF_vars(CallerStep(c))
    /\ WF_vars(~ Reading(Worker) /\ WorkerStep)
    /\ SF_vars(LockUpdate(Worker))
    /\ \A u \in Scrapers : WF_vars(~ Reading(u) /\ UpdateStep(u))

FairSpec == Spec /\ Fairness

-----------------------------------------------------------------------------
(* Properties *)

(* Type correctness. *)
TypeOK ==
    /\ version \in 0..MaxVersion
    /\ exported \in 0..MaxVersion
    /\ pending \in BOOLEAN
    /\ token \in BOOLEAN
    /\ cancelled \in BOOLEAN
    /\ closing \in BOOLEAN
    /\ caller \in [Callers -> {"idle", "swap", "send"}]
    /\ updater \in [Updaters -> {"idle", "clear", "lock", "read", "set", "stopped"}]
    /\ locked \in SUBSET Updaters
    /\ snapshot \in [Updaters -> 0..MaxVersion]

(* Update never blocks a block goroutine and never finds the channel full: *)
(* the flag admits one request at a time, from the swap to the moment the  *)
(* worker has taken it.                                                    *)
NeverFull == \A c \in Callers : ~ ChannelFull(c)

(* As long as the gauges are behind the registry, some step that will      *)
(* bring them up to date is under way: a coalesced request is never lost,  *)
(* though its caller has returned and relies on another one's.             *)
UpdateOwed ==
    version > exported =>
        \/ closing
        \/ token
        \/ \E c \in Callers : caller[c] \in {"swap", "send"}
        \/ updater[Worker] \in {"clear", "lock", "read"}
        \/ \E u \in Updaters : updater[u] = "set" /\ snapshot[u] = version

(* The gauges never return to an older state, whoever updates them. *)
GaugesNeverGoBack == [][exported' >= exported]_vars

(* Every processed block is shown by the gauges in the end, unless the     *)
(* monitor shuts down or an update waits for ever for a reload to give the *)
(* registry back.                                                          *)
EventuallyExported ==
    \A k \in 1..MaxVersion :
        (version >= k) ~> \/ exported >= k
                         \/ cancelled
                         \/ \E u \in Updaters : []Reading(u)
=============================================================================
