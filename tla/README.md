# TLA+ models of Pharos Watchtower

Pharos Watchtower follows the blocks of a chain over several nodes, records for
every validator which blocks it signed, and publishes the result to a dashboard,
to Prometheus and to alert channels. It is one Go process with many goroutines.
This directory holds TLA+ modules of the parts in which those goroutines,
failures and restarts meet, TLC configurations that check them on small
instances, and TLAPS proofs for every value of the constants.

## The system

| part | state | operations | with whom |
|---|---|---|---|
| rolling window (`internal/window`) | duration, items, `missed` | `Add`, statistics and bitmap queries, `Export`, `Restore` | one per validator; written by block goroutines, read by all |
| websocket listener (`internal/ws`) | `seenBlocks` | one `subscribeNode` goroutine per node, `cleanupSeenBlocks` | sends headers to `blockCh` (capacity 100), calls `Node.UpdateHeight` |
| block processor (`internal/processor`) | block time cache | `Start` (one goroutine per header), `processBlock` | node manager for clients and scores, registry for validators, exporter and dashboard for updates |
| node manager (`internal/rpc`) | per node: clients, status, score ring | `checkNode` every 10 s, `GetBestNode`, `UpdateHeight`, `RecordProof...` | everyone reads nodes through pointers |
| validator registry (`internal/validators`) | map of validators, state file | `Start`, `Reload` every 5 min, `GetValidators`, `SaveState` | staking contract; hands out pointers |
| metrics exporter (`internal/metrics`) | gauges, `pendingUpdate`, `updateCh`, block interval and average | `Update`, `UpdateNow`, worker | called by block goroutines and HTTP handlers |
| alert manager (`internal/alerts`) | alert states, stall tracking, state file | `checkRules` every 30 s | reads registry and nodes, calls notifiers |
| dashboard (`internal/dashboard`) | clients, broadcast channel, log channel | `handleConnections`, `handleMessages`, `handleLogs`, REST handlers, `BroadcastUpdate` | reads everything; called by block goroutines |
| logger (`internal/logger`) | the dashboard's log channel | `log` | called by everyone, under whatever lock the caller holds |
| main (`cmd/monitor`) | the context | start, cancel, save | owns the order of start and shutdown |

What is hard in it:

- blocks finish out of order, and `Window.Add` runs outside the lock under which
  `Down` is decided;
- listeners of several nodes race for the same height, and the memory of heights
  already seen is thrown away from time to time;
- a bounded channel behind a mark that nobody will repeat;
- coalesced updates: a caller relies on a request of another goroutine;
- pointers to validators that outlive the map they came from;
- reloads that fail half-way, under a lock that is held over network calls;
- requests without a timeout, whose caller may hold a lock that others need;
- files written while goroutines go on, and crashes between any two steps;
- clients of nodes that a health check closes while goroutines use them, and
  scores that are given only when a fetch knows how it ends;
- a cache that goroutines miss, fetch and store in any order, with an eviction
  loop that counts upwards through heights;
- a mutex that is held while waiting for other locks, whose holders log to a
  channel whose reader waits for the mutex;
- notifications that go out one by one during a check of the alert rules, and
  the memory of them that is saved once, at its end.

`PROJECT.json` lists these hazards at their lines, with the properties that
would catch each going wrong.

## Modules

| module | models | properties |
|---|---|---|
| `RollingWindow` | `window.go`: a window as a value, its methods as operators | used by the others |
| `BlockPipeline` | listeners, channel, block goroutines, windows | `CountedOnce`, `MissedCounterExact`, `NoLiveBlockLost`, `DownMeansSilent`, `LastHeightIsNewest`, `BitmapTrue`, `KeepsWatch`, `SeenIsSettled` |
| `ValidatorWatch` | abstract: what brings a validator down and up | implemented by `BlockPipeline` |
| `ProofFetch` | the choice of nodes, retries and scores of a block goroutine, against health checks | `HealthyHasClient`, `ScoredOnce`, `KeepsHistory`, `FetchEnds`, `ClientSet` |
| `NodeHistory` | abstract: what a node's score remembers | implemented by `ProofFetch` |
| `BlockTimeCache` | block times: lookup, fetch, store, eviction, intervals | `KeepsNewest`, `TrueIntervals`, `LookupEnds` |
| `Dashboard` | pushes, connections, the two feeds, the shared list of nodes | `OneWriter`, `NothingMissed`, `PushEnds`, `ConnectionServed`, `NodesKept` |
| `ExporterUpdate` | `Update`, `UpdateNow`, the worker | `NeverFull`, `UpdateOwed`, `GaugesNeverGoBack`, `EventuallyExported` |
| `ValidatorRegistry` | start, reload, block goroutines, save, crashes | `CountersExact`, `FileNeverTorn`, `TrackedSelected`, `HistoryKept`, `ShutdownCompletes` |
| `AlertManager` | the alert rules, their state file, restarts | `NotificationsBalanced`, `FiresAfterDuration`, `StallIsReal`, `StatusAnnounced`, `StallAnnounced` |
| `*_proof` | theorems about the module of that name | |
| `MC*` | instances for TLC | |

### BlockPipeline and ValidatorWatch

Variables follow the code: `seen` is `seenBlocks`, `blockCh` the channel,
`listener[n]` the place of node n's goroutine (`"dial"`, `"receive"`, `"send"`,
`"stopped"`), `holding[n]` the header it has marked and is sending, `job[w]` a
block goroutine with the validators it has still to update, `window`, `down` and
`lastHeight` the fields of each `ValidatorState`. `Receive` is one critical
section of `l.mu`; `SendBlock` comes after the unlock. A block goroutine takes
its block's time (`GetBlockTime`: the block's own, or the wall clock when the
node does not have it), its proof (`ProofFetched`, or it gives up:
`NoProofNode`, `ProofFailed`), and then for each validator `AddToWindow` and
`UpdateDown`, two steps because the code's two locks are two. `recorded` and
`settled` are history variables. Time is counted in blocks: block h has
timestamp h and the wall clock reads the newest height, so out-of-order
timestamps arise both from late goroutines and from the fallback.

The choice of the proof node and the retries are abstracted to their outcomes,
which `ProofFetch` and `BlockTimeCache` have in detail. Nodes may skip, repeat
and reorder headers.

`CountedOnce` holds with resets of `seenBlocks`, too: a window has a height as
often as it was sent, which is once more at most for each reset.

`BitmapTrue` is about what the dashboard shows. A bitmap ends at the highest
height of any node or, when no node has one, as after a restart, of any
validator (`getWindowBaseHeight`, `server.go:608-632`); that height is read
before the windows are, so blocks may be recorded in between, and the last item
of a window may lie below it or beyond. Therefore the property is about every
height that a bitmap may end at: what falls into its range is at its place, and
signed is not shown as missed, nor missed as signed. Items beyond the end are not
shown, and the property says nothing of them. Windows are empty here at the
start; that a window is restored with exact counters is `ValidatorRegistry`'s
part, and what the bitmap shows of any window, a restored one too, is
`BitmapOfWindow` in `RollingWindow_proof`.

`SeenIsSettled` is about heights that are marked as seen and would not be sent
again. The requests for a block's time (`processor.go:197`) and for its proof
(`processor.go:335`) have no timeout, and the copies of the validators wait for a
reload; a goroutine in one of these calls (`Waiting`) may stay there for ever, and
its height with it. The property excepts that, for the goroutine of the height
itself: one that hangs must not keep other heights from being settled. As
the model has only `Workers` goroutines, the case that all of them hang is
excepted, too; the code starts a new one for every header.

`ValidatorWatch` is what all this is for, without listeners, channel, goroutines
and windows: blocks become known of a validator one at a time and as the chain
has them, the validator goes down when enough different known blocks are
missed (`BringDown`), and up when a known block is signed (`BringUp`). `Down` is
decided by counting the items of a window, and items may repeat a block after a
reset of `seenBlocks`; so the evidence is `MinBlocks` different blocks when there
was no reset, and may be fewer by the factor `resets + 1`. `KeepsWatch` says that
`BlockPipeline` implements it, with the heights of `recorded` as the known ones.

### ProofFetch and NodeHistory

`client[n]` says whether `RawRPC` and `RPC` are set, `healthy` and `height` are
the status, `check[n]` is `"probe"` while `checkNode` holds the node's lock over
its requests, and `ring[n]` is the score. `fetch[f]` is a block goroutine:
`"select"` and `"gather"` look at the nodes one by one, as `selectProofNode` and
`proofNodeCandidates` do, each look under the node's lock; `"await"` is
`ensureProofNode`'s wait, `"ask"` the requests for block times, `"call"` that
for the proof, `"reward"` and `"score"` the results given at the end. What the
code reads without the lock, the clients, is read in these steps as it is at
that moment. `CallNilClient` is the panic, which ends the process (`panicked`).

The order of candidates is by what was seen of each when it was looked at
(`Seen`): whether it was at the block's height, and its success rate, computed
from the ring. Candidates that are equal in both come in any order, as the score
that decides between them depends on latencies. `tried` and `given` are history
variables: the nodes that a fetch has called and how many results it has given to
each.

`ScoredOnce` distinguishes how a fetch returns. After a success or the last
attempt each node called has exactly one result. A fetch that finds no candidate
(`processor.go:321-330`) or whose context ends (354-356) leaves none, and the
failures it collected are lost. `FetchEnds` says that the retries end; it excepts
a fetch that waits for ever for the answer to one request (`Waiting`).

`NodeHistory` is the promise behind `NodeScore`: a sequence of the last `Size`
results. `KeepsHistory` says that `ProofFetch` implements it, with the ring read
from its oldest slot to its newest (`Recent`) as the refinement mapping.

### BlockTimeCache

`cache`, `cacheMin` are `blockTime` and `cacheMin`. A goroutine (`job[g]`) is
after the time of its own block, then that of the block before, then that of the
block `Lag` (100) before; each is a lookup under the lock, on a miss up to
`Attempts` requests without it (`BlockNotFound` leads to another one,
`FetchFails` gives up), and then `Store` takes the lock, and each iteration of the
eviction loop is a step of its own (`Evict`), until the times fit (`Stored`).
Nobody else gets the lock meanwhile (`Locked`), so `KeepsNewest` is about the
states in which somebody could look. A node that has lost its client gives no
time of another block (`NoClient`). `Elapsed` is the unsigned subtraction, modulo
`Word`. `interval` and `span` are what the exporter is told. All nodes tell the
same time of a block, and no block is older than those before it
(`TimesInOrder`, which chains guarantee).

### Dashboard

`mu` is the holder of the server's mutex, `registered` the clients map,
`waiting` and `logs` the number of payloads in the broadcast and of lines in the
log channel, `lock` the registry's lock and that of a node, `feed` the two
goroutines that write, `stage` the place of a push or of a connection's handler
in the building of payloads. A reload or a check takes its lock, holds it over
its requests (`"asking"`, until `RequestEnds`) and over the line it logs
(`"logging"`), and gives it back in `LogLine`: the line goes into a channel that
drops what does not fit. A check may pass without a line (`PassQuietly`). `nodes` is the slice that `GetNodes` returns; `CompareNodes`,
`SwapLoad`, `SwapStore1` and `SwapStore2` are the insertion sort that
`sort.Slice` does on short slices, with a swap as two reads and two writes, as
the build does it. `behind` counts payloads that left the channel and have not
yet been written to a client.

The REST handlers build the same payloads with the same reads and sorts, and
change nothing else: a push stands for them, too.

### ExporterUpdate

`caller[c]` is a block goroutine between the swap of `pendingUpdate` and the send
to `updateCh` (`token`); `updater[u]` is the worker or an HTTP handler inside
`updateMu`. The state that is exported is a version number which each block
increases, so "the gauges are up to date" is `exported = version`. An update
publishes the version it found when it began to read, and may wait in
`GetValidators` (`Reading`) for a reload to give the registry's lock back.

### ValidatorRegistry

The life of the process: `main` goes from `"down"` through `"starting"` and
`"running"` to `"stopping"`. `objects[v]` are the `ValidatorState` objects of v
in this life and `tracked` the keys of the map, which points to the last
object; a goroutine's copy of the map is a set of pointers `<<v, i>>`. A reload
holds the write lock (`WriteLocked`) from the answer of `GetActiveValidators` to
its end, one step for each `GetValidatorInfo`. A save takes the read lock and is
a step for each snapshot, for the write, the sync, the rename and the sync of
the directory, any of which may fail, and between any of which the process or
the machine may die. After a machine crash an unsynced file is torn and an
unsynced rename may be undone. Each start may find another configuration: the
file names the chain, the mode and the selection it was written under, and
`ShouldLoad` compares all three.

`HistoryKept` is about the pointers that goroutines hold: a validator that a
reload has still to ask for, or was answered about, keeps its object. One whose
own `GetValidatorInfo` fails is deleted by the code like one that the contract no
longer lists; blocks that a goroutine writes to its old object afterwards are
lost. That is among the deviations below, and no property condemns it.

### AlertManager

`alerts` and `nodeHeight` are the manager's two maps, `disk` the state file's
copy of the first. An alert is `"absent"` from the map, `"tracked"` (its
`TriggeredAt` runs) or `"fired"` (`LastEventAt` is set, too). The goroutine of
`Start` is `rule`, with the rules of the check that are `left` and the subjects
of the present rule in `todo`, in any order as they come out of Go maps; `snaps`
are the statuses that `checkRules` reads once for the stall rule. One step
checks one subject (`CheckSampled` for `validator_down`, `validator_uptime` and
`node_down`, whose functions have the same branches; `CheckStall` for
`node_stall`), with its notification; `Save` ends the check. Blocks, reloads,
health checks and headers change `val` and `node` between any two of these
steps. `Die` is main's return, one second after the cancellation and without
waiting for the goroutine, or a crash; `Start` loads the file, or nothing if it
cannot be read.

Time. The code compares times only with the `now` that a check reads at its
start. A recorded time is therefore kept as its age in ticks, and ages grow in
`BeginCheck(d)` only: d ticks have passed since the last check began, 0 when a
tick waited for a long check, more than 1 when the process was dead or a tick
was dropped. Ages stop at `FireAfter`, as no comparison reaches beyond. All
rules have the one `FireAfter` of the instance; their alerts share no state.

A notification is the attempt to send it: `Notify` returns nothing, and the code
goes on in the same way whether it fails or not. `Nodes` are those with
`alert_on_down`. The uptime of a window is one of three: no record, below the
threshold, or not. In the code the validators of a rule are objects copied at
its start, in the model they are looked up by key; the two agree as a validator
that a reload drops keeps its state, and `Reload` does not list it anew before
the rule is through.

History variables: `streak[k]` is what the checks of `k` have observed without a
break and since when; it ends when a check passes the validator over, because a
reload has dropped it (`PassedOver`). The code keeps what it knows of such a
validator; `gaps` are those that were bad then and have not been found well
since. `balance[k]` counts the firing notifications minus the resolved ones,
`open` are the keys whose firing notification stands, `losses` the restarts
that found other alerts than the dead process had, and `calm` of a node is the
time since its height moved or a check found it unfit.

`FiresAfterDuration` rests on them: a "down" notification goes out only when every
check of the last `FireAfter` has looked and found the subject down. The
exception, `gaps`, is what the code does: a validator that was down, was dropped
by a reload and listed again fires at the first check that finds it down, with
the time of the old outage. `StallIsReal` is about every change of a stall alert
to fired, also one that follows a silent `ResetStall`.

## Runs

Deadlock is checked for `AlertManager`: the manager can always begin a check,
stop, die or start again. It is not checked for the others, which really stop
(the chain's bound is reached, or main has exited).

| run | instance | shows |
|---|---|---|
| `pipeline` | 2 nodes, 2 goroutines, 3 blocks, channel of 1, window of 2, down after 2, no reset | counters, pruning, `Down`, `LastHeight` and the bitmap under reordering: three blocks are enough for an expired block behind a live one and for a window that fills with misses, two goroutines for every order of `Add` and `UpdateDown` |
| `settled` | 2 nodes, 1 goroutine, 2 blocks, one reset, down after 2 | over every interleaving of two listeners with the same and different heights no height is counted more often than a reset allows, and `ValidatorWatch` is implemented, before a reset (two different blocks are needed) and after one; every marked height is settled under fairness, though the channel and the goroutine are busy with another, unless the goroutine hangs |
| `exporter` | 2 callers, 1 scrape, 3 versions | no lost request, no full channel, no gauge going back, everything exported in the end unless an update waits for a reload for ever; two callers race on the flag, the third version arrives during an update |
| `registry` | 1 validator, 1 goroutine, 2 blocks, 2 starts, 2 objects, three configurations (all validators or two selections, on two chains), `GetValidatorInfo` may fail | the file is never torn, the counters survive save, crash and restore; only selected validators are tracked, and a reload keeps the object of one that it has still to ask for or has been answered about; under fairness a shutdown during a reload ends |
| `validators` | 1 validator, both validator rules, `FireAfter` 2, gaps of 0 to 2 ticks, 1 restart | firing and resolved notifications alternate but for a restart that lost something; nothing fires before its time, but for a validator that reloads dropped and listed again: with an age that can be 0, 1 or 2 each comparison is taken both ways, over a restart too; under fairness, and if reloads end, what stays down is announced, what stays up is not |
| `nodes` | 1 node, both node rules, heights to 2, `FireAfter` 2, no dropped tick, failing reads and writes, 1 restart | a stall is real when it fires, and under fairness a node that stays at a height is announced |
| `proofs` | 2 nodes, 3 fetches one after the other, 3 attempts each, ring of 2 | a fetch that comes to its end gives each called node one result, one that is given up none; the ring implements `NodeHistory` through its wrap, healthy nodes have clients, every fetch ends or waits for one request: two nodes and three attempts make one node fail, be retried and succeed |
| `blocktimes` | 2 goroutines, 5 blocks, cache of 2, lag 3, 2 attempts | the newest times are kept, intervals are true, lookups end or wait for one request; five blocks fill the cache twice, in any order, and leave gaps for the eviction loop to count over |
| `feeds` | 2 browsers, 1 push after another, channels of 2 and 1 | never two writers on a connection; a browser that stays gets all that leaves the channel when another one fails |
| `connections` | 1 browser, 1 push after another, channels of 1 | under fairness a push ends whatever browsers do, and a connection is served if writes end, unless a call of a reload is never answered |
| `nil_client` | 2 nodes, 1 fetch | violation: a goroutine calls the client that a check has set to nil |
| `node_lost` | 1 browser, 1 push, 2 nodes | violation: two sorts at once lose a node |

`SeenIsSettled` holds in an instance of 1 node and 2 goroutines as well, in which one
of them hangs and the other goes on; with 2 nodes there is 1 goroutine to keep
the run short.

The goroutines of `proofs` and of `registry` do not meet each other but in the
locks and in what they write for a node or a validator: one of them stands for
all, and the proofs about `ProofFetch` are for any number. Validators meet in
the registry's map and lock only, so one is enough, with a key that is not its
own among the selections.

Failing reads and writes of the alert file are in `nodes` and, for every instance,
in the proofs. One subject is enough for the alert rules: no branch of a rule
reads the state of another subject, and what subjects share, the save and the
restart, is in every instance. Two keys of one validator are in `validators`,
two of a node in `nodes`. A `FireAfter` of 1 would be too small: an age that a
check wrongly resets would reach it again by the next one.

Bounds are constants of the modules: `MaxHeight` (blocks), `Workers` (goroutines
alive at one time; the code has no limit), `MaxCleanups`, `MaxVersion`,
`MaxBoots`, `MaxObjects`, `Configs`, `Fetchers` and `MaxFetches` (block goroutines),
`Goroutines`, `Clients`, `Pushers`, `MaxGap` (ticks between two checks; 2 takes every age
past `FireAfter` in one), `MaxStops`. `ChanCap`, `LogCap`, `SeenLimit`,
`MinBlocks`, `Duration`, `Size`, `Attempts`, `TimeRequests`, `CacheSize` and `Lag`
are the code's constants and settings at small values.

### Fairness

Goroutines that can take a step take it: sends into a channel with room, the
receive loop, the exporter's worker, a save. Locks are handed to those who wait
for them, even if others take them again and again, as `sync.Mutex` and
`sync.RWMutex` see to it; where a step needs such a lock its fairness is strong.
Nothing obliges the chain, the nodes, the contract, a scrape or the signal to
happen.

A request is taken to end only where the code bounds it:

| bounded | by |
|---|---|
| the requests of `checkNode` | 5 s (`rpc/manager.go:229`) |
| requests for the time of other blocks (`getCachedBlockTime`) | 10 s (`processor.go:497`) |
| notifications | 5 s, the HTTP client's (`notifier.go`) |
| writes to a browser | the deadline of each write (`writeTimeout`); `PushEnds` does without it, `ConnectionServed` assumes it as `WritesEnd` |
| the calls of a reload after the signal | main cancels their context (`main.go:76-81`) |

The others run under main's context, which has no deadline, and a node may leave
them open for ever: the proof (`processor.go:335`), the time of the own block
(`processor.go:197`), and the calls of a reload, of which `GetValidatorInfo`
(`contract.go:160`) is made with the registry's lock held (`registry.go:114`).
No fairness covers them, nor what waits for them. So each liveness property says
what it excepts:

| property | excepts |
|---|---|
| `SeenIsSettled` | a height whose own goroutine is in such a call, or waits for a reload, for ever |
| `FetchEnds`, `LookupEnds` | a goroutine that waits for ever for one request |
| `EventuallyExported` | an update that waits for a reload for ever |
| `PushEnds`, `ConnectionServed` | a call of a reload that is never answered |
| `StatusAnnounced`, `StallAnnounced` | the same: they assume `ReloadsEnd` |
| `ShutdownCompletes` | nothing: a reload is taken to go on from the signal only |

What these properties do show is that nothing else stands in the way: no
other wait, no lock cycle, no lost wake-up and no loop without end.

The alert ticker fires again and again and a check runs to its end. That time
passes is strong fairness of a check that begins a tick or more after the last.

## Proofs

`RollingWindow_proof` proves what the operators of the window do for any
arguments: `MissedIn` over `Append` and over a cut of a sequence, that
`PruneCount` finds the prefix that the loop removes (`PruneCountProperties`, by
the well-foundedness of the naturals), and that `Add` keeps the counter exact
and removes nothing that is later than the cutoff (`AddProperties`).

`Highest` and `BitmapProperties` say that a bounded set has a
highest element and which heights a bitmap shows. `BitmapOfWindow` follows: if the
items of a window tell of each height whether it was signed, so does every bitmap
cut from it, whatever height it ends at and however long it is.

`BlockPipeline_proof` rests on them. Its inductive invariant has three parts.
`FlowInv` says that heights in flight have been produced and what a goroutine
looks like in each of its states. `WindowInv` says that durations do not change,
items are recorded, counters are exact, live blocks are present, a block being
added is recorded (`AddingRecorded`), and then, instead of `DownMeansSilent` and
`LastHeightIsNewest`, the stronger `DownMeansAllMissed` (every item of the
window of a validator that is down is a miss, or an update that will bring it
up is under way) and `LastHeightCovers`; neither property is inductive by
itself because each speaks of recorded blocks only, not of the window.
`CarriedOnce` is what makes `CountedOnce` inductive: it counts all the places
where a height is on its way to a window or in it (`Load`: listeners that send
it, the channel, goroutines that have not added it yet, items), which
are no more than the resets, and one more while the height is marked as seen.
Every step but the mark moves a height from one place to the next or gives it
up. `BitmapTrue` needs no more than `ItemsTrue`, that an item is signed when
the validator has signed that block, which is part of the invariant, and
`BitmapOfWindow`.

`WatchKept` is the refinement: `Spec => KeepsWatch`. The steps that map to an
action of `ValidatorWatch` are `ProduceBlock`, `CleanupSeenBlocks`, `AddToWindow`
and `UpdateDown`, all others to a stutter. Its core is `Evidence`: if all items
of a window are missed and they are `MinBlocks` or more, then, as none of their
heights is counted more than `cleanups + 1` times, there are enough different
ones. This is a pigeonhole argument (`Spread`), by numbering the items of each
height. The assumption used for all of this is `PipelineAssumption`.

`ExporterUpdate_proof`: the invariant adds to the type that `updateMu` excludes
(`MutexHeld`), that what was read is not older than what is shown
(`SnapshotFresh`), that at most one request lies between the swap and
`ClearPending` (`OneRequest`), and that a set flag is covered by one
(`FlagCovered`). From it follow `NeverFull`, `UpdateOwed` and
`GaugesNeverGoBack`, for any number of callers and handlers.

`AlertManager_proof`: `NotificationsBalanced` needs, to be inductive, that a dead
process leaves room for one more loss (`LossesCounted`) and that only subjects
of the present rule are in `todo` (`SubjectsFit`). For `FiresAfterDuration` the
invariant adds that what is tracked or announced has been found bad since then
by every check, without one that passed it over, unless it is in `gaps`
(`StreakCovers`), and for `StallIsReal` that a recorded height is
one the node has had and, while the node still has it, is not older than the
node's calm; a node whose snapshot is still to be looked at is the exception
(`TracksCalm`). So the two action properties and the invariant hold for any
validators, nodes, durations and gaps, with any number of restarts. The
assumption used is `AlertAssumption`.

`BlockTimeCache_proof`: to `KeepsNewest` and `TrueIntervals` the invariant adds
that the mark is at or below every key (`MarkBelow`), without which the loop could
pass by keys that it should take, and what the cache is like while the loop has
the lock (`OneTooMany`): one time too many, and every time that has gone before
is lower than all those left but perhaps the lowest, which may have come late.
`StoreInv` and `EvictInv` are the two steps that change the cache. The assumptions
used are `CacheAssumption` and `TimesInOrder`.

`ProofFetch_proof`: `ScoredOnce`, an action property, needs that in every state of a
fetch the nodes called are the failed ones, but for the one being rewarded, and
that it has given no result before its last place in the loop, and there one to
each that is not still to be recorded (`Accounted`). `GivenAtEnd` and
`ReturnsFromScore` then say what its steps give and with what it returns.
`HealthyHasClient` needs that a check under way has a client (`CheckHasClient`).
`RecordRemembers` is the arithmetic of the ring, for a ring with room
(`RoomLeft`) and a full one (`RingFull`), and from it `HistoryRefined` follows:
`Spec => KeepsHistory`, a step that gives a result maps to `NodeHistory`'s
`Record` and every other one to a stutter. All this for any number of nodes,
goroutines and attempts, and any size; the assumption used is
`FetchAssumption`.

`Dashboard_proof`: `OneWriter` rests on `MutexHeld`, that a feed in its round and
a handler between its lock and its unlock are the only holder of the mutex.
`NothingMissed` needs that a feed outside its round has nobody left to write to
(`RoundsEnd`) and that a client is owed nothing when it is registered
(`NothingOwed`); the type of the list needs that a swap is inside it
(`SwapsInside`), however many sorts run at once. All this for any number of
browsers, pushes and nodes and any buffers, with `DashboardAssumption`.

`ValidatorRegistry_proof`: every state of a validator, whether in memory, in a
snapshot or in a file, is in `Good`: its counter agrees with its items. That
makes `CountersExact` inductive over saves, crashes and restores; it needs that
goroutines hold pointers to objects that exist (`PointersLead`), and that only
the first stage of a save looks at validators (`SaveOK`). `FileNeverTorn` needs
`DiskOK`: the temporary file is complete from `SaveWrite` on and synced from
`SaveSync` on, so that what a rename brings under the name of the state file,
and what the loss of the rename brings back (`disk.undo`), has been synced.
`HistoryKept` needs `Exclusion`: nothing runs in a process that is down, so that a
reload that goes on belongs to this life, and the map is not saved while it is written.
All this for any validators, configurations, goroutines and number of restarts,
with `RegistryAssumption`.

All safety invariants and action properties that the passing runs check are
proved, the two refinements among them. Only model-checked are the liveness
properties, which are out of the prover's reach: `SeenIsSettled`,
`EventuallyExported`, `ShutdownCompletes`, `StatusAnnounced`, `StallAnnounced`,
`FetchEnds`, `LookupEnds`, `PushEnds` and `ConnectionServed`.

## Findings

- A health check that fails sets a node's clients to nil while block goroutines
  use them without the lock; the call on the nil client ends the monitor
  (`nil_client`).
- `buildNodeDTOs` sorts the node manager's own list in place without a lock; two
  sorts at once can lose a configured node for good (`node_lost`).

The models also contain, without a run of their own, these deviations from what
comments and documents say:

- a reset of `seenBlocks` lets a block that a slower node announces later be
  counted again (`listener.go:138-141`; `CountedOnce` allows one more per reset);
- `Add` leaves expired items behind a live head (`window.go:65`);
- a failed `GetValidatorInfo` deletes a validator that the contract lists, with
  its history (`registry.go:138`); a shutdown during a reload makes all its
  remaining calls fail, and the file that is saved then lacks those validators;
- `Restore` overwrites the duration just configured, so that a changed
  `advanced.window` has no effect on restored validators (`window.go:298`);
- a crash between a resolved notification and the save makes the restart believe
  the alert still open, and the next outage is not announced (`manager.go:136`
  of the alerts; `NotificationsBalanced` and `StatusAnnounced` except such losses);
- `resolve_after` is read and never used (`manager.go:151`, `254-257`);
- a stall alert of a node that has become unfit is deleted without a resolved
  notification (`manager.go:398`);
- a validator without any block counts as one with uptime 0 and fires
  (`manager.go:514`);
- nothing calls the alert manager's `SaveState` (`manager.go:142`);
- a validator that was down when a reload dropped it keeps its alert's time; if a
  later reload lists it again and it is down at the next check, it fires at once,
  although nobody looked in between (`manager.go:168-188`; `gaps` in
  `FiresAfterDuration`);
- failures of a proof fetch are "only recorded once per node when the retry loop
  ends", says the comment at `processor.go:308-310`; a fetch that ends without a
  candidate (321-330), or with its context (354-356), records none of those it
  has collected (`ScoredOnce`);
- `rpc_timeout`, 5 s in the example configuration, is parsed (`config.go:104`,
  `204`) and never applied. A node that accepts a request and never answers holds
  up the block goroutine that made it, or, through a reload's
  `GetValidatorInfo`, the registry's lock and with it the block goroutines, the
  handlers of new connections and the dashboard's mutex that they hold, the
  exporter and the alert rules, until the monitor is stopped (see Fairness).

## Not modelled

Formatting, logging, HTTP and HTML, the parsing of configurations, ABI packing.
Of the alert rules, `ws_down` is a placeholder and `validator_stall`, which the
example configuration sets, has no code. The alert state file names a chain that
`Load` does not look at.

The texts of payloads, the REST handlers' answers, and the start and stop of the
HTTP server; of the window's queries those that only the exporter makes. The
order of payloads: they carry no version, and an older one may be sent after a
newer one. Gauges of validators that a reload removed, which keep their last
values. `GetBestNode`, which is called for headers without a number only. The
latencies in a node's score.

## Plan

1. An abstract specification of the validators' state file, a register that is
   replaced at once or not at all, which `ValidatorRegistry` implements through
   its saves and crashes.
2. An abstract specification of the exporter, a cell that catches up with the
   latest version, which `ExporterUpdate` implements.
