----------------------------- MODULE ProofFetch -----------------------------
(***************************************************************************)
(* How a block goroutine gets its block's time and proof from the nodes    *)
(* (internal/processor/processor.go) while the node manager checks them    *)
(* (internal/rpc/manager.go). A check holds the node's lock over its       *)
(* requests and closes the client of a node that does not answer; the      *)
(* goroutines read a node's status and score under that lock, and its      *)
(* client without it. The results of the proof requests are kept in a ring *)
(* of each node, from which the next choice of a node is made.             *)
(*                                                                         *)
(* A fetch looks at the nodes one by one, and orders them by the height and*)
(* the success rate that it saw of each; equal ones come in any order, as  *)
(* the score that decides between them is a matter of latencies. A node's  *)
(* status and its success rate, which the code reads under its lock one    *)
(* after the other, are seen in one step.                                  *)
(***************************************************************************)
EXTENDS Integers, Sequences, FiniteSets

CONSTANTS
    Nodes,       \* the configured nodes
    Fetchers,    \* bound: the block goroutines alive at one time
    MaxFetches,  \* bound: the block goroutines started
    MaxHeight,   \* bound: the blocks of the chain
    Size,        \* scoreWindowSize
    Attempts,    \* proofFetchMaxRetries + 1
    TimeRequests \* the requests for block times of a goroutine: for three
                 \* blocks, blockFetchMaxAttempts each

ASSUME FetchAssumption ==
    /\ MaxHeight \in Nat \ {0}
    /\ MaxFetches \in Nat
    /\ Size \in Nat \ {0}
    /\ Attempts \in Nat \ {0}
    /\ TimeRequests \in Nat \ {0}

VARIABLES
    client,     \* whether the node's RawRPC and RPC are set
    healthy,    \* Status.Healthy of each node
    height,     \* Status.BlockHeight of each node
    check,      \* where the check of each node is
    ring,       \* Score of each node
    fetch,      \* the block goroutines
    fetches,    \* number of block goroutines started
    tried,      \* history: the nodes a goroutine has called for its proof
    given,      \* history: the results it has recorded for each node
    panicked    \* a nil client was called: the process is gone

nodeVars  == <<client, healthy, height, check>>
fetchVars == <<fetch, fetches, tried, given>>
vars == <<nodeVars, ring, fetchVars, panicked>>

Heights == 1..MaxHeight

Idle == [pc |-> "idle", block |-> 0, node |-> {}, attempt |-> 0,
         todo |-> {}, cands |-> {}, failed |-> {}]

(* A node as a fetch saw it: at the height of the block or not, and its    *)
(* success rate.                                                           *)
Candidate == [node : Nodes, atHeight : BOOLEAN, won : Nat, of : Nat]

Fetch == [pc : {"idle", "select", "await", "ask", "gather", "call",
                "reward", "score"},
          block : 0..MaxHeight, node : SUBSET Nodes, attempt : Nat, todo : SUBSET Nodes,
          cands : SUBSET Candidate, failed : SUBSET Nodes]

-----------------------------------------------------------------------------
(* NodeScore: a circular buffer, written under the lock of its node *)

Ring == [results : [0..(Size - 1) -> BOOLEAN], head : 0..(Size - 1), count : 0..Size]

EmptyRing == [results |-> [i \in 0..(Size - 1) |-> FALSE], head |-> 0, count |-> 0]

(* Mutation: the write position wraps one slot late. *)
RecordOffByOne(s, r) ==
    [results |-> [s.results EXCEPT ![s.head] = r],
     head    |-> IF s.head + 2 >= Size THEN 0 ELSE s.head + 1,
     count   |-> IF s.count < Size THEN s.count + 1 ELSE s.count]

(* Mutation: the count goes on beyond the size. *)
RecordUncapped(s, r) ==
    [results |-> [s.results EXCEPT ![s.head] = r],
     head    |-> (s.head + 1) % Size,
     count   |-> s.count + 1]

RecordResult(s, r) ==
    [results |-> [s.results EXCEPT ![s.head] = r],
     head    |-> (s.head + 1) % Size,
     count   |-> IF s.count < Size THEN s.count + 1 ELSE s.count]

(* The slot of the i-th oldest result, i from 0. *)
Slot(s, i) == (s.head - s.count + i + Size) % Size

Successes(s) == Cardinality({i \in 0..(s.count - 1) : s.results[Slot(s, i)]})

(* What a fetch for block h sees of node n; GetSuccessRate is a fraction,  *)
(* one half of a node without history.                                     *)
Seen(n, h) ==
    [node |-> n, atHeight |-> height[n] >= h,
     won  |-> IF ring[n].count = 0 THEN 1 ELSE Successes(ring[n]),
     of   |-> IF ring[n].count = 0 THEN 2 ELSE ring[n].count]

(* The order of the candidates. *)
Before(a, b) ==
    \/ a.atHeight /\ ~ b.atHeight
    \/ (a.atHeight <=> b.atHeight) /\ a.won * b.of > b.won * a.of

(* The candidates that may stand at position k, from 0, of their order. *)
AtPosition(C, k) ==
    {c \in C : /\ Cardinality({d \in C : Before(d, c)}) <= k
               /\ Cardinality({d \in C : Before(c, d)}) < Cardinality(C) - k}

-----------------------------------------------------------------------------
(* Manager.Start has made a first check of every node before the goroutines*)
(* begin.                                                                  *)
Init ==
    /\ client \in [Nodes -> BOOLEAN]
    /\ healthy \in [Nodes -> BOOLEAN]
    /\ \A n \in Nodes : healthy[n] => client[n]
    /\ height = [n \in Nodes |-> 0]
    /\ check = [n \in Nodes |-> "idle"]
    /\ ring = [n \in Nodes |-> EmptyRing]
    /\ fetch = [f \in Fetchers |-> Idle]
    /\ fetches = 0
    /\ tried = [f \in Fetchers |-> {}]
    /\ given = [f \in Fetchers |-> [n \in Nodes |-> 0]]
    /\ panicked = FALSE

(* A check holds the node's lock from its start to its end; every other    *)
(* section under the lock is a step.                                       *)
Locked(n) == check[n] # "idle"

-----------------------------------------------------------------------------
(* checkNode, and UpdateHeight by a listener *)

outsideNode == <<ring, fetchVars, panicked>>

EndCheck(n) == check' = [check EXCEPT ![n] = "idle"]

(* A node without a client is dialled first, which for a URL of HTTP is no *)
(* request; a dial that fails leaves the node as it is.                    *)
BeginCheck(n) ==
    /\ ~ Locked(n)
    /\ client' = [client EXCEPT ![n] = TRUE]
    /\ check' = [check EXCEPT ![n] = "probe"]
    /\ UNCHANGED <<healthy, height, outsideNode>>

(* Mutation: the client is closed and the status stays as it was. *)
CloseClientOnly(n) ==
    /\ check[n] = "probe"
    /\ client' = [client EXCEPT ![n] = FALSE]
    /\ EndCheck(n)
    /\ UNCHANGED <<healthy, height, outsideNode>>

(* BlockNumber fails: the client is closed and set to nil. *)
BlockNumberFails(n) ==
    /\ check[n] = "probe"
    /\ healthy' = [healthy EXCEPT ![n] = FALSE]
    /\ client' = [client EXCEPT ![n] = FALSE]
    /\ EndCheck(n)
    /\ UNCHANGED <<height, outsideNode>>

(* SyncProgress fails: the client is kept. *)
SyncProgressFails(n) ==
    /\ check[n] = "probe"
    /\ healthy' = [healthy EXCEPT ![n] = FALSE]
    /\ EndCheck(n)
    /\ UNCHANGED <<client, height, outsideNode>>

CheckPasses(n) ==
    /\ check[n] = "probe"
    /\ healthy' = [healthy EXCEPT ![n] = TRUE]
    /\ EndCheck(n)
    /\ UNCHANGED <<client, height, outsideNode>>

UpdateHeight(n) ==
    /\ ~ Locked(n)
    /\ \E h \in Heights :
        /\ h > height[n]
        /\ height' = [height EXCEPT ![n] = h]
    /\ UNCHANGED <<client, healthy, check, outsideNode>>

-----------------------------------------------------------------------------
(* ensureProofNode and getBlockTimeAndUpdateMetrics, by goroutine f *)

outsideFetch == <<nodeVars, fetches, panicked>>

Go(f, job) == fetch' = [fetch EXCEPT ![f] = job]

(* The goroutine returns, and its history with it. *)
Return(f) ==
    /\ Go(f, Idle)
    /\ tried' = [tried EXCEPT ![f] = {}]
    /\ given' = [given EXCEPT ![f] = [n \in Nodes |-> 0]]
    /\ UNCHANGED <<ring, outsideFetch>>

(* A header that a listener has received, after it updated its node.       *)
StartFetch(f) ==
    /\ fetch[f].pc = "idle"
    /\ \E n \in Nodes : \E h \in 1..height[n] :
          Go(f, [Idle EXCEPT !.pc = "select", !.block = h, !.todo = Nodes])
    /\ fetches < MaxFetches
    /\ fetches' = fetches + 1
    /\ UNCHANGED <<nodeVars, ring, tried, given, panicked>>

(* selectProofNode and proofNodeCandidates alike take a node into account  *)
(* whose client is set and whose status, which is read under the lock, is  *)
(* healthy.                                                                *)
LookAt(f) ==
    /\ fetch[f].pc \in {"select", "gather"}
    /\ \E n \in fetch[f].todo :
        /\ ~ Locked(n)
        /\ Go(f, [fetch[f] EXCEPT
                    !.todo = @ \ {n},
                    !.cands = IF client[n] /\ healthy[n]
                              THEN @ \cup {Seen(n, fetch[f].block)} ELSE @])
    /\ UNCHANGED <<ring, tried, given, outsideFetch>>

(* A node without a client is passed over before its lock is asked for. *)
PassOver(f) ==
    /\ fetch[f].pc = "gather"
    /\ \E n \in fetch[f].todo :
        /\ ~ client[n]
        /\ Go(f, [fetch[f] EXCEPT !.todo = @ \ {n}])
    /\ UNCHANGED <<ring, tried, given, outsideFetch>>

(* No node, or one that has lost its client in the meantime. *)
NoProofNode(f) ==
    /\ fetch[f].pc = "select"
    /\ fetch[f].todo = {}
    /\ \/ fetch[f].cands = {}
       \/ \E c \in AtPosition(fetch[f].cands, 0) : ~ client[c.node]
    /\ Return(f)

SelectNode(f) ==
    /\ fetch[f].pc = "select"
    /\ fetch[f].todo = {}
    /\ \E c \in AtPosition(fetch[f].cands, 0) :
        /\ client[c.node]
        /\ Go(f, [fetch[f] EXCEPT !.pc = "await", !.node = {c.node}, !.cands = {}])
    /\ UNCHANGED <<ring, tried, given, outsideFetch>>

(* proofNodeCandidates for the attempt k. *)
Gathering(job, k) == [job EXCEPT !.pc = "gather", !.node = {}, !.attempt = k, !.todo = Nodes]

(* The goroutine goes on to the proof, as the node has not caught up within*)
(* ten seconds or the cache has the times, or it asks the node for a time. *)
(* For that the node must have a client, which is read without the lock.   *)
AwaitHeight(f) ==
    /\ fetch[f].pc = "await"
    /\ \A n \in fetch[f].node : ~ Locked(n)
    /\ \/ Go(f, Gathering(fetch[f], 0))
       \/ /\ \A n \in fetch[f].node : height[n] >= fetch[f].block /\ client[n]
          /\ Go(f, [fetch[f] EXCEPT !.pc = "ask"])
    /\ UNCHANGED <<ring, tried, given, outsideFetch>>

(* BlockByNumber answers, or fails with an error that is not retried.      *)
AskForTime(f) ==
    /\ fetch[f].pc = "ask"
    /\ \A n \in fetch[f].node : client[n]
    /\ Go(f, Gathering(fetch[f], 0))
    /\ UNCHANGED <<ring, tried, given, outsideFetch>>

(* The node does not have the block yet, or the time of another one is     *)
(* needed: it is asked again, through the client that it has then.         *)
AskAgain(f) ==
    /\ fetch[f].pc = "ask"
    /\ \A n \in fetch[f].node : client[n]
    /\ fetch[f].attempt + 1 < TimeRequests
    /\ Go(f, [fetch[f] EXCEPT !.attempt = @ + 1])
    /\ UNCHANGED <<ring, tried, given, outsideFetch>>

-----------------------------------------------------------------------------
(* fetchBlockProofWithRetry *)

(* Mutation: without a candidate the loop waits for one. *)
WaitForCandidate(f) ==
    /\ fetch[f].pc = "gather"
    /\ fetch[f].todo = {}
    /\ fetch[f].cands = {}
    /\ Go(f, Gathering(fetch[f], fetch[f].attempt))
    /\ UNCHANGED <<ring, tried, given, outsideFetch>>

(* The fetch is given up, and the failures collected are forgotten. *)
NoCandidate(f) ==
    /\ fetch[f].pc = "gather"
    /\ fetch[f].todo = {}
    /\ fetch[f].cands = {}
    /\ Return(f)

(* The candidate of this attempt: the attempts go round the order. *)
ChooseCandidate(f) ==
    LET C == fetch[f].cands
    IN  /\ fetch[f].pc = "gather"
        /\ fetch[f].todo = {}
        /\ C # {}
        /\ \E c \in AtPosition(C, fetch[f].attempt % Cardinality(C)) :
              Go(f, [fetch[f] EXCEPT !.pc = "call", !.node = {c.node}, !.cands = {}])
        /\ UNCHANGED <<ring, tried, given, outsideFetch>>

(* The client is read again for the call, without the lock. *)
CanCall(f) == fetch[f].pc = "call" /\ \A n \in fetch[f].node : client[n]

CallSucceeds(f) ==
    /\ CanCall(f)
    /\ Go(f, [fetch[f] EXCEPT !.pc = "reward"])
    /\ tried' = [tried EXCEPT ![f] = @ \cup fetch[f].node]
    /\ UNCHANGED <<ring, given, outsideFetch>>

Scoring(job) == [job EXCEPT !.pc = "score", !.node = {}, !.attempt = 0]

(* Another attempt, or the end of the loop.                                *)
CallFails(f) ==
    /\ CanCall(f)
    /\ LET job  == [fetch[f] EXCEPT !.failed = @ \cup fetch[f].node]
           next == job.attempt + 1
       IN  Go(f, IF next < Attempts THEN Gathering(job, next) ELSE Scoring(job))
    /\ tried' = [tried EXCEPT ![f] = @ \cup fetch[f].node]
    /\ UNCHANGED <<ring, given, outsideFetch>>

(* The context of main ends during the call, which ends the fetch; its     *)
(* failures are forgotten. What the others do from then on they may do     *)
(* without it, too.                                                        *)
CallCancelled(f) ==
    /\ CanCall(f)
    /\ Return(f)

(* A method call on a nil client: the runtime ends the process. *)
CallNilClient(f) ==
    /\ fetch[f].pc \in {"ask", "call"}
    /\ \E n \in fetch[f].node : ~ client[n]
    /\ panicked' = TRUE
    /\ UNCHANGED <<nodeVars, ring, fetchVars>>

Give(f, n, r) ==
    /\ ~ Locked(n)
    /\ ring' = [ring EXCEPT ![n] = RecordResult(@, r)]
    /\ given' = [given EXCEPT ![f][n] = @ + 1]

(* Mutation: the node stays among the failed ones it was in before. *)
RewardKeepingFailure(f) ==
    /\ fetch[f].pc = "reward"
    /\ \E n \in fetch[f].node : Give(f, n, TRUE)
    /\ Go(f, Scoring(fetch[f]))
    /\ UNCHANGED <<tried, outsideFetch>>

(* RecordProofSuccess, and the node is no longer among the failed ones. *)
Reward(f) ==
    /\ fetch[f].pc = "reward"
    /\ \E n \in fetch[f].node : Give(f, n, TRUE)
    /\ Go(f, Scoring([fetch[f] EXCEPT !.failed = @ \ fetch[f].node]))
    /\ UNCHANGED <<tried, outsideFetch>>

(* RecordProofFailure for each failed node. *)
RecordFailure(f) ==
    /\ fetch[f].pc = "score"
    /\ \E n \in fetch[f].failed :
        /\ Give(f, n, FALSE)
        /\ Go(f, [fetch[f] EXCEPT !.failed = @ \ {n}])
    /\ UNCHANGED <<tried, outsideFetch>>

FinishFetch(f) ==
    /\ fetch[f].pc = "score"
    /\ fetch[f].failed = {}
    /\ Return(f)

-----------------------------------------------------------------------------
CheckEnds(n) ==
    \/ BlockNumberFails(n)
    \/ SyncProgressFails(n)
    \/ CheckPasses(n)

NodeStep(n) ==
    \/ BeginCheck(n)
    \/ CheckEnds(n)
    \/ UpdateHeight(n)

FetchStep(f) ==
    \/ LookAt(f)
    \/ PassOver(f)
    \/ NoProofNode(f)
    \/ SelectNode(f)
    \/ AwaitHeight(f)
    \/ AskForTime(f)
    \/ AskAgain(f)
    \/ NoCandidate(f)
    \/ ChooseCandidate(f)
    \/ CallSucceeds(f)
    \/ CallFails(f)
    \/ CallCancelled(f)
    \/ CallNilClient(f)
    \/ Reward(f)
    \/ RecordFailure(f)
    \/ FinishFetch(f)

Next ==
    /\ ~ panicked
    /\ \/ \E n \in Nodes : NodeStep(n)
       \/ \E f \in Fetchers : StartFetch(f) \/ FetchStep(f)

Spec == Init /\ [][Next]_vars

(* The goroutine has made a request. Its context is main's, which has no   *)
(* deadline: a node may leave the request open for ever.                   *)
Waiting(f) == fetch[f].pc \in {"ask", "call"}

(* A check ends, since its requests have a timeout of 5 seconds. Apart from*)
(* its requests a goroutine goes on: its pauses are over some time, and a  *)
(* lock that checks take again and again does not starve it, as            *)
(* sync.RWMutex hands it over to those who wait.                           *)
Fairness ==
    /\ \A n \in Nodes : WF_vars(~ panicked /\ CheckEnds(n))
    /\ \A f \in Fetchers : SF_vars(~ panicked /\ ~ Waiting(f) /\ FetchStep(f))

FairSpec == Spec /\ Fairness

-----------------------------------------------------------------------------
(* Properties *)

(* Type correctness. *)
TypeOK ==
    /\ client \in [Nodes -> BOOLEAN]
    /\ healthy \in [Nodes -> BOOLEAN]
    /\ height \in [Nodes -> 0..MaxHeight]
    /\ check \in [Nodes -> {"idle", "probe"}]
    /\ ring \in [Nodes -> Ring]
    /\ fetch \in [Fetchers -> Fetch]
    /\ fetches \in 0..MaxFetches
    /\ tried \in [Fetchers -> SUBSET Nodes]
    /\ given \in [Fetchers -> [Nodes -> 0..1]]
    /\ panicked \in BOOLEAN

(* Whatever way a check ends, a node that passes for healthy has a client: *)
(* what every choice of a node relies on.                                  *)
HealthyHasClient == \A n \in Nodes : healthy[n] => client[n]

(* What a fetch gives its nodes: nothing before it knows how it ends, and  *)
(* at its return one result for each node called, or none at all.          *)
Settles(f) ==
    LET job  == fetch[f]
        Once == [n \in Nodes |-> IF n \in tried[f] THEN 1 ELSE 0]
        None == [n \in Nodes |-> 0]
    IN  /\ job.pc \notin {"reward", "score"} => given'[f] = None
        /\ job.pc # "idle" /\ fetch'[f].pc = "idle" =>
              given[f] = IF job.pc = "score" THEN Once ELSE None

(* Failures are deferred: no node has a result of a fetch before the fetch *)
(* knows how it ends. When it returns after a success or its last attempt, *)
(* each node that it called has exactly one, however often it was tried    *)
(* and whatever else was recorded meanwhile: a node that succeeded after   *)
(* failures has no failure. A fetch that is given up before that, without  *)
(* a candidate or because the program stops, leaves no result at all: the  *)
(* failures it collected are lost.                                         *)
ScoredOnce == [][\A f \in Fetchers : Settles(f)]_vars

(* The results as the ring has them, the oldest first. *)
Recent(s) == [i \in 1..s.count |-> s.results[Slot(s, i - 1)]]

LastResults == [n \in Nodes |-> Recent(ring[n])]

History == INSTANCE NodeHistory WITH last <- LastResults

(* The ring of each node is the sequence of its last Size results, across  *)
(* every wrap of the write position.                                       *)
KeepsHistory == History!Spec

(* Every fetch ends, or waits for ever for the answer to one request: the  *)
(* retries are bounded and no wait is for a candidate, whatever the checks *)
(* do to the nodes in between.                                             *)
FetchEnds ==
    \A f \in Fetchers :
        (fetch[f].pc # "idle") ~> (fetch[f].pc = "idle" \/ panicked \/ []Waiting(f))

(* ensureProofNode "ensures RawRPC is set": no client is nil when it is    *)
(* called.                                                                 *)
ClientSet == ~ panicked
=============================================================================
