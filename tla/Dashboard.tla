----------------------------- MODULE Dashboard -----------------------------
(***************************************************************************)
(* The feeds of the dashboard (internal/dashboard/server.go): goroutines   *)
(* push the state of validators and nodes into the broadcast channel, one  *)
(* goroutine writes what comes out of it to every client and another one   *)
(* the log lines, and the handler of a new connection writes it the whole  *)
(* state first, with the server's mutex held. To build a payload the locks *)
(* of the registry and of the nodes are needed, which a reload and a check *)
(* hold while they log; a log line goes to the dashboard itself            *)
(* (internal/logger/logger.go).                                            *)
(*                                                                         *)
(* The list of nodes is sorted in place at each build, without a lock. The *)
(* sort is the insertion sort that sort.Slice does on less than 12 nodes;  *)
(* a swap loads both elements and stores them one after the other.         *)
(*                                                                         *)
(* Payloads are not told apart, and every build of one takes locks in the  *)
(* same order, so that the same stages stand for a push, which sends what  *)
(* it builds, and for a new connection, which writes it.                   *)
(***************************************************************************)
EXTENDS Naturals, Sequences, FiniteSets

CONSTANTS
    Clients,    \* the connections of browsers; one that is closed may come back
    Pushers,    \* bound: the goroutines in BroadcastUpdate at one time
    Nodes,      \* the configured nodes
    Configured, \* the nodes in the order of the configuration
    Rank,       \* the place of each node in the sorted list: alert_on_down,
                \* then label, then address
    ChanCap,    \* broadcastBufferSize
    LogCap      \* the buffer of logChan

Feeds == {"messages", "logs"}

ASSUME DashboardAssumption ==
    /\ Clients \cap Pushers = {}
    /\ Clients \cap Feeds = {}
    /\ Configured \in Seq(Nodes)
    /\ Rank \in [Nodes -> Nat]
    /\ ChanCap \in Nat \ {0}
    /\ LogCap \in Nat \ {0}

VARIABLES
    mu,         \* who holds Server.mu
    registered, \* Server.clients
    waiting,    \* the number of payloads in the broadcast channel
    logs,       \* the number of lines in the log channel
    lock,       \* the lock of the registry and that of a node
    feed,       \* handleMessages and handleLogs
    stage,      \* where a push, or the handler of a connection, is
    nodes,      \* Manager.nodes, the slice itself
    sort,       \* where a sort of it is
    behind      \* history: payloads that were taken out of the channel since
                \* the client was registered and not written to it

chanVars == <<waiting, logs>>
sortVars == <<nodes, sort>>
vars == <<mu, registered, chanVars, lock, feed, stage, sortVars, behind>>

Locks == {"registry", "node"}

Builders == Pushers \cup Clients

Stage == {"idle", "registered", "registry", "heights", "validators", "compare", "swap",
          "store1", "store2", "statuses", "nodes", "blocktime", "config", "served"}

(* The reads of other components' state, and the lock that each needs. *)
LockOf == [registry |-> "registry", heights |-> "node", statuses |-> "node"]

(* The payloads, at the stage where they are sent or written. *)
Payloads == {"validators", "nodes", "blocktime", "config"}

After == [registry   |-> "heights",
          heights    |-> "validators",
          validators |-> "compare",
          statuses   |-> "nodes",
          nodes      |-> "blocktime",
          blocktime  |-> "config"]

Silent == [pc |-> "receive", todo |-> {}, to |-> {}]

Feed == [pc : {"receive", "lock", "loop"}, todo : SUBSET Clients, to : SUBSET Clients]

Unsorted == [i |-> 2, j |-> 2, held |-> <<>>]

Sort == [i : 2..(Len(Configured) + 2), j : 1..(Len(Configured) + 2),
         held : {<<>>} \cup (Nodes \X Nodes)]

Init ==
    /\ mu = {}
    /\ registered = {}
    /\ waiting = 0
    /\ logs = 0
    /\ lock = [k \in Locks |-> "free"]
    /\ feed = [f \in Feeds |-> Silent]
    /\ stage = [x \in Builders |-> "idle"]
    /\ nodes = Configured
    /\ sort = [x \in Builders |-> Unsorted]
    /\ behind = [c \in Clients |-> 0]

-----------------------------------------------------------------------------
(* Reload holds the registry's lock over its calls of the contract, and    *)
(* checkNode that of its node over its requests, and either logs before it *)
(* lets go. One request and one line stand for all.                        *)

outsideLock == <<mu, registered, waiting, feed, stage, sortVars, behind>>

TakeLock(k) ==
    /\ lock[k] = "free"
    /\ lock' = [lock EXCEPT ![k] = "asking"]
    /\ UNCHANGED <<logs, outsideLock>>

RequestEnds(k) ==
    /\ lock[k] = "asking"
    /\ lock' = [lock EXCEPT ![k] = "logging"]
    /\ UNCHANGED <<logs, outsideLock>>

(* Mutation: the line of a reload waits for room. *)
LogLineWaiting(k) ==
    /\ lock[k] = "logging"
    /\ k = "registry" => logs < LogCap
    /\ logs' = IF logs < LogCap THEN logs + 1 ELSE logs
    /\ lock' = [lock EXCEPT ![k] = "free"]
    /\ UNCHANGED outsideLock

(* The line is dropped when the channel is full. *)
LogLine(k) ==
    /\ lock[k] = "logging"
    /\ logs' = IF logs < LogCap THEN logs + 1 ELSE logs
    /\ lock' = [lock EXCEPT ![k] = "free"]
    /\ UNCHANGED outsideLock

(* A check that a node passes logs nothing. *)
PassQuietly ==
    /\ lock["node"] = "asking"
    /\ lock' = [lock EXCEPT !["node"] = "free"]
    /\ UNCHANGED <<logs, outsideLock>>

-----------------------------------------------------------------------------
(* The build of payloads, by builder x *)

At(x, s) == stage' = [stage EXCEPT ![x] = s]

outsideBuild == <<mu, registered, chanVars, lock, feed, behind>>

(* GetValidators, getWindowBaseHeight, and GetStatus in buildNodeDTOs. *)
Read(x) ==
    /\ stage[x] \in DOMAIN LockOf
    /\ lock[LockOf[stage[x]]] = "free"
    /\ At(x, After[stage[x]])
    /\ UNCHANGED <<sortVars, outsideBuild>>

(* The order of buildNodeDTOs. *)
Less(m, n) == Rank[m] < Rank[n]

(* Whether the element at j goes before the one on its left. *)
Misplaced(j) == j > 1 /\ Less(nodes[j], nodes[j - 1])

CompareNodes(x) ==
    LET i == sort[x].i
        j == sort[x].j
    IN  /\ stage[x] = "compare"
        /\ IF i > Len(nodes) THEN At(x, "statuses") /\ sort' = [sort EXCEPT ![x] = Unsorted]
           ELSE IF Misplaced(j) THEN At(x, "swap") /\ UNCHANGED sort
           ELSE UNCHANGED stage /\ sort' = [sort EXCEPT ![x].i = i + 1, ![x].j = i + 1]
        /\ UNCHANGED <<nodes, outsideBuild>>

SwapLoad(x) ==
    LET j == sort[x].j
    IN  /\ stage[x] = "swap"
        /\ sort' = [sort EXCEPT ![x].held = <<nodes[j], nodes[j - 1]>>]
        /\ At(x, "store1")
        /\ UNCHANGED <<nodes, outsideBuild>>

SwapStore1(x) ==
    /\ stage[x] = "store1"
    /\ nodes' = [nodes EXCEPT ![sort[x].j] = sort[x].held[2]]
    /\ At(x, "store2")
    /\ UNCHANGED <<sort, outsideBuild>>

SwapStore2(x) ==
    /\ stage[x] = "store2"
    /\ nodes' = [nodes EXCEPT ![sort[x].j - 1] = sort[x].held[1]]
    /\ sort' = [sort EXCEPT ![x].j = @ - 1, ![x].held = <<>>]
    /\ At(x, "compare")
    /\ UNCHANGED outsideBuild

-----------------------------------------------------------------------------
(* BroadcastUpdate, by pusher p *)

Push(p) ==
    /\ stage[p] = "idle"
    /\ At(p, "registry")
    /\ UNCHANGED <<sortVars, outsideBuild>>

AfterSend(p) == At(p, IF stage[p] = "blocktime" THEN "idle" ELSE After[stage[p]])

(* Mutation: the buffer is taken for boundless. *)
SendUncapped(p) ==
    /\ stage[p] \in Payloads
    /\ waiting' = waiting + 1
    /\ AfterSend(p)
    /\ UNCHANGED <<mu, registered, logs, lock, feed, sortVars, behind>>

(* Mutation: a push waits for room in the channel. *)
SendWaiting(p) ==
    /\ stage[p] \in Payloads
    /\ waiting < ChanCap
    /\ waiting' = waiting + 1
    /\ AfterSend(p)
    /\ UNCHANGED <<mu, registered, logs, lock, feed, sortVars, behind>>

(* broadcastPayload: the payload is dropped when the channel is full. *)
Send(p) ==
    /\ stage[p] \in Payloads
    /\ waiting' = IF waiting < ChanCap THEN waiting + 1 ELSE waiting
    /\ AfterSend(p)
    /\ UNCHANGED <<mu, registered, logs, lock, feed, sortVars, behind>>

-----------------------------------------------------------------------------
(* handleConnections, for client c *)

outsideConnection == <<chanVars, lock, feed, sortVars>>

Register(c) ==
    /\ stage[c] = "idle"
    /\ mu = {}
    /\ registered' = registered \cup {c}
    /\ At(c, "registered")
    /\ UNCHANGED <<mu, behind, outsideConnection>>

(* Mutation: the initial state is written without the mutex. *)
StartUnlocked(c) ==
    /\ stage[c] = "registered"
    /\ At(c, "registry")
    /\ UNCHANGED <<mu, registered, behind, outsideConnection>>

LockForInitial(c) ==
    /\ stage[c] = "registered"
    /\ mu = {}
    /\ mu' = {c}
    /\ At(c, "registry")
    /\ UNCHANGED <<registered, behind, outsideConnection>>

(* writeInitialState and the config. A feed may have closed the connection *)
(* before, and then no write succeeds.                                     *)
WriteInitial(c) ==
    /\ stage[c] \in Payloads
    /\ c \in registered
    /\ IF stage[c] = "config" THEN At(c, "served") /\ mu' = mu \ {c}
                              ELSE At(c, After[stage[c]]) /\ UNCHANGED mu
    /\ UNCHANGED <<registered, behind, outsideConnection>>

WriteInitialFails(c) ==
    /\ stage[c] \in Payloads
    /\ registered' = registered \ {c}
    /\ mu' = mu \ {c}
    /\ behind' = [behind EXCEPT ![c] = 0]
    /\ At(c, "idle")
    /\ UNCHANGED outsideConnection

-----------------------------------------------------------------------------
(* handleMessages and handleLogs, as feed f *)

outsideFeed == <<lock, sortVars>>

Receive(f) ==
    /\ feed[f].pc = "receive"
    /\ IF f = "messages"
       THEN /\ waiting > 0
            /\ waiting' = waiting - 1
            /\ behind' = [c \in Clients |-> behind[c] + IF c \in registered THEN 1 ELSE 0]
            /\ UNCHANGED logs
       ELSE /\ logs > 0
            /\ logs' = logs - 1
            /\ UNCHANGED <<waiting, behind>>
    /\ feed' = [feed EXCEPT ![f].pc = "lock"]
    /\ UNCHANGED <<mu, registered, stage, outsideFeed>>

LockFeed(f) ==
    /\ feed[f].pc = "lock"
    /\ mu = {}
    /\ mu' = {f}
    /\ feed' = [feed EXCEPT ![f].pc = "loop", ![f].todo = registered]
    /\ UNCHANGED <<registered, chanVars, stage, behind, outsideFeed>>

BeginWrite(f) ==
    /\ feed[f].pc = "loop"
    /\ feed[f].to = {}
    /\ \E c \in feed[f].todo :
          feed' = [feed EXCEPT ![f].todo = @ \ {c}, ![f].to = {c}]
    /\ UNCHANGED <<mu, registered, chanVars, stage, behind, outsideFeed>>

EndWrite(f) ==
    /\ feed[f].to # {}
    /\ feed' = [feed EXCEPT ![f].to = {}]
    /\ behind' = IF f = "logs" THEN behind
                 ELSE [c \in Clients |-> IF c \in feed[f].to THEN 0 ELSE behind[c]]
    /\ UNCHANGED <<mu, registered, chanVars, stage, outsideFeed>>

(* The connection is closed; the handler of one that has not been sent its *)
(* initial state is still to find out.                                     *)
Drop(f) ==
    /\ registered' = registered \ feed[f].to
    /\ behind' = [c \in Clients |-> IF c \in feed[f].to THEN 0 ELSE behind[c]]
    /\ stage' = [x \in Builders |-> IF x \in feed[f].to /\ stage[x] = "served"
                                    THEN "idle" ELSE stage[x]]

(* Mutation: a failed write ends the round. *)
EndRound(f) ==
    /\ feed[f].to # {}
    /\ Drop(f)
    /\ feed' = [feed EXCEPT ![f].to = {}, ![f].todo = {}]
    /\ UNCHANGED <<mu, chanVars, outsideFeed>>

WriteFails(f) ==
    /\ feed[f].to # {}
    /\ Drop(f)
    /\ feed' = [feed EXCEPT ![f].to = {}]
    /\ UNCHANGED <<mu, chanVars, outsideFeed>>

UnlockFeed(f) ==
    /\ feed[f].pc = "loop"
    /\ feed[f].to = {}
    /\ feed[f].todo = {}
    /\ mu' = {}
    /\ feed' = [feed EXCEPT ![f].pc = "receive"]
    /\ UNCHANGED <<registered, chanVars, stage, behind, outsideFeed>>

-----------------------------------------------------------------------------
Build(x) ==
    \/ Read(x)
    \/ CompareNodes(x)
    \/ SwapLoad(x)
    \/ SwapStore1(x)
    \/ SwapStore2(x)

PushStep(p) == Build(p) \/ Send(p)

Connect(c) == Register(c) \/ LockForInitial(c)

EndInitialWrite(c) == WriteInitial(c) \/ WriteInitialFails(c)

FeedStep(f) == Receive(f) \/ LockFeed(f) \/ BeginWrite(f) \/ UnlockFeed(f)

EndFeedWrite(f) == EndWrite(f) \/ WriteFails(f)

Next ==
    \/ \E k \in Locks : TakeLock(k) \/ RequestEnds(k) \/ LogLine(k)
    \/ PassQuietly
    \/ \E p \in Pushers : Push(p) \/ PushStep(p)
    \/ \E c \in Clients : Connect(c) \/ Build(c) \/ EndInitialWrite(c)
    \/ \E f \in Feeds : FeedStep(f) \/ EndFeedWrite(f)

Spec == Init /\ [][Next]_vars

(* A check ends, since its requests have a timeout of 5 seconds. Nothing is*)
(* said of the calls of a reload: their context is main's, which has no    *)
(* deadline, and the node may never answer. A goroutine goes on, and a lock*)
(* that others take again and again does not starve it, as sync.Mutex and  *)
(* sync.RWMutex hand over to those who wait. Nothing is said here of the   *)
(* clients either, which may or may not take what is written.              *)
FairSpec ==
    /\ Spec
    /\ \A k \in Locks : WF_vars(LogLine(k))
    /\ WF_vars(RequestEnds("node") \/ PassQuietly)
    /\ \A p \in Pushers : SF_vars(PushStep(p))
    /\ \A c \in Clients : SF_vars(LockForInitial(c) \/ Build(c))
    /\ \A f \in Feeds : WF_vars(FeedStep(f))

(* A write ends, by its deadline at the latest. *)
WritesEnd ==
    /\ \A c \in Clients : WF_vars(EndInitialWrite(c))
    /\ \A f \in Feeds : WF_vars(EndFeedWrite(f))

-----------------------------------------------------------------------------
(* Properties *)

(* Type correctness. *)
TypeOK ==
    /\ mu \in SUBSET (Clients \cup Feeds)
    /\ Cardinality(mu) <= 1
    /\ registered \in SUBSET Clients
    /\ waiting \in 0..ChanCap
    /\ logs \in 0..LogCap
    /\ lock \in [Locks -> {"free", "asking", "logging"}]
    /\ feed \in [Feeds -> Feed]
    /\ stage \in [Builders -> Stage]
    /\ nodes \in [1..Len(Configured) -> Nodes]
    /\ sort \in [Builders -> Sort]
    /\ \A x \in Builders : sort[x].j <= sort[x].i
    /\ behind \in [Clients -> Nat]

(* Who is in WriteMessage on the connection of c. *)
Writers(c) == {f \in Feeds : c \in feed[f].to} \cup {d \in {c} : stage[d] \in Payloads}

(* "No concurrent write from handleMessages/handleLogs to this connection" *)
(* (server.go:356): at most one goroutine writes to a connection.          *)
OneWriter == \A c \in Clients : Cardinality(Writers(c)) <= 1

(* A payload that is taken out of the channel goes to every client that was*)
(* registered then, also if other clients fail in the middle of it: nothing*)
(* is owed to a client but what handleMessages is about to write.          *)
NothingMissed ==
    \A c \in registered :
        /\ behind[c] <= 1
        /\ behind[c] = 1 => \/ feed["messages"].pc = "lock"
                            \/ c \in feed["messages"].todo \cup feed["messages"].to

(* A call of the contract is open, with the registry's lock held over it.  *)
ReloadAsks == lock["registry"] = "asking"

(* Block goroutines never wait for the clients of the dashboard: a push    *)
(* ends even if nobody takes what is written to him. All it may wait for   *)
(* without end is a call of a reload that is never answered.               *)
PushEnds ==
    \A p \in Pushers : (stage[p] # "idle") ~> (stage[p] = "idle" \/ []ReloadAsks)

(* Where writes end, a new connection gets its initial state or is closed, *)
(* unless a call of a reload is never answered. Its handler holds the mutex*)
(* while it waits for the locks of a reload or check, which log meanwhile  *)
(* into a channel that waits for the mutex.                                *)
ConnectionServed ==
    WritesEnd =>
        \A c \in Clients :
            (stage[c] = "registered") ~> (stage[c] \in {"served", "idle"} \/ []ReloadAsks)

(* "Node status list" (docs/api.md:86): the list holds every configured    *)
(* node when no build is on the way.                                       *)
NodesKept ==
    (\A x \in Builders : stage[x] \notin {"swap", "store1", "store2"}) =>
        \A n \in Nodes : (\E i \in DOMAIN Configured : Configured[i] = n) =>
                            \E i \in DOMAIN nodes : nodes[i] = n
=============================================================================
