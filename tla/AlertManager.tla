---------------------------- MODULE AlertManager ----------------------------
(***************************************************************************)
(* The alert rules (internal/alerts/manager.go) and their state file       *)
(* (internal/alerts/state.go). One goroutine checks the rules at every     *)
(* tick of 30 seconds, one subject after the other, and saves the alerts   *)
(* at the end of a check. Blocks, reloads, health checks and headers       *)
(* change the subjects meanwhile, and the process may die at any point.    *)
(*                                                                         *)
(* The code compares times only with the `now` that a check reads at its   *)
(* start, so time passes in BeginCheck: every recorded time is kept as its *)
(* age, which stops at FireAfter, beyond which no comparison tells ages    *)
(* apart. A notification that fails and one that is delivered leave the    *)
(* same state behind: Notify is the attempt. Status is always "firing" in  *)
(* an AlertStateItem; whether LastEventAt is set is its status here.       *)
(***************************************************************************)
EXTENDS Integers

CONSTANTS
    Validators,      \* BLS keys
    AlertValidators, \* the configured list; empty: all validators
    Nodes,           \* labels of the nodes with alert_on_down
    EnabledRules,    \* the rules that the configuration sets
    FireAfter,       \* fire_after, in ticks (one value for all rules)
    IOFails,         \* whether reading and writing the state file may fail
    MaxGap,          \* bound: the ticks between two checks
    MaxHeight,       \* bound: the height of a node
    MaxStops         \* bound: how often the process dies

ValidatorRules == {"validator_down", "validator_uptime"}
NodeRules == {"node_down", "node_stall"}
Rules == ValidatorRules \cup NodeRules

ASSUME AlertAssumption ==
    /\ AlertValidators \subseteq Validators
    /\ EnabledRules \subseteq Rules
    /\ FireAfter \in Nat
    /\ IOFails \in BOOLEAN
    /\ MaxGap \in Nat \ {0}
    /\ MaxHeight \in Nat
    /\ MaxStops \in Nat

(* The keys of the map alerts. Those of node_stall follow a height, the    *)
(* others sample a condition at every check.                               *)
SampledKeys == (ValidatorRules \X Validators) \cup ({"node_down"} \X Nodes)
StallKeys == {"node_stall"} \X Nodes
Keys == SampledKeys \cup StallKeys

(* The keys of the sampled rules that wait for FireAfter.                  *)
TimedKeys == ({"validator_down"} \X Validators) \cup ({"node_down"} \X Nodes)

VARIABLES
    alerts,     \* m.alerts: what is known of each key, and since when
    nodeHeight, \* m.nodeHeight
    disk,       \* the alerts in the state file
    process,    \* "running" or "dead"
    ctxDone,    \* the context is cancelled
    rule,       \* what the goroutine does: wait, or check this rule
    left,       \* the rules of this check that are still to come
    todo,       \* the subjects of the rule that are still to come
    snaps,      \* the statuses read by checkNodeHeightStalled
    val,        \* the validators, as the registry holds them
    node,       \* the statuses of the nodes
    stops,      \* how often the process has died
    losses,     \* history: restarts that lost a change of the alerts
    balance,    \* history: firing notifications minus resolved ones, by key
    open,       \* history: the keys whose firing notification still stands
    streak,     \* history: what checks without a break found, and how long
    gaps        \* history: the keys found bad before a check passed them over

managerVars == <<alerts, nodeHeight>>
checkVars == <<rule, left, todo, snaps>>
lifeVars == <<disk, process, ctxDone, stops, losses>>
worldVars == <<val, node>>
historyVars == <<balance, open, streak, gaps>>
vars == <<managerVars, checkVars, lifeVars, worldVars, historyVars>>

Ages == 0..FireAfter
Aged(age, ticks) == IF age + ticks < FireAfter THEN age + ticks ELSE FireAfter

Absent == [status |-> "absent", age |-> 0]
Tracked == [status |-> "tracked", age |-> 0]
NoAlerts == [k \in Keys |-> Absent]
NoTrack == [known |-> FALSE, height |-> 0, age |-> 0]
Unobserved == [bad |-> FALSE, age |-> 0]

(* A validator: whether the registry lists it, Down, and what its window   *)
(* says: nothing, an uptime below the threshold, or one above. Down is set *)
(* by blocks, which leave a record.                                        *)
ValidatorStates ==
    {s \in [listed : BOOLEAN, down : BOOLEAN, record : {"empty", "low", "good"}] :
        s.record = "empty" => ~ s.down}
NewValidator == [listed |-> TRUE, down |-> FALSE, record |-> "empty"]

(* A node; calm is history: the time since its height last changed or a    *)
(* check last found it unfit.                                              *)
NodeStates == [healthy : BOOLEAN, syncing : BOOLEAN, height : 0..MaxHeight, calm : Ages]
StartedNodes == [healthy : BOOLEAN, syncing : BOOLEAN, height : {0}, calm : {0}]
NoSnaps == [n \in Nodes |-> [healthy |-> FALSE, syncing |-> FALSE, height |-> 0, calm |-> 0]]

Init ==
    /\ alerts = NoAlerts
    /\ nodeHeight = [n \in Nodes |-> NoTrack]
    /\ disk = NoAlerts
    /\ process = "running"
    /\ ctxDone = FALSE
    /\ rule = "start"
    /\ left = {}
    /\ todo = {}
    /\ val = [v \in Validators |-> NewValidator]
    /\ node \in [Nodes -> StartedNodes]
    /\ snaps = NoSnaps
    /\ stops = 0
    /\ losses = 0
    /\ balance = [k \in SampledKeys |-> 0]
    /\ open = {}
    /\ streak = [k \in TimedKeys |-> Unobserved]
    /\ gaps = {}

-----------------------------------------------------------------------------
(* What the rules look at *)

(* Mutation: Down is set for a validator that has no record. *)
ProcessUnrecorded(v) ==
    /\ process = "running"
    /\ val[v].listed
    /\ \E d \in BOOLEAN : val' = [val EXCEPT ![v].down = d]
    /\ UNCHANGED <<managerVars, checkVars, lifeVars, node, historyVars>>

(* Blocks are processed: the window has a record, Down is what they say.   *)
ProcessBlocks(v) ==
    /\ process = "running"
    /\ val[v].listed
    /\ \E d \in BOOLEAN, r \in {"low", "good"} :
          val' = [val EXCEPT ![v].down = d, ![v].record = r]
    /\ UNCHANGED <<managerVars, checkVars, lifeVars, node, historyVars>>

(* A reload drops a validator, or lists it as a new one. A rule that is    *)
(* being checked goes on with the objects of the map it has copied; the    *)
(* validator does not return before the rule is through.                   *)
Reload(v) ==
    /\ process = "running"
    /\ \/ val[v].listed /\ val' = [val EXCEPT ![v].listed = FALSE]
       \/ ~ val[v].listed /\ v \notin todo /\ val' = [val EXCEPT ![v] = NewValidator]
    /\ UNCHANGED <<managerVars, checkVars, lifeVars, node, historyVars>>

CheckNode(n) ==
    /\ process = "running"
    /\ \/ node' = [node EXCEPT ![n].healthy = FALSE]
       \/ \E s \in BOOLEAN :
             node' = [node EXCEPT ![n].healthy = TRUE, ![n].syncing = s]
    /\ UNCHANGED <<managerVars, checkVars, lifeVars, val, historyVars>>

UpdateHeight(n) ==
    /\ process = "running"
    /\ \E h \in 1..MaxHeight :
          /\ h > node[n].height
          /\ node' = [node EXCEPT ![n].height = h, ![n].calm = 0]
    /\ UNCHANGED <<managerVars, checkVars, lifeVars, val, historyVars>>

-----------------------------------------------------------------------------
(* The course of a check *)

(* A check begins at once when the manager has started, then at a tick (or *)
(* instead of the return, when the context is done at the same time). It   *)
(* reads the clock: recorded times are d ticks older by now. A tick that   *)
(* has waited for a long check is followed by the next one without delay,  *)
(* so d may be 0.                                                          *)
BeginCheck(d) ==
    /\ process = "running"
    /\ rule \in {"start", "wait"}
    /\ alerts' = [k \in Keys |-> IF alerts[k].status = "absent" THEN Absent
                                 ELSE [alerts[k] EXCEPT !.age = Aged(@, d)]]
    /\ disk' = [k \in Keys |-> IF disk[k].status = "absent" THEN Absent
                               ELSE [disk[k] EXCEPT !.age = Aged(@, d)]]
    /\ nodeHeight' = [n \in Nodes |-> [nodeHeight[n] EXCEPT !.age = Aged(@, d)]]
    /\ node' = [n \in Nodes |-> [node[n] EXCEPT !.calm = Aged(@, d)]]
    /\ streak' = [k \in TimedKeys |-> [streak[k] EXCEPT !.age = Aged(@, d)]]
    /\ rule' = "begin"
    /\ left' = EnabledRules
    /\ UNCHANGED <<todo, snaps, process, ctxDone, stops, losses, val, balance, open, gaps>>

Checking == process = "running" /\ rule \notin {"start", "wait", "stopped"}

Order == [validator_down |-> 1, node_down |-> 2, node_stall |-> 3, validator_uptime |-> 4]

ShouldAlertValidator(v) == AlertValidators = {} \/ v \in AlertValidators

Subjects(r) ==
    IF r \in ValidatorRules THEN {v \in Validators : val[v].listed /\ ShouldAlertValidator(v)}
    ELSE IF r = "node_stall" /\ FireAfter = 0 THEN {}
    ELSE Nodes

(* A node that a stall check looks at only to reset it.                    *)
Unfit(s) == s.height = 0 \/ ~ s.healthy \/ s.syncing

(* A rule passes over the validators that the registry does not list. The  *)
(* code keeps what it knows of them; in the history their streak ends.     *)
PassedOver(r) == {k \in TimedKeys : k[1] = r /\ k[2] \notin Subjects(r)}

(* The next rule copies the validators, or the statuses of all nodes.      *)
StartRule(r) ==
    /\ Checking
    /\ todo = {}
    /\ r \in left
    /\ \A s \in left : Order[r] <= Order[s]
    /\ rule' = r
    /\ left' = left \ {r}
    /\ todo' = Subjects(r)
    /\ IF r = "node_stall"
       THEN /\ node' = [n \in Nodes |-> IF Unfit(node[n]) THEN [node[n] EXCEPT !.calm = 0]
                                        ELSE node[n]]
            /\ snaps' = node'
       ELSE snaps' = NoSnaps /\ UNCHANGED node
    /\ streak' = [k \in TimedKeys |-> IF k \in PassedOver(r) THEN Unobserved ELSE streak[k]]
    /\ gaps' = gaps \cup {k \in PassedOver(r) : streak[k].bad}
    /\ UNCHANGED <<managerVars, lifeVars, val, balance, open>>

(* The check of a subject ends; the history notes what it has observed.    *)
Observed(k, bad) ==
    /\ todo' = todo \ {k[2]}
    /\ streak' = [j \in TimedKeys |-> IF j = k /\ streak[j].bad # bad
                                        THEN [bad |-> bad, age |-> 0] ELSE streak[j]]
    /\ gaps' = IF bad THEN gaps ELSE gaps \ {k}
    /\ UNCHANGED <<nodeHeight, rule, left, snaps, lifeVars, worldVars>>

NotifyFiring(k) ==
    /\ balance' = [balance EXCEPT ![k] = @ + 1]
    /\ open' = open \cup {k}

NotifyResolved(k) ==
    /\ balance' = [balance EXCEPT ![k] = @ - 1]
    /\ open' = open \ {k}

(* The branches of checkValidatorDown, checkNodeDown and                   *)
(* checkValidatorUptime, which differ in the condition and the wait only.  *)
StartTracking(k) ==
    /\ alerts[k].status = "absent"
    /\ alerts' = [alerts EXCEPT ![k] = Tracked]
    /\ UNCHANGED <<balance, open>>

(* Mutation: every observation starts the tracking anew. *)
TrackAnew(k, wait) ==
    /\ alerts[k].status = "fired" \/ (alerts[k].status = "tracked" /\ alerts[k].age < wait)
    /\ alerts' = [alerts EXCEPT ![k].age = 0]
    /\ UNCHANGED <<balance, open>>

KeepObserving(k, wait) ==
    /\ alerts[k].status = "fired" \/ (alerts[k].status = "tracked" /\ alerts[k].age < wait)
    /\ UNCHANGED <<alerts, balance, open>>

(* Mutation: an alert is not marked as sent. *)
FireAgain(k, wait) ==
    /\ alerts[k].status = "tracked"
    /\ alerts[k].age >= wait
    /\ NotifyFiring(k)
    /\ UNCHANGED alerts

Fire(k, wait) ==
    /\ alerts[k].status = "tracked"
    /\ alerts[k].age >= wait
    /\ NotifyFiring(k)
    /\ alerts' = [alerts EXCEPT ![k].status = "fired"]

(* Mutation: an alert that was not sent stays tracked. *)
KeepTracked(k) ==
    /\ alerts[k].status # "fired"
    /\ UNCHANGED <<alerts, balance, open>>

(* Nobody has been told: the tracking ends without a word. *)
StopTracking(k) ==
    /\ alerts[k].status # "fired"
    /\ alerts' = [alerts EXCEPT ![k] = Absent]
    /\ UNCHANGED <<balance, open>>

(* Mutation: an alert that was sent ends without a notification. *)
ResolveSilently(k) ==
    /\ alerts[k].status = "fired"
    /\ alerts' = [alerts EXCEPT ![k] = Absent]
    /\ UNCHANGED <<balance, open>>

Resolve(k) ==
    /\ alerts[k].status = "fired"
    /\ NotifyResolved(k)
    /\ alerts' = [alerts EXCEPT ![k] = Absent]

(* The condition of a rule. An uptime over no blocks is 0, and below any   *)
(* threshold.                                                              *)
Bad(r, s) ==
    CASE r = "validator_down" -> val[s].down
      [] r = "node_down" -> ~ node[s].healthy
      [] r = "validator_uptime" -> val[s].record # "good"

Wait(r) == IF r = "validator_uptime" THEN 0 ELSE FireAfter

CheckSampled(s) ==
    /\ Checking
    /\ rule \in Rules \ {"node_stall"}
    /\ s \in todo
    /\ LET k == <<rule, s>>
       IN  /\ \/ /\ Bad(rule, s)
                 /\ \/ StartTracking(k)
                    \/ KeepObserving(k, Wait(rule))
                    \/ Fire(k, Wait(rule))
              \/ /\ ~ Bad(rule, s)
                 /\ StopTracking(k) \/ Resolve(k)
           /\ Observed(k, Bad(rule, s))

(* checkNodeHeightStalledWithSnapshots, its branches in the code's order.  *)
StallKey(n) == <<"node_stall", n>>
TrackAt(n, h) == nodeHeight' = [nodeHeight EXCEPT ![n] = [known |-> TRUE, height |-> h, age |-> 0]]

(* An unfit node: its alert goes without a word, whether it was sent or not. *)
ResetStall(n) ==
    /\ Unfit(snaps[n])
    /\ alerts' = [alerts EXCEPT ![StallKey(n)] = Absent]
    /\ TrackAt(n, snaps[n].height)
    /\ open' = open \ {StallKey(n)}

FirstHeight(n) ==
    /\ ~ Unfit(snaps[n])
    /\ ~ nodeHeight[n].known
    /\ TrackAt(n, snaps[n].height)
    /\ UNCHANGED <<alerts, open>>

Advanced(n) == nodeHeight[n].known /\ snaps[n].height > nodeHeight[n].height

(* Mutation: an advance does not move lastAdvanceAt. *)
AdvanceHeightOnly(n) ==
    /\ ~ Unfit(snaps[n])
    /\ Advanced(n)
    /\ nodeHeight' = [nodeHeight EXCEPT ![n].height = snaps[n].height]
    /\ alerts' = [alerts EXCEPT ![StallKey(n)] = Absent]
    /\ open' = IF alerts[StallKey(n)].status = "fired" THEN open \ {StallKey(n)} ELSE open

AdvanceHeight(n) ==
    /\ ~ Unfit(snaps[n])
    /\ Advanced(n)
    /\ TrackAt(n, snaps[n].height)
    /\ alerts' = [alerts EXCEPT ![StallKey(n)] = Absent]
    /\ open' = IF alerts[StallKey(n)].status = "fired" THEN open \ {StallKey(n)} ELSE open

NoAdvance(n) == ~ Unfit(snaps[n]) /\ nodeHeight[n].known /\ ~ Advanced(n)

(* Mutation: a check without an advance moves lastAdvanceAt. *)
KeepMoving(n) ==
    /\ NoAdvance(n)
    /\ nodeHeight[n].age < FireAfter \/ alerts[StallKey(n)].status = "fired"
    /\ TrackAt(n, snaps[n].height)
    /\ UNCHANGED <<alerts, open>>

KeepWaiting(n) ==
    /\ NoAdvance(n)
    /\ nodeHeight[n].age < FireAfter \/ alerts[StallKey(n)].status = "fired"
    /\ UNCHANGED <<alerts, nodeHeight, open>>

(* The alert dates from the last advance. *)
FireStall(n) ==
    /\ NoAdvance(n)
    /\ nodeHeight[n].age >= FireAfter
    /\ alerts[StallKey(n)].status # "fired"
    /\ alerts' = [alerts EXCEPT ![StallKey(n)] = [status |-> "fired", age |-> nodeHeight[n].age]]
    /\ open' = open \cup {StallKey(n)}
    /\ UNCHANGED nodeHeight

CheckStall(n) ==
    /\ Checking
    /\ rule = "node_stall"
    /\ n \in todo
    /\ \/ ResetStall(n)
       \/ FirstHeight(n)
       \/ AdvanceHeight(n)
       \/ KeepWaiting(n)
       \/ FireStall(n)
    /\ todo' = todo \ {n}
    /\ UNCHANGED <<rule, left, snaps, lifeVars, worldVars, balance, streak, gaps>>

(* The end of a check: the file is replaced as a whole, or kept. *)
Save ==
    /\ Checking
    /\ todo = {}
    /\ left = {}
    /\ \/ disk' = alerts
       \/ IOFails /\ UNCHANGED disk
    /\ rule' = "wait"
    /\ snaps' = NoSnaps
    /\ UNCHANGED <<managerVars, left, todo, process, ctxDone, stops, losses, worldVars,
                   historyVars>>

-----------------------------------------------------------------------------
(* Shutdown, crashes and restarts *)

Cancel ==
    /\ process = "running"
    /\ ~ ctxDone
    /\ stops < MaxStops
    /\ ctxDone' = TRUE
    /\ UNCHANGED <<managerVars, checkVars, disk, process, stops, losses, worldVars, historyVars>>

StopChecks ==
    /\ process = "running"
    /\ ctxDone
    /\ rule = "wait"
    /\ rule' = "stopped"
    /\ UNCHANGED <<managerVars, left, todo, snaps, lifeVars, worldVars, historyVars>>

(* Main returns a second after cancel, whatever the goroutine is doing; or *)
(* the process crashes. The lost memory is kept for Start to compare.      *)
Die ==
    /\ process = "running"
    /\ stops < MaxStops
    /\ process' = "dead"
    /\ stops' = stops + 1
    /\ UNCHANGED <<managerVars, checkVars, disk, ctxDone, losses, worldVars, historyVars>>

Load(items) == items = disk \/ (IOFails /\ items = NoAlerts)

(* A new process loads the alerts, or none if the file cannot be read. The *)
(* heights are gone; validators are restored or found anew.                *)
Start ==
    /\ process = "dead"
    /\ Load(alerts')
    /\ losses' = IF alerts' = alerts THEN losses ELSE losses + 1
    /\ nodeHeight' = [n \in Nodes |-> NoTrack]
    /\ process' = "running"
    /\ ctxDone' = FALSE
    /\ rule' = "start"
    /\ left' = {}
    /\ todo' = {}
    /\ snaps' = NoSnaps
    /\ val' \in [Validators -> ValidatorStates]
    /\ node' \in [Nodes -> StartedNodes]
    /\ UNCHANGED <<disk, stops, historyVars>>

-----------------------------------------------------------------------------
CheckStep ==
    \/ \E d \in 0..MaxGap : BeginCheck(d)
    \/ \E r \in Rules : StartRule(r)
    \/ \E s \in Validators \cup Nodes : CheckSampled(s)
    \/ \E n \in Nodes : CheckStall(n)
    \/ Save

Next ==
    \/ \E v \in Validators : ProcessBlocks(v) \/ Reload(v)
    \/ \E n \in Nodes : CheckNode(n) \/ UpdateHeight(n)
    \/ CheckStep
    \/ Cancel
    \/ StopChecks
    \/ Die
    \/ Start

Spec == Init /\ [][Next]_vars

(* The ticker fires again and again, and a check runs to its end: each     *)
(* request of a notifier has a timeout of five seconds. The exception is   *)
(* the copy of the validators, for which a rule waits until a reload gives *)
(* the registry's lock back. Time passes: every check takes a tick of its  *)
(* own, so not all of them begin in the same one.                          *)
CheckRuns ==
    \/ \E d \in 0..MaxGap : BeginCheck(d)
    \/ \E r \in NodeRules : StartRule(r)
    \/ \E s \in Validators \cup Nodes : CheckSampled(s)
    \/ \E n \in Nodes : CheckStall(n)
    \/ Save

FairSpec ==
    /\ Spec
    /\ WF_vars(CheckRuns)
    /\ SF_vars(\E d \in 1..MaxGap : BeginCheck(d))

(* What the code does not see to: no reload holds the registry's lock for  *)
(* ever. Its calls of the contract have no timeout.                        *)
ReloadsEnd == WF_vars(\E r \in ValidatorRules : StartRule(r))

-----------------------------------------------------------------------------
(* Properties *)

(* Type correctness. *)
Items == [status : {"absent", "tracked", "fired"}, age : Ages]
TypeOK ==
    /\ alerts \in [Keys -> Items]
    /\ nodeHeight \in [Nodes -> [known : BOOLEAN, height : 0..MaxHeight, age : Ages]]
    /\ disk \in [Keys -> Items]
    /\ process \in {"running", "dead"}
    /\ ctxDone \in BOOLEAN
    /\ rule \in Rules \cup {"start", "wait", "begin", "stopped"}
    /\ left \in SUBSET Rules
    /\ todo \in SUBSET (Validators \cup Nodes)
    /\ snaps \in [Nodes -> NodeStates]
    /\ val \in [Validators -> ValidatorStates]
    /\ node \in [Nodes -> NodeStates]
    /\ stops \in 0..MaxStops
    /\ losses \in 0..stops
    /\ balance \in [SampledKeys -> Int]
    /\ open \in SUBSET Keys
    /\ streak \in [TimedKeys -> [bad : BOOLEAN, age : Ages]]
    /\ gaps \in SUBSET ({"validator_down"} \X Validators)

Fired(k) == IF alerts[k].status = "fired" THEN 1 ELSE 0

(* Firing and resolved notifications of a subject alternate, over restarts *)
(* too, as the state file carries on what the last process has announced.  *)
(* Only a restart that lost a change of the alerts (the process died       *)
(* between a notification and the save, or a save failed) may repeat a     *)
(* notification or leave one out, one for every such restart.              *)
NotificationsBalanced ==
    \A k \in SampledKeys : balance[k] - Fired(k) \in (-losses)..losses

(* A "down" notification goes out only when every check of the last        *)
(* FireAfter has looked at the subject and found it down; a restart in     *)
(* between counts as time down, unless it lost a change of the alerts. For *)
(* nodes this is without exception. For a validator it is not: the alert   *)
(* of one that a reload drops and a later reload lists again goes on with  *)
(* its old time (gaps), and may be sent at the first check that looks.     *)
FiresAfterDuration ==
    [][\A k \in TimedKeys :
          /\ losses = 0
          /\ k \notin open
          /\ k \in open'
          /\ k \notin gaps
          => streak'[k].bad /\ streak'[k].age >= FireAfter]_vars

(* A stall is announced, for the first time or again after its alert was   *)
(* dropped or lost, only if, when the statuses were read, the height had   *)
(* not moved and no check had found the node unfit for FireAfter.          *)
StallIsReal ==
    [][\A n \in Nodes :
          /\ process = "running"
          /\ alerts[StallKey(n)].status # "fired"
          /\ alerts'[StallKey(n)].status = "fired"
          => snaps[n].calm >= FireAfter]_vars

(* Once all restarts are over, and if none lost anything and no reload     *)
(* holds the registry's lock for ever, a subject that stays bad ends up    *)
(* announced, and one that stays well does not.                            *)
Observable(r, s) ==
    /\ process = "running"
    /\ ~ ctxDone
    /\ losses = 0
    /\ r \in EnabledRules
    /\ r \in ValidatorRules => val[s].listed /\ ShouldAlertValidator(s)

StatusAnnounced ==
    ReloadsEnd => \A k \in SampledKeys : \A bad \in BOOLEAN :
        <>[](Observable(k[1], k[2]) /\ Bad(k[1], k[2]) = bad) => <>[]((k \in open) = bad)

(* A fit node whose height never moves again ends up announced, too, under *)
(* the same conditions.                                                    *)
StallAnnounced ==
    ReloadsEnd => \A n \in Nodes, h \in 1..MaxHeight :
        /\ FireAfter > 0
        /\ "node_stall" \in EnabledRules
        /\ <>[]( /\ process = "running" /\ ~ ctxDone /\ losses = 0
                 /\ ~ Unfit(node[n]) /\ node[n].height = h)
        => <>[](StallKey(n) \in open)
=============================================================================
