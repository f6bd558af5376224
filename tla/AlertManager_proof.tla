------------------------- MODULE AlertManager_proof -------------------------
(***************************************************************************)
(* Proofs of the safety properties of AlertManager, for any sets of        *)
(* validators and nodes, any enabled rules, any fire_after and any number  *)
(* of restarts.                                                            *)
(***************************************************************************)
EXTENDS AlertManager, TLAPS

-----------------------------------------------------------------------------
(* The inductive invariant *)

(* The subjects that are left belong to the rule that is checked.          *)
SubjectsFit ==
    /\ rule \in ValidatorRules => todo \subseteq Validators
    /\ rule \in NodeRules => todo \subseteq Nodes
    /\ rule \notin Rules => todo = {}

(* Every restart may lose something, the next one included.                *)
LossesCounted == process = "dead" => losses < stops

(* What is tracked or announced has been observed since then by every      *)
(* check, unless one of them passed it over.                               *)
StreakCovers ==
    losses = 0 =>
        \A k \in TimedKeys :
            alerts[k].status # "absent" /\ k \notin gaps
                => streak[k].bad /\ alerts[k].age <= streak[k].age

(* A stall check of this node is about to use its snapshot.                *)
Pending(n) == rule = "node_stall" /\ n \in todo

(* A tracked height is one that the node has had, and while the node still *)
(* has it, it has been calm since the track began; an unfit node whose     *)
(* snapshot is still to be looked at is the exception.                     *)
TrackOf(n, s) ==
    nodeHeight[n].known /\ s.height <= nodeHeight[n].height => nodeHeight[n].age <= s.calm

TracksCalm ==
    \A n \in Nodes :
        /\ nodeHeight[n].known => nodeHeight[n].height <= node[n].height
        /\ Pending(n) => snaps[n].height <= node[n].height
        /\ Pending(n) => Unfit(snaps[n]) \/ (TrackOf(n, snaps[n]) /\ TrackOf(n, node[n]))
        /\ Pending(n) \/ TrackOf(n, node[n])

IInv ==
    /\ TypeOK
    /\ SubjectsFit
    /\ LossesCounted
    /\ NotificationsBalanced
    /\ StreakCovers
    /\ TracksCalm

-----------------------------------------------------------------------------
(* Ages *)

LEMMA AgedType ==
    ASSUME NEW a \in Ages, NEW d \in Nat
    PROVE  Aged(a, d) \in Ages
BY AlertAssumption DEF Aged, Ages

(* Ages that grow by the same time keep their order.                       *)
LEMMA AgedMonotonic ==
    ASSUME NEW a \in Ages, NEW b \in Ages, NEW d \in Nat, a <= b
    PROVE  Aged(a, d) <= Aged(b, d)
BY AlertAssumption DEF Aged, Ages

LEMMA ZeroAge == 0 \in Ages
BY AlertAssumption DEF Ages

LEMMA ItemTypes == Absent \in Items /\ Tracked \in Items /\ NoAlerts \in [Keys -> Items]
BY ZeroAge DEF Absent, Tracked, NoAlerts, Items

LEMMA KeyTypes ==
    /\ \A r \in ValidatorRules, v \in Validators : <<r, v>> \in SampledKeys
    /\ \A n \in Nodes : <<"node_down", n>> \in SampledKeys /\ StallKey(n) \in StallKeys
    /\ \A n \in Nodes : StallKey(n) \notin SampledKeys
    /\ SampledKeys \subseteq Keys /\ StallKeys \subseteq Keys /\ TimedKeys \subseteq SampledKeys
BY DEF SampledKeys, StallKeys, TimedKeys, Keys, StallKey, ValidatorRules

LEMMA WorldTypes ==
    /\ NewValidator \in ValidatorStates
    /\ StartedNodes \subseteq NodeStates
    /\ NoSnaps \in [Nodes -> NodeStates]
    /\ NoTrack \in [known : BOOLEAN, height : 0..MaxHeight, age : Ages]
BY ZeroAge, AlertAssumption
DEF NewValidator, ValidatorStates, StartedNodes, NodeStates, NoSnaps, NoTrack

-----------------------------------------------------------------------------
LEMMA InitInv == Init => IInv
<1> SUFFICES ASSUME Init PROVE IInv
  OBVIOUS
<1> USE DEF Init
<1>1. TypeOK
  <2>1. /\ alerts \in [Keys -> Items]
        /\ disk \in [Keys -> Items]
    BY ItemTypes
  <2>2. /\ nodeHeight \in [Nodes -> [known : BOOLEAN, height : 0..MaxHeight, age : Ages]]
        /\ snaps \in [Nodes -> NodeStates]
        /\ val \in [Validators -> ValidatorStates]
        /\ node \in [Nodes -> NodeStates]
    BY WorldTypes
  <2>3. /\ balance \in [SampledKeys -> Int]
        /\ streak \in [TimedKeys -> [bad : BOOLEAN, age : Ages]] /\ gaps = {}
        /\ stops \in 0..MaxStops
        /\ losses \in 0..stops
    BY ZeroAge, AlertAssumption DEF Unobserved
  <2>4. QED BY <2>1, <2>2, <2>3 DEF TypeOK
<1>2. \A k \in Keys : alerts[k].status = "absent"
  BY DEF NoAlerts, Absent
<1>3. SubjectsFit /\ LossesCounted
  BY DEF SubjectsFit, LossesCounted
<1>4. NotificationsBalanced /\ StreakCovers
  BY <1>2, KeyTypes DEF NotificationsBalanced, StreakCovers, Fired
<1>5. TracksCalm
  BY DEF TracksCalm, TrackOf, Pending, NoTrack
<1>6. QED BY <1>1, <1>3, <1>4, <1>5 DEF IInv

-----------------------------------------------------------------------------
(* Steps of the world *)

(* A step that changes neither the alerts nor the history keeps what the   *)
(* invariant says of them.                                                 *)
LEMMA QuietStep ==
    ASSUME NotificationsBalanced, StreakCovers,
           UNCHANGED <<alerts, losses, balance, streak, gaps>>
    PROVE  NotificationsBalanced' /\ StreakCovers'
BY DEF NotificationsBalanced, StreakCovers, Fired

LEMMA ValidatorStep ==
    ASSUME IInv, NEW v \in Validators, ProcessBlocks(v) \/ Reload(v)
    PROVE  IInv'
<1> USE DEF IInv
<1>1. UNCHANGED <<managerVars, checkVars, lifeVars, node, historyVars>>
  BY DEF ProcessBlocks, Reload
<1>2. val' \in [Validators -> ValidatorStates]
  <2>1. val \in [Validators -> ValidatorStates] /\ val[v] \in ValidatorStates
    BY DEF TypeOK
  <2>2. ASSUME NEW d \in BOOLEAN, NEW r \in {"low", "good"}
        PROVE  [val[v] EXCEPT !.down = d, !.record = r] \in ValidatorStates
    BY <2>1 DEF ValidatorStates
  <2>3. [val[v] EXCEPT !.listed = FALSE] \in ValidatorStates
    BY <2>1 DEF ValidatorStates
  <2>4. \E s \in ValidatorStates : val' = [val EXCEPT ![v] = s]
    <3>1. CASE ProcessBlocks(v)
      <4>1. PICK d \in BOOLEAN, r \in {"low", "good"} :
               val' = [val EXCEPT ![v] = [@ EXCEPT !.down = d, !.record = r]]
        BY <3>1 DEF ProcessBlocks
      <4>2. QED BY <2>2, <4>1
    <3>2. CASE Reload(v)
      BY <2>3, <3>2, WorldTypes DEF Reload
    <3>3. QED BY <3>1, <3>2
  <2>5. QED BY <2>1, <2>4
<1>3. TypeOK'
  BY <1>1, <1>2 DEF TypeOK, managerVars, checkVars, lifeVars, historyVars
<1>4. SubjectsFit' /\ LossesCounted' /\ NotificationsBalanced' /\ StreakCovers'
  BY <1>1, QuietStep DEF SubjectsFit, LossesCounted, managerVars, checkVars, lifeVars,
     historyVars
<1>5. TracksCalm'
  BY <1>1 DEF TracksCalm, TrackOf, Pending, managerVars, checkVars
<1>6. QED BY <1>3, <1>4, <1>5

LEMMA NodeStep ==
    ASSUME IInv, NEW n \in Nodes, CheckNode(n) \/ UpdateHeight(n)
    PROVE  IInv'
<1> USE DEF IInv
<1>1. UNCHANGED <<managerVars, checkVars, lifeVars, val, historyVars>>
  BY DEF CheckNode, UpdateHeight
<1>2. \A m \in Nodes :
         /\ node'[m] \in NodeStates
         /\ \/ node'[m].height = node[m].height /\ node'[m].calm = node[m].calm
            \/ node'[m].height > node[m].height
  <2>1. node \in [Nodes -> NodeStates] /\ \A m \in Nodes : node[m] \in NodeStates
    BY DEF TypeOK
  <2>2. CASE CheckNode(n)
    <3>1. PICK h \in BOOLEAN, s \in BOOLEAN :
             node' = [node EXCEPT ![n] = [@ EXCEPT !.healthy = h, !.syncing = s]]
      <4>1. CASE node' = [node EXCEPT ![n].healthy = FALSE]
        <5>1. node[n].syncing \in BOOLEAN
          BY <2>1 DEF NodeStates
        <5>2. [node[n] EXCEPT !.healthy = FALSE]
                = [node[n] EXCEPT !.healthy = FALSE, !.syncing = node[n].syncing]
          BY <2>1 DEF NodeStates
        <5>3. QED BY <4>1, <5>1, <5>2
      <4>2. QED BY <2>2, <4>1 DEF CheckNode
    <3>2. QED BY <2>1, <3>1 DEF NodeStates
  <2>3. CASE UpdateHeight(n)
    <3>1. PICK h \in 1..MaxHeight :
             /\ h > node[n].height
             /\ node' = [node EXCEPT ![n] = [@ EXCEPT !.height = h, !.calm = 0]]
      BY <2>3 DEF UpdateHeight
    <3>2. h \in 0..MaxHeight
      BY AlertAssumption
    <3>3. QED BY <2>1, <3>1, <3>2, ZeroAge DEF NodeStates
  <2>4. QED BY <2>2, <2>3
<1>3. TypeOK'
  <2>1. node' \in [Nodes -> NodeStates]
    BY <1>2 DEF CheckNode, UpdateHeight, TypeOK
  <2>2. QED BY <1>1, <2>1 DEF TypeOK, managerVars, checkVars, lifeVars, historyVars
<1>4. SubjectsFit' /\ LossesCounted' /\ NotificationsBalanced' /\ StreakCovers'
  BY <1>1, QuietStep DEF SubjectsFit, LossesCounted, managerVars, checkVars, lifeVars,
     historyVars
<1>5. TracksCalm'
  <2>1. UNCHANGED <<nodeHeight, snaps, rule, todo>>
    BY <1>1 DEF managerVars, checkVars
  <2>2. \A m \in Nodes :
           /\ nodeHeight[m].height \in Nat
           /\ node[m].height \in Nat /\ node'[m].height \in Nat
           /\ snaps[m].height \in Nat
    BY <1>2, AlertAssumption DEF TypeOK, NodeStates
  <2>3. QED BY <1>2, <2>1, <2>2 DEF TracksCalm, TrackOf, Pending
<1>6. QED BY <1>3, <1>4, <1>5

-----------------------------------------------------------------------------
(* The course of a check *)

LEMMA BeginCheckStep ==
    ASSUME IInv, NEW d \in 0..MaxGap, BeginCheck(d)
    PROVE  IInv'
<1> USE DEF IInv
<1>1. /\ alerts' = [k \in Keys |-> IF alerts[k].status = "absent" THEN Absent
                                   ELSE [alerts[k] EXCEPT !.age = Aged(@, d)]]
      /\ disk' = [k \in Keys |-> IF disk[k].status = "absent" THEN Absent
                                 ELSE [disk[k] EXCEPT !.age = Aged(@, d)]]
      /\ nodeHeight' = [n \in Nodes |-> [nodeHeight[n] EXCEPT !.age = Aged(@, d)]]
      /\ node' = [n \in Nodes |-> [node[n] EXCEPT !.calm = Aged(@, d)]]
      /\ streak' = [k \in TimedKeys |-> [streak[k] EXCEPT !.age = Aged(@, d)]]
  BY DEF BeginCheck
<1>2. /\ process = "running" /\ rule \in {"start", "wait"} /\ rule' = "begin"
      /\ left' = EnabledRules
      /\ UNCHANGED <<todo, snaps, process, ctxDone, stops, losses, val, balance, open, gaps>>
  BY DEF BeginCheck
<1>3. d \in Nat
  BY AlertAssumption
<1>4. \A i \in Items : [i EXCEPT !.age = Aged(@, d)] \in Items
  BY <1>3, AgedType DEF Items
<1>5. TypeOK'
  <2>1. alerts' \in [Keys -> Items] /\ disk' \in [Keys -> Items]
    BY <1>1, <1>4, ItemTypes DEF TypeOK
  <2>2. nodeHeight' \in [Nodes -> [known : BOOLEAN, height : 0..MaxHeight, age : Ages]]
    BY <1>1, <1>3, AgedType DEF TypeOK
  <2>3. node' \in [Nodes -> NodeStates]
    BY <1>1, <1>3, AgedType DEF TypeOK, NodeStates
  <2>4. streak' \in [TimedKeys -> [bad : BOOLEAN, age : Ages]]
    BY <1>1, <1>3, AgedType DEF TypeOK
  <2>5. QED BY <1>2, <2>1, <2>2, <2>3, <2>4, AlertAssumption DEF TypeOK
<1>6. SubjectsFit' /\ LossesCounted'
  BY <1>2 DEF SubjectsFit, LossesCounted, Rules, ValidatorRules, NodeRules
<1>7. \A k \in SampledKeys :
         /\ k \in Keys /\ alerts[k] \in Items
         /\ alerts'[k].status = alerts[k].status
         /\ alerts[k].status # "absent" => alerts'[k].age = Aged(alerts[k].age, d)
  BY <1>1, KeyTypes DEF TypeOK, Items, Absent
<1>8. NotificationsBalanced'
  BY <1>2, <1>7 DEF NotificationsBalanced, Fired
<1>9. StreakCovers'
  <2>1. \A k \in TimedKeys :
           /\ k \in SampledKeys /\ alerts[k].age \in Ages /\ streak[k].age \in Ages
           /\ streak'[k].bad = streak[k].bad /\ streak'[k].age = Aged(streak[k].age, d)
    BY <1>1, <1>7, KeyTypes DEF TypeOK, Items
  <2>2. QED BY <1>2, <1>3, <1>7, <2>1, AgedMonotonic DEF StreakCovers
<1>10. TracksCalm'
  <2>1. \A n \in Nodes :
           /\ ~ Pending(n) /\ ~ Pending(n)'
           /\ nodeHeight'[n].known = nodeHeight[n].known
           /\ nodeHeight'[n].height = nodeHeight[n].height
           /\ nodeHeight'[n].age = Aged(nodeHeight[n].age, d)
           /\ node'[n].height = node[n].height
           /\ node'[n].calm = Aged(node[n].calm, d)
           /\ nodeHeight[n].age \in Ages /\ node[n].calm \in Ages
    BY <1>1, <1>2 DEF Pending, TypeOK, NodeStates
  <2>2. QED BY <1>3, <2>1, AgedMonotonic DEF TracksCalm, TrackOf
<1>11. QED BY <1>5, <1>6, <1>8, <1>9, <1>10

LEMMA StartRuleStep ==
    ASSUME IInv, NEW r \in Rules, StartRule(r)
    PROVE  IInv'
<1> USE DEF IInv
<1>1. /\ todo = {} /\ rule' = r /\ left' = left \ {r} /\ todo' = Subjects(r)
      /\ streak' = [k \in TimedKeys |-> IF k \in PassedOver(r) THEN Unobserved ELSE streak[k]]
      /\ gaps' = gaps \cup {k \in PassedOver(r) : streak[k].bad}
      /\ UNCHANGED <<managerVars, lifeVars, val, balance, open>>
  BY DEF StartRule
<1>2. Subjects(r) \subseteq (IF r \in ValidatorRules THEN Validators ELSE Nodes)
  BY DEF Subjects
<1>3. SubjectsFit' /\ LossesCounted'
  BY <1>1, <1>2 DEF SubjectsFit, LossesCounted, lifeVars, Rules, ValidatorRules, NodeRules
<1>4. NotificationsBalanced' /\ StreakCovers'
  <2>1. NotificationsBalanced'
    BY <1>1 DEF NotificationsBalanced, Fired, managerVars, lifeVars
  <2>2. ASSUME losses = 0, NEW k \in TimedKeys, alerts[k].status # "absent", k \notin gaps'
        PROVE  streak'[k].bad /\ alerts[k].age <= streak'[k].age
    <3>1. streak[k].bad /\ alerts[k].age <= streak[k].age
      BY <1>1, <2>2 DEF StreakCovers
    <3>2. k \notin PassedOver(r)
      BY <1>1, <2>2, <3>1
    <3>3. QED BY <1>1, <3>1, <3>2
  <2>3. QED BY <1>1, <2>1, <2>2 DEF StreakCovers, managerVars, lifeVars
<1>5. node' \in [Nodes -> NodeStates] /\ snaps' \in [Nodes -> NodeStates]
  <2>1. \A n \in Nodes : [node[n] EXCEPT !.calm = 0] \in NodeStates
    BY ZeroAge DEF TypeOK, NodeStates
  <2>2. CASE r = "node_stall"
    <3>1. /\ node' = [n \in Nodes |-> IF Unfit(node[n]) THEN [node[n] EXCEPT !.calm = 0]
                                      ELSE node[n]]
          /\ snaps' = node'
      BY <2>2 DEF StartRule
    <3>2. \A n \in Nodes : node[n] \in NodeStates
      BY DEF TypeOK
    <3>3. QED BY <2>1, <3>1, <3>2
  <2>3. CASE r # "node_stall"
    BY <2>3, WorldTypes DEF StartRule, TypeOK
  <2>4. QED BY <2>2, <2>3
<1>6. TypeOK'
  <2>1. streak' \in [TimedKeys -> [bad : BOOLEAN, age : Ages]]
    BY <1>1, ZeroAge DEF TypeOK, Unobserved
  <2>2. PassedOver(r) \subseteq {"validator_down"} \X Validators
    BY DEF PassedOver, TimedKeys, Subjects, ValidatorRules
  <2>3. gaps' \in SUBSET ({"validator_down"} \X Validators)
    BY <1>1, <2>2 DEF TypeOK
  <2>4. QED BY <1>1, <1>2, <1>5, <2>1, <2>3 DEF TypeOK, managerVars, lifeVars, Rules
<1>7. TracksCalm'
  <2>1. \A n \in Nodes :
           /\ nodeHeight[n].known => nodeHeight[n].height <= node[n].height
           /\ TrackOf(n, node[n])
    BY <1>1 DEF TracksCalm, Pending
  <2>2. CASE r = "node_stall"
    <3>1. /\ node' = [n \in Nodes |-> IF Unfit(node[n]) THEN [node[n] EXCEPT !.calm = 0]
                                      ELSE node[n]]
          /\ snaps' = node'
      BY <2>2 DEF StartRule
    <3>2. \A n \in Nodes :
             /\ node'[n].height = node[n].height
             /\ Unfit(node'[n]) \/ node'[n] = node[n]
             /\ node[n].height \in Nat
      BY <3>1, AlertAssumption DEF Unfit, TypeOK, NodeStates
    <3>3. \A n \in Nodes : FireAfter = 0 => nodeHeight[n].age = 0 /\ node'[n].calm = 0
      BY <1>5, AlertAssumption DEF TypeOK, NodeStates, Ages
    <3>4. ASSUME NEW n \in Nodes, ~ Pending(n)' PROVE TrackOf(n, node[n])'
      <4>1. FireAfter = 0
        BY <1>1, <2>2, <3>4 DEF Pending, Subjects, ValidatorRules
      <4>2. QED BY <1>1, <3>3, <4>1 DEF TrackOf, managerVars
    <3>5. \A n \in Nodes : Unfit(snaps[n])' \/ (TrackOf(n, snaps[n])' /\ TrackOf(n, node[n])')
      BY <1>1, <2>1, <3>1, <3>2 DEF TrackOf, managerVars
    <3>6. QED BY <1>1, <2>1, <3>1, <3>2, <3>4, <3>5 DEF TracksCalm, managerVars
  <2>3. CASE r # "node_stall"
    BY <1>1, <2>1, <2>3 DEF StartRule, TracksCalm, TrackOf, Pending, managerVars
  <2>4. QED BY <2>2, <2>3
<1>8. QED BY <1>3, <1>4, <1>6, <1>7

-----------------------------------------------------------------------------
(* The check of a subject *)

(* What each branch of a sampled rule does to the item of its key.         *)
Branch(k, bad, wait) ==
    \/ bad /\ (StartTracking(k) \/ KeepObserving(k, wait) \/ Fire(k, wait))
    \/ ~ bad /\ (StopTracking(k) \/ Resolve(k))

LEMMA BranchTypes ==
    ASSUME TypeOK, NEW k \in SampledKeys, NEW bad \in BOOLEAN, NEW wait, Branch(k, bad, wait)
    PROVE  /\ \E i \in Items : alerts' = [alerts EXCEPT ![k] = i]
           /\ balance' \in [SampledKeys -> Int]
           /\ open' \in SUBSET Keys
<1>1. k \in Keys /\ alerts[k] \in Items /\ alerts = [alerts EXCEPT ![k] = alerts[k]]
  BY KeyTypes DEF TypeOK
<1>2. [alerts[k] EXCEPT !.status = "fired"] \in Items
  BY <1>1 DEF Items
<1>3. \E i \in Items : alerts' = [alerts EXCEPT ![k] = i]
  <2>1. CASE StartTracking(k)
    BY <2>1, ItemTypes DEF StartTracking
  <2>2. CASE KeepObserving(k, wait)
    BY <2>2, <1>1 DEF KeepObserving
  <2>3. CASE Fire(k, wait)
    <3>1. alerts' = [alerts EXCEPT ![k] = [@ EXCEPT !.status = "fired"]]
      BY <2>3 DEF Fire
    <3>2. QED BY <3>1, <1>2
  <2>4. CASE StopTracking(k) \/ Resolve(k)
    BY <2>4, ItemTypes DEF StopTracking, Resolve
  <2>5. QED BY <2>1, <2>2, <2>3, <2>4 DEF Branch
<1>4. balance' \in [SampledKeys -> Int] /\ open' \in SUBSET Keys
  BY <1>1 DEF Branch, StartTracking, KeepObserving, Fire, StopTracking, Resolve, NotifyFiring,
     NotifyResolved, TypeOK
<1>5. QED BY <1>3, <1>4

(* A branch keeps the balance, for its key and for the others.             *)
LEMMA BranchBalance ==
    ASSUME TypeOK, NotificationsBalanced, UNCHANGED losses,
           NEW k \in SampledKeys, NEW bad \in BOOLEAN, NEW wait, Branch(k, bad, wait)
    PROVE  NotificationsBalanced'
<1>1. k \in Keys /\ \A j \in SampledKeys : j \in Keys /\ balance[j] \in Int
  BY KeyTypes DEF TypeOK
<1>2. ASSUME NEW j \in SampledKeys PROVE balance'[j] - Fired(j)' = balance[j] - Fired(j)
  <2>1. CASE j # k
    BY <1>1, <2>1 DEF Branch, StartTracking, KeepObserving, Fire, StopTracking, Resolve,
       NotifyFiring, NotifyResolved, TypeOK, Fired, Items
  <2>2. CASE j = k
    <3>1. CASE StartTracking(k) \/ KeepObserving(k, wait) \/ StopTracking(k)
      BY <1>1, <2>2, <3>1 DEF StartTracking, KeepObserving, StopTracking, TypeOK, Fired,
         Items, Tracked, Absent
    <3>2. CASE Fire(k, wait)
      BY <1>1, <2>2, <3>2 DEF Fire, NotifyFiring, TypeOK, Fired, Items
    <3>3. CASE Resolve(k)
      BY <1>1, <2>2, <3>3 DEF Resolve, NotifyResolved, TypeOK, Fired, Items, Absent
    <3>4. QED BY <3>1, <3>2, <3>3 DEF Branch
  <2>3. QED BY <2>1, <2>2
<1>3. QED BY <1>2 DEF NotificationsBalanced

(* What an observation leaves of the history of its key.                   *)
LEMMA ObservedStreak ==
    ASSUME TypeOK, NEW k \in TimedKeys, NEW bad \in BOOLEAN, Observed(k, bad)
    PROVE  /\ streak'[k].bad = bad
           /\ streak'[k].age \in Ages
           /\ streak[k].bad = bad => streak'[k] = streak[k]
           /\ \A j \in TimedKeys : j # k => streak'[j] = streak[j]
<1>1. /\ streak[k] \in [bad : BOOLEAN, age : Ages]
      /\ \A j \in TimedKeys : streak'[j] = IF j = k /\ streak[j].bad # bad
                                          THEN [bad |-> bad, age |-> 0] ELSE streak[j]
  BY DEF Observed, TypeOK
<1>2. CASE streak[k].bad = bad
  BY <1>1, <1>2
<1>3. CASE streak[k].bad # bad
  <2>1. streak'[k] = [bad |-> bad, age |-> 0]
    BY <1>1, <1>3
  <2>2. streak'[k].bad = bad /\ streak'[k].age = 0
    BY <2>1
  <2>3. QED BY <1>1, <1>3, <2>2, ZeroAge
<1>4. QED BY <1>2, <1>3

(* An item exists while the observations are bad, and is not older.        *)
LEMMA BranchStreak ==
    ASSUME TypeOK, StreakCovers, UNCHANGED losses,
           NEW k \in SampledKeys, NEW bad \in BOOLEAN, NEW wait, Branch(k, bad, wait),
           Observed(k, bad)
    PROVE  StreakCovers'
<1> SUFFICES ASSUME losses = 0, NEW j \in TimedKeys, alerts'[j].status # "absent", j \notin gaps'
             PROVE  streak'[j].bad /\ alerts'[j].age <= streak'[j].age
  BY DEF StreakCovers
<1>1. k \in Keys /\ j \in Keys
  BY KeyTypes
<1>2. alerts[j].status # "absent" /\ j \notin gaps
         => streak[j].bad /\ alerts[j].age <= streak[j].age
  BY DEF StreakCovers
<1>3. CASE j # k
  <2>1. alerts'[j] = alerts[j]
    BY <1>1, <1>3 DEF Branch, StartTracking, KeepObserving, Fire, StopTracking, Resolve, TypeOK
  <2>2. streak'[j] = streak[j] /\ j \notin gaps
    BY <1>3 DEF Observed, TypeOK
  <2>3. QED BY <1>2, <2>1, <2>2
<1>4. CASE j = k
  <2>1. streak[k] \in [bad : BOOLEAN, age : Ages] /\ alerts[k] \in Items
    BY <1>1, <1>4 DEF TypeOK
  <2>2. /\ streak'[k].bad = bad /\ streak'[k].age \in Ages
        /\ streak[k].bad = bad => streak'[k] = streak[k]
    BY <1>4, ObservedStreak
  <2>3. CASE ~ bad
    BY <1>1, <1>4, <2>3 DEF Branch, StopTracking, Resolve, Absent, TypeOK
  <2>4. CASE bad /\ StartTracking(k)
    <3>1. alerts'[k].age = 0
      BY <1>1, <2>4 DEF StartTracking, Tracked, TypeOK
    <3>2. streak'[k].bad
      BY <2>2, <2>4
    <3>3. streak'[k].age >= 0
      BY <2>2, AlertAssumption DEF Ages
    <3>4. streak'[k].age \in Int
      BY <2>2, AlertAssumption DEF Ages
    <3>5. QED BY <1>4, <3>1, <3>2, <3>3, <3>4
  <2>5. CASE bad /\ (KeepObserving(k, wait) \/ Fire(k, wait))
    <3>1. alerts[k].status # "absent" /\ alerts'[k].age = alerts[k].age
      BY <1>1, <2>1, <2>5 DEF KeepObserving, Fire, TypeOK, Items
    <3>2. k \notin gaps
      BY <1>4, <2>5 DEF Observed
    <3>3. streak[k].bad /\ alerts[k].age <= streak[k].age
      BY <1>2, <1>4, <3>1, <3>2
    <3>4. streak[k].bad = bad
      BY <2>1, <2>5, <3>3
    <3>5. QED BY <1>4, <2>2, <3>1, <3>3, <3>4
  <2>6. QED BY <2>3, <2>4, <2>5 DEF Branch
<1>5. QED BY <1>3, <1>4

(* The key of a subject that is checked is one of the rule's.              *)
LEMMA CheckSampledKey ==
    ASSUME IInv, NEW s, CheckSampled(s)
    PROVE  /\ <<rule, s>> \in SampledKeys
           /\ Bad(rule, s) \in BOOLEAN
           /\ Branch(<<rule, s>>, Bad(rule, s), Wait(rule))
           /\ Observed(<<rule, s>>, Bad(rule, s))
<1>1. /\ rule \in Rules \ {"node_stall"} /\ s \in todo
      /\ rule \in ValidatorRules => s \in Validators
      /\ rule \in NodeRules => s \in Nodes
  BY DEF CheckSampled, IInv, SubjectsFit
<1>2. <<rule, s>> \in SampledKeys
  BY <1>1, KeyTypes DEF Rules, NodeRules
<1>3. Bad(rule, s) \in BOOLEAN
  <2>1. CASE rule = "validator_down"
    BY <1>1, <2>1 DEF Bad, IInv, TypeOK, ValidatorStates, ValidatorRules
  <2>2. CASE rule = "node_down"
    BY <1>1, <2>2 DEF Bad, IInv, TypeOK, NodeStates, NodeRules
  <2>3. CASE rule = "validator_uptime"
    BY <2>3 DEF Bad
  <2>4. QED BY <1>1, <2>1, <2>2, <2>3 DEF Rules, ValidatorRules, NodeRules
<1>4. QED BY <1>2, <1>3 DEF CheckSampled, Branch

LEMMA CheckSampledStep ==
    ASSUME IInv, NEW s, CheckSampled(s)
    PROVE  IInv'
<1> DEFINE k == <<rule, s>>
<1>1. /\ k \in SampledKeys
      /\ Bad(rule, s) \in BOOLEAN
      /\ Branch(k, Bad(rule, s), Wait(rule))
      /\ Observed(k, Bad(rule, s))
  BY CheckSampledKey
<1> HIDE DEF k
<1>2. /\ todo' \subseteq todo /\ rule # "node_stall"
      /\ UNCHANGED <<nodeHeight, rule, left, snaps, lifeVars, worldVars>>
  BY <1>1 DEF Observed, CheckSampled
<1> USE DEF IInv
<1>3. TypeOK'
  <2>1. alerts' \in [Keys -> Items] /\ balance' \in [SampledKeys -> Int] /\ open' \in SUBSET Keys
    BY <1>1, BranchTypes DEF TypeOK
  <2>2. streak' \in [TimedKeys -> [bad : BOOLEAN, age : Ages]]
    BY <1>1, ZeroAge DEF Observed, TypeOK
  <2>4. gaps' \in SUBSET ({"validator_down"} \X Validators)
    BY <1>1 DEF Observed, TypeOK
  <2>3. QED BY <1>2, <2>1, <2>2, <2>4 DEF TypeOK, lifeVars, worldVars
<1>4. SubjectsFit' /\ LossesCounted'
  BY <1>2 DEF SubjectsFit, LossesCounted, lifeVars
<1>5. NotificationsBalanced'
  BY <1>1, <1>2, BranchBalance DEF lifeVars
<1>6. StreakCovers'
  BY <1>1, <1>2, BranchStreak DEF lifeVars
<1>7. TracksCalm'
  BY <1>2 DEF TracksCalm, TrackOf, Pending, worldVars
<1>8. QED BY <1>3, <1>4, <1>5, <1>6, <1>7

LEMMA CheckStallStep ==
    ASSUME IInv, NEW n \in Nodes, CheckStall(n)
    PROVE  IInv'
<1> USE DEF IInv
<1>1. /\ rule = "node_stall" /\ n \in todo /\ todo' = todo \ {n}
      /\ UNCHANGED <<rule, left, snaps, lifeVars, worldVars, balance, streak, gaps>>
  BY DEF CheckStall
<1>2. StallKey(n) \in Keys /\ StallKey(n) \notin SampledKeys
  BY KeyTypes
<1>3. \/ UNCHANGED alerts
      \/ alerts' = [alerts EXCEPT ![StallKey(n)] = Absent]
      \/ alerts' = [alerts EXCEPT ![StallKey(n)] = [status |-> "fired", age |-> nodeHeight[n].age]]
  BY DEF CheckStall, ResetStall, FirstHeight, AdvanceHeight, KeepWaiting, FireStall
<1>4. alerts' \in [Keys -> Items]
  <2>1. [status |-> "fired", age |-> nodeHeight[n].age] \in Items
    BY DEF TypeOK, Items
  <2>2. QED BY <1>3, <2>1, ItemTypes DEF TypeOK
<1>5. open' \in SUBSET Keys
  BY <1>2 DEF CheckStall, ResetStall, FirstHeight, AdvanceHeight, KeepWaiting, FireStall, TypeOK
<1>6. \/ nodeHeight' = [nodeHeight EXCEPT
                          ![n] = [known |-> TRUE, height |-> snaps[n].height, age |-> 0]]
      \/ UNCHANGED nodeHeight /\ ~ Unfit(snaps[n])
  BY DEF CheckStall, ResetStall, FirstHeight, AdvanceHeight, KeepWaiting, FireStall, TrackAt,
     NoAdvance
<1>7. TypeOK'
  <2>1. [known |-> TRUE, height |-> snaps[n].height, age |-> 0]
           \in [known : BOOLEAN, height : 0..MaxHeight, age : Ages]
    BY ZeroAge DEF TypeOK, NodeStates
  <2>2. nodeHeight' \in [Nodes -> [known : BOOLEAN, height : 0..MaxHeight, age : Ages]]
    BY <1>6, <2>1 DEF TypeOK
  <2>3. QED BY <1>1, <1>4, <1>5, <2>2 DEF TypeOK, lifeVars, worldVars
<1>8. SubjectsFit' /\ LossesCounted'
  BY <1>1 DEF SubjectsFit, LossesCounted, lifeVars
<1>9. NotificationsBalanced' /\ StreakCovers'
  <2>1. \A k \in SampledKeys : alerts'[k] = alerts[k]
    BY <1>2, <1>3, KeyTypes DEF TypeOK
  <2>2. QED BY <1>1, <2>1, KeyTypes DEF NotificationsBalanced, StreakCovers, Fired, lifeVars
<1>10. TracksCalm'
  <2>1. ASSUME NEW m \in Nodes, m # n
        PROVE  nodeHeight'[m] = nodeHeight[m] /\ Pending(m)' = Pending(m)
    BY <1>1, <1>6, <2>1 DEF TypeOK, Pending
  <2>2. ~ Pending(n)' /\ Pending(n)
    BY <1>1 DEF Pending
  <2>3. /\ nodeHeight'[n].known => nodeHeight'[n].height <= node[n].height
        /\ TrackOf(n, node[n])'
    <3>1. CASE nodeHeight' = [nodeHeight EXCEPT
                                ![n] = [known |-> TRUE, height |-> snaps[n].height, age |-> 0]]
      <4>1. nodeHeight'[n] = [known |-> TRUE, height |-> snaps[n].height, age |-> 0]
        BY <3>1 DEF TypeOK
      <4>2. node'[n].calm >= 0
        BY <1>7, AlertAssumption DEF TypeOK, NodeStates, Ages
      <4>3. QED BY <2>2, <4>1, <4>2 DEF TracksCalm, TrackOf
    <3>2. CASE UNCHANGED nodeHeight /\ ~ Unfit(snaps[n])
      BY <1>1, <2>2, <3>2 DEF TracksCalm, TrackOf, worldVars
    <3>3. QED BY <1>6, <3>1, <3>2
  <2>4. QED BY <1>1, <2>1, <2>2, <2>3 DEF TracksCalm, TrackOf, worldVars
<1>11. QED BY <1>7, <1>8, <1>9, <1>10

-----------------------------------------------------------------------------
(* The life of the process *)

(* Steps that change neither the alerts nor the subjects.                  *)
LEMMA LifeStep ==
    ASSUME IInv, Save \/ Cancel \/ StopChecks \/ Die
    PROVE  IInv'
<1> USE DEF IInv
<1>1. UNCHANGED <<managerVars, left, todo, losses, worldVars, historyVars>>
  BY DEF Save, Cancel, StopChecks, Die, checkVars, lifeVars
<1>2. /\ snaps' \in [Nodes -> NodeStates]
      /\ disk' \in [Keys -> Items]
      /\ rule' = rule \/ rule' \in {"wait", "stopped"}
      /\ rule' # rule => todo = {}
  BY WorldTypes DEF Save, Cancel, StopChecks, Die, checkVars, lifeVars, TypeOK, SubjectsFit,
     Rules, ValidatorRules, NodeRules
<1>3. process' \in {"running", "dead"} /\ ctxDone' \in BOOLEAN
  BY DEF Save, Cancel, StopChecks, Die, checkVars, lifeVars, TypeOK
<1>4. stops' \in 0..MaxStops /\ losses' \in 0..stops' /\ LossesCounted'
  <2>1. losses \in 0..stops /\ stops \in 0..MaxStops /\ losses' = losses
    BY <1>1 DEF TypeOK
  <2>2. CASE Die
    BY <2>1, <2>2, AlertAssumption DEF Die, LossesCounted
  <2>3. CASE Save \/ Cancel \/ StopChecks
    BY <2>1, <2>3 DEF Save, Cancel, StopChecks, LossesCounted, lifeVars
  <2>4. QED BY <2>2, <2>3
<1>5. TypeOK'
  BY <1>1, <1>2, <1>3, <1>4 DEF TypeOK, managerVars, worldVars, historyVars, Rules
<1>6. SubjectsFit'
  BY <1>1, <1>2 DEF SubjectsFit, Rules, ValidatorRules, NodeRules
<1>7. NotificationsBalanced' /\ StreakCovers'
  BY <1>1, QuietStep DEF managerVars, historyVars
<1>8. TracksCalm'
  <2>1. \A n \in Nodes : Pending(n)' => Pending(n) /\ UNCHANGED snaps
    BY <1>1, <1>2 DEF Pending, Save, Cancel, StopChecks, Die, checkVars
  <2>2. \A n \in Nodes : Pending(n) => Pending(n)'
    BY <1>1, <1>2 DEF Pending
  <2>3. UNCHANGED <<nodeHeight, node>>
    BY <1>1 DEF managerVars, worldVars
  <2>4. QED BY <2>1, <2>2, <2>3 DEF TracksCalm, TrackOf
<1>9. QED BY <1>4, <1>5, <1>6, <1>7, <1>8

LEMMA StartStep ==
    ASSUME IInv, Start
    PROVE  IInv'
<1> USE DEF IInv
<1>1. /\ process = "dead" /\ process' = "running" /\ rule' = "start" /\ left' = {} /\ todo' = {}
      /\ ctxDone' = FALSE /\ snaps' = NoSnaps /\ nodeHeight' = [n \in Nodes |-> NoTrack]
      /\ losses' = IF alerts' = alerts THEN losses ELSE losses + 1
      /\ UNCHANGED <<disk, stops, balance, open, streak, gaps>>
  BY DEF Start, historyVars
<1>2. alerts' \in [Keys -> Items]
  BY ItemTypes DEF Start, Load, TypeOK
<1>3. val' \in [Validators -> ValidatorStates] /\ node' \in [Nodes -> NodeStates]
  BY WorldTypes DEF Start
<1>4. losses' \in 0..stops
  BY <1>1, AlertAssumption DEF TypeOK, LossesCounted
<1>5. TypeOK'
  BY <1>1, <1>2, <1>3, <1>4, WorldTypes DEF TypeOK
<1>6. SubjectsFit' /\ LossesCounted'
  BY <1>1 DEF SubjectsFit, LossesCounted, Rules, ValidatorRules, NodeRules
<1>7. NotificationsBalanced' /\ StreakCovers'
  <2>1. CASE alerts' = alerts
    BY <1>1, <2>1, QuietStep
  <2>2. CASE alerts' # alerts
    <3>1. losses' = losses + 1 /\ losses \in Nat
      BY <1>1, <2>2, AlertAssumption DEF TypeOK
    <3>2. \A k \in SampledKeys : balance[k] \in Int /\ Fired(k) \in 0..1 /\ Fired(k)' \in 0..1
      BY DEF TypeOK, Fired
    <3>3. NotificationsBalanced'
      BY <1>1, <3>1, <3>2 DEF NotificationsBalanced
    <3>4. QED BY <3>1, <3>3 DEF StreakCovers
  <2>3. QED BY <2>1, <2>2
<1>8. TracksCalm'
  BY <1>1 DEF TracksCalm, TrackOf, Pending, NoTrack
<1>9. QED BY <1>5, <1>6, <1>7, <1>8

LEMMA InvStep ==
    ASSUME IInv, [Next]_vars
    PROVE  IInv'
<1>1. CASE \E v \in Validators : ProcessBlocks(v) \/ Reload(v)
  BY <1>1, ValidatorStep
<1>2. CASE \E n \in Nodes : CheckNode(n) \/ UpdateHeight(n)
  BY <1>2, NodeStep
<1>3. CASE CheckStep
  BY <1>3, BeginCheckStep, StartRuleStep, CheckSampledStep, CheckStallStep, LifeStep DEF CheckStep
<1>4. CASE Cancel \/ StopChecks \/ Die
  BY <1>4, LifeStep
<1>5. CASE Start
  BY <1>5, StartStep
<1>6. CASE UNCHANGED vars
  BY <1>6 DEF IInv, TypeOK, SubjectsFit, LossesCounted, NotificationsBalanced, StreakCovers,
     TracksCalm, TrackOf, Pending, Fired, vars, managerVars, checkVars, lifeVars, worldVars,
     historyVars
<1>7. QED BY <1>1, <1>2, <1>3, <1>4, <1>5, <1>6 DEF Next

-----------------------------------------------------------------------------
(* The theorems *)

(* The inductive invariant holds in every behaviour. *)
THEOREM Invariance == Spec => []IInv
<1>1. QED BY InitInv, InvStep, PTL DEF Spec

(* Type correctness of the alert manager. *)
THEOREM TypeCorrect == Spec => []TypeOK
<1>1. IInv => TypeOK
  BY DEF IInv
<1>2. QED BY <1>1, Invariance, PTL

(* Firing and resolved notifications of a validator or node alternate, but *)
(* for one per restart that lost a change of the alerts.                   *)
THEOREM NotificationsAlternate == Spec => []NotificationsBalanced
<1>1. IInv => NotificationsBalanced
  BY DEF IInv
<1>2. QED BY <1>1, Invariance, PTL

(* checkValidatorDown and checkNodeDown announce nothing before every check *)
(* of the last fire_after has found the subject down; the alert of a        *)
(* validator that checks have passed over meanwhile is the exception.       *)
THEOREM NothingFiresEarly == Spec => FiresAfterDuration
<1> DEFINE Late(k) == /\ losses = 0
                      /\ k \notin open
                      /\ k \in open'
                      /\ k \notin gaps
                      => streak'[k].bad /\ streak'[k].age >= FireAfter
<1>1. ASSUME IInv, [Next]_vars PROVE [\A k \in TimedKeys : Late(k)]_vars
  <2> SUFFICES ASSUME NEW k \in TimedKeys, losses = 0, k \notin open, k \in open', k \notin gaps
               PROVE  streak'[k].bad /\ streak'[k].age >= FireAfter
    OBVIOUS
  <2>1. CASE \E s \in Validators \cup Nodes : CheckSampled(s)
    <3>1. PICK s \in Validators \cup Nodes : CheckSampled(s)
      BY <2>1
    <3> DEFINE j == <<rule, s>>
    <3>2. /\ j \in SampledKeys
          /\ Bad(rule, s) \in BOOLEAN
          /\ Branch(j, Bad(rule, s), Wait(rule))
          /\ Observed(j, Bad(rule, s))
      BY <1>1, <3>1, CheckSampledKey
    <3>3. k = j /\ Fire(j, Wait(rule)) /\ Bad(rule, s)
      BY <3>2 DEF Branch, StartTracking, KeepObserving, Fire, StopTracking, Resolve,
         NotifyFiring, NotifyResolved
    <3>4. Wait(rule) = FireAfter
      <4>1. rule # "validator_uptime"
        BY <3>3 DEF TimedKeys
      <4>2. QED BY <4>1 DEF Wait
    <3>5. /\ k \in Keys
          /\ alerts[k].status = "tracked" /\ alerts[k].age >= FireAfter
      BY <3>3, <3>4, KeyTypes DEF Fire
    <3>6. /\ streak[k] \in [bad : BOOLEAN, age : Ages] /\ streak[k].bad
          /\ alerts[k].age <= streak[k].age /\ alerts[k].age \in Ages
      BY <1>1, <3>5 DEF IInv, StreakCovers, TypeOK, Items
    <3>7. streak'[k] = streak[k]
      <4> DEFINE bad == Bad(rule, s)
      <4>1. bad \in BOOLEAN /\ Observed(k, bad) /\ bad
        BY <3>2, <3>3
      <4> HIDE DEF bad, j
      <4>2. streak[k].bad = bad
        BY <3>6, <4>1
      <4>3. QED BY <1>1, <4>1, <4>2, ObservedStreak DEF IInv
    <3>8. QED BY <3>5, <3>6, <3>7, AlertAssumption DEF Ages
  <2>2. CASE \E n \in Nodes : CheckStall(n)
    <3>1. PICK n \in Nodes : CheckStall(n)
      BY <2>2
    <3>2. k # StallKey(n)
      BY KeyTypes
    <3>3. QED BY <3>1, <3>2 DEF CheckStall, ResetStall, FirstHeight, AdvanceHeight, KeepWaiting,
                 FireStall
  <2>3. CASE UNCHANGED open
    BY <2>3
  <2>4. QED
    BY <1>1, <2>1, <2>2, <2>3 DEF Next, CheckStep, ProcessBlocks, Reload, CheckNode, UpdateHeight,
       BeginCheck, StartRule, Save, Cancel, StopChecks, Die, Start, vars, historyVars
<1>2. QED BY <1>1, Invariance, PTL DEF Spec, FiresAfterDuration

(* A stall is announced for a node that stood still while it was fit. *)
THEOREM StallsAreReal == Spec => StallIsReal
<1> DEFINE Real(n) == /\ process = "running"
                      /\ alerts[StallKey(n)].status # "fired"
                      /\ alerts'[StallKey(n)].status = "fired"
                      => snaps[n].calm >= FireAfter
<1>1. ASSUME IInv, [Next]_vars PROVE [\A n \in Nodes : Real(n)]_vars
  <2> SUFFICES ASSUME NEW n \in Nodes, process = "running",
                      alerts[StallKey(n)].status # "fired",
                      alerts'[StallKey(n)].status = "fired"
               PROVE  snaps[n].calm >= FireAfter
    OBVIOUS
  <2>1. CASE \E m \in Nodes : CheckStall(m)
    <3>1. PICK m \in Nodes : CheckStall(m)
      BY <2>1
    <3>2. m = n /\ FireStall(n)
      <4>1. StallKey(n) \in Keys /\ StallKey(m) \in Keys /\ alerts \in [Keys -> Items]
        BY <1>1, KeyTypes DEF IInv, TypeOK
      <4>2. m = n
        <5>1. StallKey(m) = StallKey(n)
          BY <3>1, <4>1 DEF CheckStall, ResetStall, FirstHeight, AdvanceHeight, KeepWaiting, FireStall
        <5>2. QED BY <5>1 DEF StallKey
      <4>3. QED
        BY <3>1, <4>1, <4>2 DEF CheckStall, ResetStall, FirstHeight, AdvanceHeight, KeepWaiting,
           Absent
    <3>3. /\ Pending(n) /\ ~ Unfit(snaps[n])
          /\ nodeHeight[n].known /\ nodeHeight[n].age >= FireAfter
          /\ ~ (snaps[n].height > nodeHeight[n].height)
      BY <3>1, <3>2 DEF CheckStall, FireStall, NoAdvance, Advanced, Pending
    <3>4. /\ snaps[n].height \in Int /\ nodeHeight[n].height \in Int
          /\ snaps[n].calm \in Int /\ nodeHeight[n].age \in Int
      BY <1>1, AlertAssumption DEF IInv, TypeOK, NodeStates, Ages
    <3>5. nodeHeight[n].age <= snaps[n].calm
      BY <1>1, <3>3, <3>4 DEF IInv, TracksCalm, TrackOf
    <3>6. QED BY <3>3, <3>4, <3>5, AlertAssumption
  <2>2. CASE \E s \in Validators \cup Nodes : CheckSampled(s)
    <3>1. PICK s \in Validators \cup Nodes : CheckSampled(s)
      BY <2>2
    <3> DEFINE j == <<rule, s>>
    <3>2. j \in SampledKeys /\ Branch(j, Bad(rule, s), Wait(rule))
      BY <1>1, <3>1, CheckSampledKey
    <3>3. StallKey(n) # j
      BY <3>2, KeyTypes
    <3>4. StallKey(n) \in Keys /\ j \in Keys /\ alerts \in [Keys -> Items]
      BY <1>1, <3>2, KeyTypes DEF IInv, TypeOK
    <3>5. alerts'[StallKey(n)] = alerts[StallKey(n)]
      <4> HIDE DEF j
      <4>1. QED BY <3>2, <3>3, <3>4 DEF Branch, StartTracking, KeepObserving, Fire, StopTracking,
                   Resolve
    <3>6. QED BY <3>5
  <2>3. CASE UNCHANGED alerts
    BY <2>3
  <2>4. CASE \E d \in 0..MaxGap : BeginCheck(d)
    <3>1. StallKey(n) \in Keys
      BY KeyTypes
    <3>2. alerts'[StallKey(n)].status = alerts[StallKey(n)].status
      BY <1>1, <2>4, <3>1 DEF BeginCheck, IInv, TypeOK, Items, Absent
    <3>3. QED BY <3>2
  <2>5. QED
    BY <1>1, <2>1, <2>2, <2>3, <2>4 DEF Next, CheckStep, ProcessBlocks, Reload, CheckNode,
       UpdateHeight, StartRule, Save, Cancel, StopChecks, Die, Start, vars, managerVars
<1>2. QED BY <1>1, Invariance, PTL DEF Spec, StallIsReal
=============================================================================
