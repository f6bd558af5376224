----------------------- MODULE ValidatorRegistry_proof -----------------------
(***************************************************************************)
(* Proofs of the safety properties of ValidatorRegistry, for any sets of   *)
(* validators, goroutines and configurations and any values of the bounds. *)
(***************************************************************************)
EXTENDS ValidatorRegistry, RollingWindow_proof

-----------------------------------------------------------------------------
(* The inductive invariant *)

(* A state whose counter is exact, wherever it is kept. *)
Good == {o \in ValidatorState : /\ o.window.duration # 0
                                /\ o.window.missed = MissedIn(o.window.items)}

ProcessOK ==
    /\ main \in {"down", "starting", "running", "stopping"}
    /\ boots \in 0..MaxBoots
    /\ config \in Configs
    /\ head \in 0..MaxHeight

ObjectsOK == objects \in [Validators -> Seq(Good)]

TrackedOK ==
    /\ tracked \in SUBSET {v \in Validators : objects[v] # <<>>}
    /\ TrackedSelected

(* Only a reload that has the lock asks for validators. *)
ReloadOK ==
    /\ reload \in Reload
    /\ ~ WriteLocked => reload.todo = {} /\ reload.fetched = {}

PointersLead ==
    \A w \in Workers : \A p \in job[w].todo \cup job[w].adding : p[2] \in DOMAIN objects[p[1]]

JobsOK == job \in [Workers -> Job] /\ PointersLead

(* Only the first stage of a save looks at validators, those of the map. *)
SaveOK ==
    /\ save \in Save(DOMAIN save.snapshots)
    /\ DOMAIN save.snapshots \subseteq Validators
    /\ \A v \in DOMAIN save.snapshots : save.snapshots[v] \in Good
    /\ save.todo \subseteq tracked
    /\ save.pc # "snapshot" => save.todo = {}

ExactFile(f) ==
    /\ IsFile(f)
    /\ f.kind = "state" => \A v \in DOMAIN f.validators : f.validators[v] \in Good

Durable(f) == f.kind # "torn" /\ (f.kind = "state" => f.synced)

(* What a rename brings under the name of the state file, or what the loss *)
(* of it brings back, has been synced.                                     *)
DiskOK ==
    /\ disk = [file |-> disk.file, tmp |-> disk.tmp, undo |-> disk.undo]
    /\ \A f \in {disk.file, disk.tmp} \cup disk.undo : ExactFile(f)
    /\ \A f \in {disk.file} \cup disk.undo : Durable(f)
    /\ save.pc \in {"written", "synced"} => disk.tmp.kind = "state"
    /\ save.pc = "synced" => disk.tmp.synced

(* The map is not written while it is saved, and nothing runs in a process *)
(* that is down.                                                           *)
Exclusion ==
    /\ ~ (WriteLocked /\ ReadLocked)
    /\ main = "down" => /\ reload = NoReload
                        /\ save = NoSave
                        /\ job = [w \in Workers |-> IdleJob]

IInv ==
    /\ ProcessOK
    /\ ObjectsOK
    /\ TrackedOK
    /\ ReloadOK
    /\ JobsOK
    /\ SaveOK
    /\ DiskOK
    /\ Exclusion

-----------------------------------------------------------------------------
(* Operations on the state of a validator *)

LEMMA NewStateGood ==
    ASSUME config \in Configs
    PROVE  NewState \in Good
<1>1. config.window \in Nat /\ config.window # 0
  BY RegistryAssumption
<1>2. <<>> \in Seq(Item)
  BY EmptySeq
<1>3. MissedPositions(<<>>) = {}
  BY DEF MissedPositions
<1>4. MissedIn(<<>>) = 0
  BY <1>3, FS_EmptySet DEF MissedIn
<1>5. NewWindow(config.window) \in Window
  BY <1>1, <1>2 DEF NewWindow, Window
<1> QED
  BY <1>1, <1>4, <1>5 DEF Good, ValidatorState, NewState, NewWindow

(* Window.Add. *)
LEMMA AddKeepsGood ==
    ASSUME NEW o \in Good, NEW signed \in BOOLEAN, NEW h \in Nat
    PROVE  [o EXCEPT !.window = Add(o.window, signed, h, h)] \in Good
<1> DEFINE new == Add(o.window, signed, h, h)
           x   == [ts |-> h, signed |-> signed, height |-> h]
<1>1. /\ o.window \in Window
      /\ o.window.duration \in Nat \ {0}
      /\ o.window.missed = MissedIn(o.window.items)
      /\ o \in ValidatorState
  BY DEF Good, ValidatorState, Window
<1>2. new = Add(o.window, signed, h, h) /\ x = [ts |-> h, signed |-> signed, height |-> h]
  OBVIOUS
<1> HIDE DEF new, x
<1>3. new \in Window /\ new.duration = o.window.duration /\ new.missed = MissedIn(new.items)
  BY <1>1, <1>2, AddProperties
<1>4. [o EXCEPT !.window = new] \in Good
  BY <1>1, <1>3 DEF Good, ValidatorState
<1> QED
  BY <1>2, <1>4

(* The section under the validator's lock. *)
LEMMA UpdateKeepsGood ==
    ASSUME NEW o \in Good, NEW height \in Nat, NEW down \in BOOLEAN
    PROVE  [o EXCEPT !.lastHeight = height, !.down = down] \in Good
BY DEF Good, ValidatorState

(* A snapshot is equal to the state it is taken of. *)
LEMMA SnapshotKeepsGood ==
    ASSUME NEW o \in Good
    PROVE  [window |-> Export(o.window), lastHeight |-> o.lastHeight, down |-> o.down] \in Good
<1>1. Export(o.window) = o.window
  BY DEF Export, Good, ValidatorState, Window
<1> QED
  BY <1>1 DEF Good, ValidatorState

(* And so is the state that is restored of it. *)
LEMMA RestoreKeepsGood ==
    ASSUME NEW o \in Good, NEW duration \in Nat
    PROVE  SnapshotToState(o, duration) \in Good
<1>1. Restore(NewWindow(duration), o.window) = o.window
  BY DEF Restore, NewWindow, Good, ValidatorState, Window
<1> QED
  BY <1>1 DEF SnapshotToState, Good, ValidatorState

-----------------------------------------------------------------------------
(* Objects and the pointers to them *)

LEMMA ObjectGood ==
    ASSUME ObjectsOK, NEW v \in Validators, NEW i \in DOMAIN objects[v]
    PROVE  objects[v][i] \in Good /\ i \in 1..Len(objects[v])
BY LenProperties, ElementOfSeq DEF ObjectsOK

LEMMA NoObjectYet ==
    ASSUME ObjectsOK, NEW v \in Validators, objects[v] # <<>>
    PROVE  Len(objects[v]) \in DOMAIN objects[v] /\ Len(objects[v]) \in Nat \ {0}
BY LenProperties, EmptySeq DEF ObjectsOK

(* A write through a pointer leaves every object in its place. *)
LEMMA WriteObject ==
    ASSUME ObjectsOK, TrackedOK, NEW v \in Validators, NEW i \in DOMAIN objects[v],
           NEW o \in Good,
           objects' = [objects EXCEPT ![v] = [objects[v] EXCEPT ![i] = o]],
           UNCHANGED <<tracked, config>>
    PROVE  /\ ObjectsOK'
           /\ TrackedOK'
           /\ \A u \in Validators : DOMAIN objects'[u] = DOMAIN objects[u]
           /\ \A u \in Validators : Len(objects'[u]) = Len(objects[u])
<1> DEFINE written == [objects[v] EXCEPT ![i] = o]
<1>1. objects[v] \in Seq(Good) /\ i \in 1..Len(objects[v])
  BY ObjectGood DEF ObjectsOK
<1>2. written \in Seq(Good) /\ Len(written) = Len(objects[v])
  BY <1>1, ExceptSeq
<1>3. DOMAIN written = DOMAIN objects[v] /\ objects[v] # <<>> /\ written # <<>>
  <2>1. Len(written) \in Nat \ {0} /\ Len(objects[v]) \in Nat \ {0}
    BY <1>1, <1>2, LenProperties
  <2>2. DOMAIN written = 1..Len(written) /\ DOMAIN objects[v] = 1..Len(objects[v])
    BY <1>1, <1>2, LenProperties
  <2> QED
    BY <1>1, <1>2, <2>1, <2>2, EmptySeq
<1> HIDE DEF written
<1>4. /\ objects' = [objects EXCEPT ![v] = written]
      /\ objects'[v] = written
      /\ \A u \in Validators \ {v} : objects'[u] = objects[u]
  BY DEF written, ObjectsOK
<1>5. ObjectsOK'
  BY <1>2, <1>4 DEF ObjectsOK
<1>6. TrackedOK'
  BY <1>3, <1>4 DEF TrackedOK, TrackedSelected
<1>7. ASSUME NEW u \in Validators
      PROVE  DOMAIN objects'[u] = DOMAIN objects[u] /\ Len(objects'[u]) = Len(objects[u])
  BY <1>2, <1>3, <1>4
<1> QED
  BY <1>5, <1>6, <1>7

(* EnsureObject gives a validator an object, and keeps those there are.    *)
LEMMA EnsureObjectKeeps ==
    ASSUME ObjectsOK, TrackedOK, config \in Configs, NEW v \in Validators,
           IsSelected(config, v), EnsureObject(v), UNCHANGED config
    PROVE  /\ ObjectsOK'
           /\ TrackedOK'
           /\ tracked' = tracked \cup {v}
           /\ \A u \in Validators : DOMAIN objects[u] \subseteq DOMAIN objects'[u]
           /\ \A u \in tracked : Len(objects'[u]) = Len(objects[u])
<1>1. tracked' = tracked \cup {v}
  BY DEF EnsureObject
<1>2. CASE v \in tracked
  BY <1>1, <1>2 DEF EnsureObject, ObjectsOK, TrackedOK, TrackedSelected
<1>3. CASE v \notin tracked
  <2> DEFINE grown == Append(objects[v], NewState)
  <2>1. objects[v] \in Seq(Good) /\ NewState \in Good
    BY NewStateGood DEF ObjectsOK
  <2>2. /\ grown \in Seq(Good)
        /\ Len(grown) = Len(objects[v]) + 1
    BY <2>1, AppendProperties
  <2>3. DOMAIN objects[v] \subseteq DOMAIN grown /\ grown # <<>>
    BY <2>1, <2>2, LenProperties, EmptySeq
  <2> HIDE DEF grown
  <2>4. /\ objects' = [objects EXCEPT ![v] = grown]
        /\ objects'[v] = grown
        /\ \A u \in Validators \ {v} : objects'[u] = objects[u]
    BY <1>3 DEF EnsureObject, grown, ObjectsOK
  <2>5. ObjectsOK'
    BY <2>2, <2>4 DEF ObjectsOK
  <2>6. TrackedOK'
    BY <1>1, <2>3, <2>4 DEF TrackedOK, TrackedSelected
  <2>7. \A u \in Validators : DOMAIN objects[u] \subseteq DOMAIN objects'[u]
    BY <2>3, <2>4
  <2>8. \A u \in tracked : Len(objects'[u]) = Len(objects[u])
    BY <1>3, <2>4 DEF TrackedOK
  <2> QED
    BY <1>1, <2>5, <2>6, <2>7, <2>8
<1> QED
  BY <1>2, <1>3

-----------------------------------------------------------------------------
(* The initial states, the end of the process and its start *)

(* A process that is down has no memory. *)
NoMemory ==
    /\ objects = [v \in Validators |-> <<>>]
    /\ tracked = {}
    /\ reload = NoReload
    /\ job = [w \in Workers |-> IdleJob]
    /\ save = NoSave

MemoryOK == ObjectsOK /\ TrackedOK /\ ReloadOK /\ JobsOK /\ SaveOK /\ Exclusion

LEMMA EmptyMemory == NoMemory => MemoryOK
<1> SUFFICES ASSUME NoMemory PROVE MemoryOK
  OBVIOUS
<1> USE DEF NoMemory
<1>1. <<>> \in Seq(Good) /\ DOMAIN <<>> = {}
  BY EmptySeq
<1>2. ObjectsOK /\ TrackedOK
  BY <1>1 DEF ObjectsOK, TrackedOK, TrackedSelected
<1>3. ReloadOK /\ Exclusion
  BY DEF ReloadOK, Reload, NoReload, Exclusion, WriteLocked, ReadLocked, NoSave
<1>4. JobsOK
  <2>1. IdleJob \in Job /\ IdleJob.todo = {} /\ IdleJob.adding = {}
    BY RegistryAssumption DEF IdleJob, Job
  <2> QED
    BY <2>1 DEF JobsOK, PointersLead
<1>5. SaveOK
  <2>1. DOMAIN save.snapshots = {}
    BY <1>1 DEF NoSave
  <2>2. save.snapshots \in Snapshots(DOMAIN save.snapshots)
    <3>1. <<>> \in Seq(ValidatorState) /\ Len(<<>>) = 0
      BY EmptySeq
    <3>2. <<>> \in [1..0 -> ValidatorState]
      BY <3>1, LenProperties
    <3> QED
      BY <2>1, <3>2 DEF Snapshots, NoSave
  <2> QED
    BY <2>1, <2>2 DEF SaveOK, Save, NoSave
<1> QED
  BY <1>2, <1>3, <1>4, <1>5 DEF MemoryOK

LEMMA Initially == Init => IInv
<1> SUFFICES ASSUME Init PROVE IInv
  OBVIOUS
<1>1. ObjectsOK /\ TrackedOK /\ ReloadOK /\ JobsOK /\ SaveOK /\ Exclusion
  BY EmptyMemory DEF Init, NoMemory, MemoryOK
<1>2. ProcessOK
  BY RegistryAssumption DEF Init, ProcessOK
<1>3. DiskOK
  BY DEF Init, DiskOK, NoFile, ExactFile, IsFile, Durable, NoSave
<1> QED
  BY <1>1, <1>2, <1>3 DEF IInv

(* Both crashes and the exit: the files stay, but for what the machine     *)
(* takes with it, and what it can take has been synced.                    *)
LEMMA DeathKeeps ==
    ASSUME IInv, ProcessCrash \/ MachineCrash \/ Exit
    PROVE  IInv'
<1> USE DEF IInv
<1>1. LoseMemory /\ UNCHANGED <<boots, config, head>>
  BY DEF ProcessCrash, MachineCrash, Exit
<1>2. (ObjectsOK /\ TrackedOK /\ ReloadOK /\ JobsOK /\ SaveOK /\ Exclusion)'
  <2>1. NoMemory'
    BY <1>1 DEF LoseMemory, NoMemory
  <2>2. NoMemory' => MemoryOK'
    BY EmptyMemory, PTL
  <2> QED
    BY <2>1, <2>2 DEF MemoryOK
<1>3. ProcessOK'
  BY <1>1 DEF ProcessOK, LoseMemory
<1>4. save'.pc = "none"
  BY <1>1 DEF LoseMemory, NoSave
<1>5. DiskOK'
  <2>1. CASE UNCHANGED disk
    BY <1>4, <2>1 DEF DiskOK
  <2>2. CASE MachineCrash
    <3>1. PICK f \in {disk.file} \cup disk.undo :
            disk' = [file |-> IF f.kind = "state" /\ ~ f.synced THEN Torn ELSE f,
                     tmp |-> NoFile, undo |-> {}]
      BY <2>2 DEF MachineCrash
    <3>2. Durable(f) /\ ExactFile(f)
      BY <3>1 DEF DiskOK
    <3>3. disk' = [file |-> f, tmp |-> NoFile, undo |-> {}]
      BY <3>1, <3>2 DEF Durable
    <3>4. ExactFile(NoFile)
      BY DEF ExactFile, IsFile, NoFile
    <3> QED
      BY <1>4, <3>2, <3>3, <3>4 DEF DiskOK
  <2> QED
    BY <2>1, <2>2 DEF ProcessCrash, MachineCrash, Exit
<1> QED
  BY <1>2, <1>3, <1>5

(* Registry.Start takes the states of selected validators from the file.   *)
LEMMA BootKeeps ==
    ASSUME IInv, Boot
    PROVE  IInv'
<1> USE DEF IInv
<1>1. PICK c \in Configs :
        /\ config' = c
        /\ tracked' = Loadable(c)
        /\ objects' = [v \in Validators |->
              IF v \in Loadable(c)
              THEN <<SnapshotToState(disk.file.validators[v], c.window)>>
              ELSE <<>>]
  BY DEF Boot
<1>2. /\ reload = NoReload /\ save = NoSave /\ job = [w \in Workers |-> IdleJob]
      /\ UNCHANGED <<head, reload, job, save, disk>>
      /\ main' = "starting"
  BY DEF Boot, Exclusion
<1>3. c.window \in Nat
  BY RegistryAssumption
<1>4. ProcessOK'
  BY <1>1, <1>2, RegistryAssumption DEF Boot, ProcessOK
<1>5. ASSUME NEW v \in Loadable(c)
      PROVE  /\ v \in Validators
             /\ IsSelected(c, v)
             /\ SnapshotToState(disk.file.validators[v], c.window) \in Good
  <2>1. /\ disk.file.kind = "state"
        /\ v \in DOMAIN disk.file.validators
        /\ IsSelected(c, v)
    BY <1>5 DEF Loadable
  <2>2. IsFile(disk.file) /\ disk.file.validators[v] \in Good
    BY <2>1 DEF DiskOK, ExactFile
  <2>3. v \in Validators
    BY <2>1, <2>2 DEF IsFile, NoFile, Torn
  <2> QED
    BY <1>3, <2>1, <2>2, <2>3, RestoreKeepsGood
<1>6. ObjectsOK'
  <2>1. ASSUME NEW v \in Validators PROVE objects'[v] \in Seq(Good)
    <3>1. CASE v \in Loadable(c)
      <4> DEFINE o == SnapshotToState(disk.file.validators[v], c.window)
      <4>1. o \in Good /\ objects'[v] = <<o>>
        BY <1>1, <1>5, <3>1
      <4> HIDE DEF o
      <4> QED
        BY <4>1
    <3>2. CASE v \notin Loadable(c)
      BY <1>1, <3>2, EmptySeq
    <3> QED
      BY <3>1, <3>2
  <2> QED
    BY <1>1, <2>1 DEF ObjectsOK
<1>7. TrackedOK'
  <2>1. ASSUME NEW v \in Loadable(c)
        PROVE  v \in Validators /\ objects'[v] # <<>> /\ IsSelected(config', v)
    <3>1. objects'[v] = <<SnapshotToState(disk.file.validators[v], c.window)>>
      BY <1>1, <1>5
    <3> QED
      BY <1>1, <1>5, <3>1
  <2> QED
    BY <1>1, <2>1 DEF TrackedOK, TrackedSelected
<1>8. (ReloadOK /\ DiskOK)'
  BY <1>2 DEF ReloadOK, WriteLocked, DiskOK
<1>9. JobsOK'
  BY <1>2 DEF JobsOK, PointersLead, IdleJob
<1>10. SaveOK'
  BY <1>2 DEF SaveOK, NoSave
<1>11. Exclusion'
  BY <1>2 DEF Exclusion, WriteLocked, ReadLocked
<1> QED
  BY <1>4, <1>6, <1>7, <1>8, <1>9, <1>10, <1>11

-----------------------------------------------------------------------------
(* Reload *)

(* What a step of a reload does: an object that has a pointer stays, and   *)
(* a validator leaves the map under the lock alone.                        *)
ReloadEffect ==
    /\ ProcessOK' /\ main # "down" /\ main' # "down"
    /\ ReloadOK'
    /\ ObjectsOK'
    /\ TrackedOK'
    /\ \A u \in Validators : DOMAIN objects[u] \subseteq DOMAIN objects'[u]
    /\ tracked \subseteq tracked' \/ ~ ReadLocked
    /\ WriteLocked' => ~ ReadLocked

LEMMA ReloadHas ==
    ASSUME IInv, ReloadAnswered \/ ReloadStep
    PROVE  ReloadEffect
<1> USE DEF IInv
<1>1. NoReload \in Reload /\ NoReload.pc = "none" /\ NoReload.todo = {} /\ NoReload.fetched = {}
  BY DEF NoReload, Reload
<1>2. WriteLocked => main # "down" /\ ~ ReadLocked
  BY <1>1 DEF Exclusion, WriteLocked
<1>3. ASSUME UNCHANGED <<main, boots, config, head>> PROVE ProcessOK'
  BY <1>3 DEF ProcessOK
<1>4. ASSUME UNCHANGED <<boots, config, head>>, main' = AfterReload PROVE ProcessOK'
  BY <1>4 DEF ProcessOK, AfterReload
<1>5. ASSUME UNCHANGED <<objects, config>>, tracked' \subseteq tracked
      PROVE  /\ ObjectsOK' /\ TrackedOK'
             /\ \A u \in Validators : DOMAIN objects[u] \subseteq DOMAIN objects'[u]
  BY <1>5 DEF ObjectsOK, TrackedOK, TrackedSelected
<1>6. ASSUME reload' = NoReload PROVE ReloadOK' /\ ~ WriteLocked'
  BY <1>1, <1>6 DEF ReloadOK, WriteLocked
<1>7. CASE ReloadFails
  <2>1. /\ UNCHANGED <<objects, tracked, boots, config, head>>
        /\ reload' = NoReload /\ main' = AfterReload
    BY <1>7 DEF ReloadFails, outsideReload
  <2>2. main # "down"
    BY <1>1, <1>7 DEF ReloadFails, Exclusion
  <2>3. main' # "down"
    BY <2>1, <2>2 DEF AfterReload
  <2> QED
    BY <1>4, <1>5, <1>6, <2>1, <2>2, <2>3 DEF ReloadEffect
<1>8. CASE ReloadAnswered
  <2>1. PICK ids \in SUBSET Validators : reload' = [NoReload EXCEPT !.pc = "answered", !.ids = ids]
    BY <1>8 DEF ReloadAnswered
  <2>2. reload' = [pc |-> "answered", ids |-> ids, todo |-> {}, fetched |-> {}]
    BY <2>1 DEF NoReload
  <2>3. ReloadOK' /\ ~ WriteLocked'
    BY <2>2 DEF ReloadOK, Reload, WriteLocked
  <2>4. UNCHANGED <<main, objects, tracked, boots, config, head>> /\ main # "down"
    BY <1>8 DEF ReloadAnswered, outsideReload
  <2> QED
    BY <1>3, <1>5, <2>3, <2>4 DEF ReloadEffect
<1>9. CASE ReloadLock
  <2>1. /\ UNCHANGED <<main, objects, boots, config, head>>
        /\ tracked' \subseteq tracked
        /\ ~ ReadLocked
        /\ reload.pc = "answered"
        /\ reload' = [reload EXCEPT !.pc = "locked", !.todo = reload.ids]
    BY <1>9 DEF ReloadLock, outsideReload
  <2>2. main # "down"
    BY <1>1, <2>1 DEF Exclusion
  <2>3. reload' \in Reload /\ reload'.pc = "locked"
    BY <2>1 DEF ReloadOK, Reload
  <2>4. ReloadOK'
    BY <2>3 DEF ReloadOK, WriteLocked
  <2> QED
    BY <1>3, <1>5, <2>1, <2>2, <2>4 DEF ReloadEffect
<1>10. ASSUME NEW v \in Validators, ReloadInfo(v) \/ ReloadInfoFails(v)
       PROVE  ReloadEffect
  <2>1. WriteLocked /\ UNCHANGED <<main, boots, config, head>>
    BY <1>10 DEF ReloadInfo, ReloadInfoFails, outsideReload, ReloadOK
  <2>2. PICK todo \in SUBSET Validators, fetched \in SUBSET Validators :
          reload' = [reload EXCEPT !.todo = todo, !.fetched = fetched]
    <3>1. /\ reload.todo \ {v} \in SUBSET Validators
          /\ reload.fetched \in SUBSET Validators
          /\ reload.fetched \cup {v} \in SUBSET Validators
          /\ reload = [reload EXCEPT !.fetched = reload.fetched]
          /\ [reload EXCEPT !.todo = reload.todo \ {v}]
               = [reload EXCEPT !.todo = reload.todo \ {v}, !.fetched = reload.fetched]
      BY DEF ReloadOK, Reload
    <3>2. \/ reload' = [reload EXCEPT !.todo = reload.todo \ {v}, !.fetched = reload.fetched]
          \/ reload' = [reload EXCEPT !.todo = reload.todo \ {v},
                                      !.fetched = reload.fetched \cup {v}]
      BY <1>10, <3>1 DEF ReloadInfo, ReloadInfoFails, ReloadOK, Reload
    <3> QED
      BY <3>1, <3>2
  <2>3. reload' \in Reload /\ reload'.pc = "locked"
    BY <2>1, <2>2 DEF ReloadOK, Reload, WriteLocked
  <2>4. ReloadOK'
    BY <2>3 DEF ReloadOK, WriteLocked
  <2>5. /\ ObjectsOK'
        /\ TrackedOK'
        /\ \A u \in Validators : DOMAIN objects[u] \subseteq DOMAIN objects'[u]
    <3>1. CASE ReloadInfo(v) /\ IsSelected(config, v)
      <4>1. EnsureObject(v) /\ config \in Configs
        BY <3>1 DEF ReloadInfo, ProcessOK
      <4> QED
        BY <2>1, <3>1, <4>1, EnsureObjectKeeps
    <3>2. CASE UNCHANGED <<objects, tracked>>
      BY <1>5, <2>1, <3>2
    <3> QED
      BY <1>10, <3>1, <3>2 DEF ReloadInfo, ReloadInfoFails
  <2> QED
    BY <1>2, <1>3, <2>1, <2>4, <2>5 DEF ReloadEffect
<1>11. CASE ReloadFinish
  <2>1. /\ UNCHANGED <<objects, boots, config, head>>
        /\ tracked' \subseteq tracked
        /\ reload' = NoReload /\ main' = AfterReload
        /\ WriteLocked
    BY <1>11 DEF ReloadFinish, outsideReload
  <2>2. main' # "down"
    BY <1>2, <2>1 DEF AfterReload
  <2> QED
    BY <1>2, <1>4, <1>5, <1>6, <2>1, <2>2 DEF ReloadEffect
<1> QED
  BY <1>7, <1>8, <1>9, <1>10, <1>11 DEF ReloadStep

(* The map is not written while a save reads it.                           *)
LEMMA ReloadKeeps ==
    ASSUME IInv, ReloadAnswered \/ ReloadStep
    PROVE  IInv'
<1> USE DEF IInv
<1>1. UNCHANGED <<boots, config, head, job, save, disk>>
  BY DEF ReloadAnswered, ReloadStep, ReloadFails, ReloadLock, ReloadInfo, ReloadInfoFails,
         ReloadFinish, outsideReload
<1>2. ReloadEffect
  BY ReloadHas
<1>3. Exclusion'
  BY <1>1, <1>2 DEF ReloadEffect, Exclusion, ReadLocked
<1>4. JobsOK'
  BY <1>1, <1>2 DEF ReloadEffect, JobsOK, PointersLead, Job, Pointer
<1>5. SaveOK'
  <2>1. save.todo # {} => ReadLocked
    BY DEF SaveOK, ReadLocked
  <2>2. save.todo \subseteq tracked'
    BY <1>2, <2>1 DEF SaveOK, ReloadEffect
  <2> QED
    BY <1>1, <2>2 DEF SaveOK
<1>6. DiskOK'
  BY <1>1 DEF DiskOK
<1> QED
  BY <1>2, <1>3, <1>4, <1>5, <1>6 DEF ReloadEffect

-----------------------------------------------------------------------------
(* Block goroutines *)

(* A copy of the map leads to the objects that the map leads to. *)
LEMMA CopyKeeps ==
    ASSUME IInv, NEW w \in Workers, CopyRegistry(w)
    PROVE  IInv'
<1> USE DEF IInv
<1> DEFINE pointers == {<<v, Len(objects[v])>> : v \in tracked}
<1>1. /\ UNCHANGED <<objects, main, boots, config, tracked, reload, save, disk>>
      /\ main # "down" /\ head < MaxHeight /\ head' = head + 1
  BY DEF CopyRegistry, outsideJob
<1>2. PICK S \in SUBSET Validators :
        job' = [job EXCEPT ![w] = [pc |-> "update", height |-> head + 1, signers |-> S,
                                   todo |-> pointers, adding |-> {}]]
  BY DEF CopyRegistry
<1>3. head' \in 0..MaxHeight
  BY <1>1, RegistryAssumption DEF ProcessOK
<1>4. \A p \in pointers : p \in Pointer /\ p[2] \in DOMAIN objects[p[1]]
  BY NoObjectYet DEF TrackedOK, Pointer
<1>5. pointers \in SUBSET Pointer
  BY <1>4
<1> HIDE DEF pointers
<1> DEFINE new == [pc |-> "update", height |-> head + 1, signers |-> S,
                   todo |-> pointers, adding |-> {}]
<1>6. new \in Job /\ new.todo = pointers /\ new.adding = {}
  BY <1>1, <1>3, <1>5 DEF Job
<1>7. job' = [job EXCEPT ![w] = new]
  BY <1>2
<1> HIDE DEF new
<1>8. JobsOK'
  BY <1>1, <1>4, <1>6, <1>7 DEF JobsOK, PointersLead
<1>9. (ProcessOK /\ ObjectsOK /\ TrackedOK /\ ReloadOK /\ SaveOK /\ DiskOK)'
  BY <1>1, <1>3 DEF ProcessOK, ObjectsOK, TrackedOK, TrackedSelected, ReloadOK, WriteLocked,
                    SaveOK, DiskOK
<1>10. Exclusion'
  BY <1>1 DEF Exclusion, WriteLocked, ReadLocked
<1> QED
  BY <1>8, <1>9, <1>10

(* A goroutine whose pointers lead to objects writes one object, or none.  *)
LEMMA WriteKeeps ==
    ASSUME IInv, NEW w \in Workers, NEW new \in Job,
           job' = [job EXCEPT ![w] = new],
           job[w] # IdleJob,
           new.todo \cup new.adding \subseteq job[w].todo \cup job[w].adding,
           UNCHANGED <<head, main, boots, config, tracked, reload, save, disk>>,
           ObjectsOK', TrackedOK',
           \A u \in Validators : DOMAIN objects'[u] = DOMAIN objects[u]
    PROVE  IInv'
<1> USE DEF IInv
<1>1. JobsOK'
  <2>1. job' \in [Workers -> Job]
    BY DEF JobsOK
  <2>2. ASSUME NEW u \in Workers, NEW p \in job'[u].todo \cup job'[u].adding
        PROVE  p[2] \in DOMAIN objects'[p[1]]
    <3>1. p \in job[u].todo \cup job[u].adding
      BY <2>2 DEF JobsOK
    <3>2. p[2] \in DOMAIN objects[p[1]] /\ p \in Pointer
      BY <3>1 DEF JobsOK, PointersLead, Job
    <3> QED
      BY <3>2 DEF Pointer
  <2> QED
    BY <2>1, <2>2 DEF JobsOK, PointersLead
<1>2. main # "down"
  BY DEF Exclusion
<1> QED
  BY <1>1, <1>2 DEF ProcessOK, ReloadOK, WriteLocked, SaveOK, DiskOK, Exclusion, ReadLocked

LEMMA JobKeeps ==
    ASSUME IInv, NEW w \in Workers, JobStep(w)
    PROVE  IInv' /\ \A u \in Validators : Len(objects'[u]) = Len(objects[u])
<1> USE DEF IInv
<1>1. UNCHANGED <<head, main, boots, config, tracked, reload, save, disk>>
  BY DEF JobStep, AddToWindow, UpdateDown, FinishBlock, outsideJob
<1>2. /\ job[w] \in Job
      /\ \A p \in job[w].todo \cup job[w].adding :
            p \in Pointer /\ p[1] \in Validators /\ p[2] \in DOMAIN objects[p[1]]
  BY DEF JobsOK, PointersLead, Job, Pointer
<1>3. IdleJob.pc = "idle" /\ IdleJob.todo = {} /\ IdleJob.adding = {}
  BY DEF IdleJob
<1>4. job[w].height \in Nat
  BY <1>2, RegistryAssumption DEF Job
<1>5. CASE AddToWindow(w)
  <2>1. PICK p \in job[w].todo :
          /\ objects' = [objects EXCEPT ![p[1]][p[2]].window =
                            Add(@, p[1] \in job[w].signers, job[w].height, job[w].height)]
          /\ job' = [job EXCEPT ![w].adding = {p}, ![w].todo = @ \ {p}]
    BY <1>5 DEF AddToWindow
  <2> DEFINE v == p[1]
             i == p[2]
             o == objects[v][i]
             h == job[w].height
             signed == v \in job[w].signers
             o2 == [o EXCEPT !.window = Add(o.window, signed, h, h)]
             new == [job[w] EXCEPT !.adding = {p}, !.todo = job[w].todo \ {p}]
  <2>2. v \in Validators /\ i \in DOMAIN objects[v]
    BY <1>2
  <2>3. o \in Good
    BY <2>2, ObjectGood
  <2>4. objects' = [objects EXCEPT ![v] = [objects[v] EXCEPT ![i] = o2]]
    BY <2>1
  <2>5. o2 \in Good
    <3>1. signed \in BOOLEAN /\ h \in Nat
      BY <1>4
    <3> HIDE DEF signed, h, o
    <3> QED
      BY <2>3, <3>1, AddKeepsGood
  <2> HIDE DEF o2
  <2>6. /\ ObjectsOK' /\ TrackedOK'
        /\ \A u \in Validators : DOMAIN objects'[u] = DOMAIN objects[u]
        /\ \A u \in Validators : Len(objects'[u]) = Len(objects[u])
    BY <1>1, <2>2, <2>4, <2>5, WriteObject
  <2>7. new \in Job /\ new.todo \cup new.adding \subseteq job[w].todo \cup job[w].adding
    BY <1>2 DEF Job
  <2>8. job' = [job EXCEPT ![w] = new]
    BY <2>1 DEF JobsOK
  <2> HIDE DEF new
  <2>9. job[w] # IdleJob
    BY <1>3
  <2> QED
    BY <1>1, <2>6, <2>7, <2>8, <2>9, WriteKeeps
<1>6. CASE UpdateDown(w)
  <2>1. PICK p \in job[w].adding :
          LET v == p[1]
              o == objects[v][p[2]]
              h == job[w].height
              participated == v \in job[w].signers
              newest == IF participated /\ h > o.lastHeight THEN h ELSE o.lastHeight
          IN  objects' = [objects EXCEPT ![v][p[2]].lastHeight = newest,
                             ![v][p[2]].down = ~ participated /\ (@ \/ AllMissed(o.window))]
    BY <1>6 DEF UpdateDown
  <2> DEFINE v == p[1]
             i == p[2]
             o == objects[v][i]
             h == job[w].height
             participated == v \in job[w].signers
             newest == IF participated /\ h > o.lastHeight THEN h ELSE o.lastHeight
             down == ~ participated /\ (o.down \/ AllMissed(o.window))
             o2 == [o EXCEPT !.lastHeight = newest, !.down = down]
             new == [job[w] EXCEPT !.adding = {}]
  <2>2. v \in Validators /\ i \in DOMAIN objects[v]
    BY <1>2
  <2>3. o \in Good
    BY <2>2, ObjectGood
  <2>4. newest \in Nat /\ down \in BOOLEAN
    BY <1>4, <2>3 DEF Good, ValidatorState
  <2>5. objects' = [objects EXCEPT ![v] = [objects[v] EXCEPT ![i] = o2]]
    BY <2>1
  <2> HIDE DEF newest, down
  <2>6. o2 \in Good
    BY <2>3, <2>4, UpdateKeepsGood
  <2> HIDE DEF o2
  <2>7. /\ ObjectsOK' /\ TrackedOK'
        /\ \A u \in Validators : DOMAIN objects'[u] = DOMAIN objects[u]
        /\ \A u \in Validators : Len(objects'[u]) = Len(objects[u])
    BY <1>1, <2>2, <2>5, <2>6, WriteObject
  <2>8. new \in Job /\ new.todo \cup new.adding \subseteq job[w].todo \cup job[w].adding
    BY <1>2 DEF Job
  <2>9. job' = [job EXCEPT ![w] = new]
    BY <1>6 DEF UpdateDown, JobsOK
  <2> HIDE DEF new
  <2>10. job[w] # IdleJob
    BY <1>3
  <2> QED
    BY <1>1, <2>7, <2>8, <2>9, <2>10, WriteKeeps
<1>7. CASE FinishBlock(w)
  <2>1. /\ job' = [job EXCEPT ![w] = IdleJob] /\ job[w].pc = "update"
        /\ UNCHANGED objects
    BY <1>7 DEF FinishBlock
  <2>2. IdleJob \in Job
    BY RegistryAssumption DEF IdleJob, Job
  <2>3. ObjectsOK' /\ TrackedOK'
    BY <1>1, <2>1 DEF ObjectsOK, TrackedOK, TrackedSelected
  <2> QED
    BY <1>1, <1>3, <2>1, <2>2, <2>3, WriteKeeps
<1> QED
  BY <1>5, <1>6, <1>7 DEF JobStep

-----------------------------------------------------------------------------
(* A graceful shutdown *)

(* The steps of a save touch the files and the save itself. *)
LEMMA SaveStepKeeps ==
    ASSUME IInv, UNCHANGED <<boots, config, head, objects, tracked, reload, job>>,
           main # "down", main' \in {"running", "stopping", main},
           SaveOK', DiskOK', ReadLocked' => ~ WriteLocked
    PROVE  IInv'
BY DEF IInv, ProcessOK, ObjectsOK, TrackedOK, TrackedSelected, ReloadOK, WriteLocked, JobsOK,
       PointersLead, Exclusion

(* Taking the snapshot of one more validator. *)
LEMMA SnapshotTaken ==
    ASSUME SaveOK, NEW v \in save.todo, NEW known \in SUBSET Validators,
           NEW taken \in [known -> Good],
           save' = [pc |-> save.pc, todo |-> save.todo \ {v}, snapshots |-> taken],
           UNCHANGED tracked
    PROVE  SaveOK' /\ save'.pc = save.pc
<1>1. /\ save'.pc = save.pc /\ save'.todo = save.todo \ {v} /\ save'.snapshots = taken
      /\ DOMAIN taken = known
  OBVIOUS
<1>2. DOMAIN save'.snapshots = known
  BY <1>1
<1>3. taken \in [known -> ValidatorState]
  BY DEF Good
<1>4. save.todo \ {v} \subseteq Validators /\ save.pc = "snapshot"
  BY DEF SaveOK, Save
<1>5. save' \in Save(known)
  BY <1>3, <1>4 DEF Save, Snapshots
<1>6. \A u \in DOMAIN save'.snapshots : save'.snapshots[u] \in Good
  BY <1>1, <1>2
<1>7. save'.todo \subseteq tracked'
  BY <1>1, <1>4 DEF SaveOK
<1> QED
  BY <1>1, <1>2, <1>4, <1>5, <1>6, <1>7 DEF SaveOK

LEMMA SaveKeeps ==
    ASSUME IInv, Shutdown \/ SaveStep, ~ Exit
    PROVE  IInv'
<1> USE DEF IInv
<1>1. main # "down" /\ UNCHANGED <<boots, config, head, objects, tracked, reload, job>>
  <2>1. main = "down" => save.pc = "none" /\ save.todo = {}
    BY DEF Exclusion, NoSave
  <2> QED
    BY <2>1 DEF Shutdown, SaveStep, SaveBegin, SaveOne, SaveWrite, SaveSync, SaveRename, SaveSyncDir,
           SaveFails, outsideSave
<1>2. save \in Save(DOMAIN save.snapshots) /\ DOMAIN save.snapshots \subseteq Validators
  BY DEF SaveOK
<1>3. ASSUME NEW pc \in {"written", "synced", "renamed", "done"},
             save' = [save EXCEPT !.pc = pc], save.todo = {}
      PROVE  SaveOK'
  <2>1. save' = [pc |-> pc, todo |-> {}, snapshots |-> save.snapshots]
    BY <1>2, <1>3 DEF Save
  <2>2. save' \in Save(DOMAIN save.snapshots)
    BY <1>2, <2>1 DEF Save
  <2> QED
    BY <1>1, <2>1, <2>2 DEF SaveOK
<1>4. save.pc # "snapshot" => save.todo = {}
  BY DEF SaveOK
<1>5. ReadLocked => ~ WriteLocked
  BY DEF Exclusion
<1>6. ASSUME UNCHANGED <<main, disk>>, save'.pc = save.pc, SaveOK'
      PROVE  IInv'
  <2>1. DiskOK'
    BY <1>6 DEF DiskOK
  <2> QED
    BY <1>1, <1>5, <1>6, <2>1, SaveStepKeeps DEF ReadLocked
<1>7. CASE Shutdown
  <2>1. UNCHANGED <<save, disk>> /\ main' = "stopping"
    BY <1>7 DEF Shutdown
  <2>2. SaveOK' /\ DiskOK'
    BY <1>1, <2>1 DEF SaveOK, DiskOK
  <2> QED
    BY <1>1, <1>5, <2>1, <2>2, SaveStepKeeps DEF ReadLocked
<1>8. CASE SaveBegin
  <2>1. /\ save' = [pc |-> "snapshot", todo |-> tracked, snapshots |-> <<>>]
        /\ UNCHANGED <<main, disk>> /\ ~ WriteLocked
    BY <1>8 DEF SaveBegin
  <2>2. DOMAIN <<>> = {} /\ <<>> \in [{} -> ValidatorState]
    <3>1. <<>> \in Seq(ValidatorState) /\ Len(<<>>) = 0
      BY EmptySeq
    <3>2. <<>> \in [1..0 -> ValidatorState]
      BY <3>1, LenProperties
    <3> QED
      BY <3>2
  <2>3. tracked \subseteq Validators
    BY DEF TrackedOK
  <2>4. SaveOK'
    <3>1. save' \in Save({})
      BY <2>1, <2>2, <2>3 DEF Save, Snapshots
    <3> QED
      BY <1>1, <2>1, <2>2, <3>1 DEF SaveOK
  <2>5. DiskOK'
    BY <2>1 DEF DiskOK
  <2> QED
    BY <1>1, <2>1, <2>4, <2>5, SaveStepKeeps
<1>9. ASSUME NEW v \in Validators, SaveOne(v) PROVE IInv'
  <2> DEFINE object == objects[v][Len(objects[v])]
             snapshot == [window |-> Export(object.window), lastHeight |-> object.lastHeight,
                          down |-> object.down]
  <2>1. v \in save.todo /\ objects[v] # <<>>
    BY <1>9 DEF SaveOne, SaveOK, TrackedOK
  <2>2. object \in Good
    BY <2>1, NoObjectYet, ObjectGood
  <2>3. save' = [save EXCEPT !.todo = save.todo \ {v},
                    !.snapshots = [u \in DOMAIN save.snapshots \cup {v} |->
                                     IF u = v THEN snapshot ELSE save.snapshots[u]]]
    BY <1>9 DEF SaveOne
  <2> HIDE DEF object
  <2>4. snapshot \in Good
    BY <2>2, SnapshotKeepsGood
  <2> HIDE DEF snapshot
  <2> DEFINE known == DOMAIN save.snapshots \cup {v}
             taken == [u \in known |-> IF u = v THEN snapshot ELSE save.snapshots[u]]
  <2>5. SaveOK' /\ save'.pc = save.pc
    <3>1. taken \in [known -> Good] /\ known \in SUBSET Validators
      BY <2>4 DEF SaveOK
    <3>2. save' = [save EXCEPT !.todo = save.todo \ {v}, !.snapshots = taken]
      BY <2>3
    <3> HIDE DEF taken, known
    <3>3. save' = [pc |-> save.pc, todo |-> save.todo \ {v}, snapshots |-> taken]
      BY <1>2, <3>2 DEF Save
    <3> QED
      BY <1>1, <2>1, <3>1, <3>3, SnapshotTaken
  <2>6. UNCHANGED <<main, disk>>
    BY <1>9 DEF SaveOne
  <2> QED
    BY <1>6, <2>5, <2>6
<1>10. CASE SaveWrite
  <2>1. /\ save.pc = "snapshot" /\ save.todo = {} /\ UNCHANGED main
        /\ save' = [save EXCEPT !.pc = "written"]
        /\ disk' = [disk EXCEPT !.tmp = StateFile(save.snapshots, FALSE)]
    BY <1>10 DEF SaveWrite
  <2> DEFINE file == StateFile(save.snapshots, FALSE)
  <2>2. ExactFile(file) /\ file.kind = "state"
    <3>1. /\ save.snapshots \in Snapshots(DOMAIN save.snapshots)
          /\ DOMAIN save.snapshots \subseteq Validators
          /\ \A v \in DOMAIN save.snapshots : save.snapshots[v] \in Good
      BY DEF SaveOK, Save
    <3>2. /\ config.mode \in {"all", "selected"} /\ config.keys \in {c.keys : c \in Configs}
          /\ config.chain \in {c.chain : c \in Configs}
      BY RegistryAssumption DEF ProcessOK
    <3>3. file = [kind |-> "state", chain |-> config.chain, mode |-> config.mode, keys |-> config.keys,
                  validators |-> save.snapshots, synced |-> FALSE]
      BY DEF StateFile
    <3> HIDE DEF file
    <3>4. /\ file.validators = save.snapshots /\ file.kind = "state"
          /\ file \in [kind : {"state"}, chain : {c.chain : c \in Configs},
                       mode : {"all", "selected"}, keys : {c.keys : c \in Configs},
                       validators : Snapshots(DOMAIN file.validators), synced : BOOLEAN]
      BY <3>1, <3>2, <3>3
    <3> QED
      BY <3>1, <3>4 DEF ExactFile, IsFile
  <2> HIDE DEF file
  <2>3. disk' = [file |-> disk.file, tmp |-> file, undo |-> disk.undo]
    BY <2>1 DEF DiskOK, file
  <2>4. save'.pc = "written" /\ SaveOK'
    BY <1>2, <1>3, <2>1 DEF Save
  <2>5. DiskOK'
    BY <2>2, <2>3, <2>4 DEF DiskOK
  <2> QED
    BY <1>1, <1>5, <2>1, <2>4, <2>5, SaveStepKeeps DEF ReadLocked
<1>11. CASE SaveSync
  <2>1. /\ save.pc = "written" /\ UNCHANGED main
        /\ save' = [save EXCEPT !.pc = "synced"]
        /\ disk' = [disk EXCEPT !.tmp = [disk.tmp EXCEPT !.synced = TRUE]]
    BY <1>11 DEF SaveSync
  <2> DEFINE file == [disk.tmp EXCEPT !.synced = TRUE]
  <2>2. disk.tmp.kind = "state" /\ ExactFile(disk.tmp)
    BY <2>1 DEF DiskOK
  <2>3. disk.tmp \in [kind : {"state"}, chain : {c.chain : c \in Configs},
                      mode : {"all", "selected"}, keys : {c.keys : c \in Configs},
                      validators : Snapshots(DOMAIN disk.tmp.validators), synced : BOOLEAN]
    BY <2>2 DEF ExactFile, IsFile, NoFile, Torn
  <2>4. /\ file.validators = disk.tmp.validators /\ file.kind = "state" /\ file.synced
        /\ file \in [kind : {"state"}, chain : {c.chain : c \in Configs},
                     mode : {"all", "selected"}, keys : {c.keys : c \in Configs},
                     validators : Snapshots(DOMAIN disk.tmp.validators), synced : BOOLEAN]
    BY <2>3
  <2>5. disk' = [file |-> disk.file, tmp |-> file, undo |-> disk.undo]
    BY <2>1 DEF DiskOK
  <2> HIDE DEF file
  <2>6. ExactFile(file)
    BY <2>2, <2>4 DEF ExactFile, IsFile, NoFile, Torn
  <2>7. save'.pc = "synced" /\ SaveOK'
    BY <1>2, <1>3, <1>4, <2>1 DEF Save
  <2>8. DiskOK'
    BY <2>4, <2>5, <2>6, <2>7 DEF DiskOK
  <2> QED
    BY <1>1, <1>5, <2>1, <2>7, <2>8, SaveStepKeeps DEF ReadLocked
<1>12. ExactFile(NoFile)
  BY DEF ExactFile, IsFile, NoFile
<1>13. CASE SaveRename
  <2>1. /\ save.pc = "synced" /\ UNCHANGED main
        /\ save' = [save EXCEPT !.pc = "renamed"]
        /\ disk' = [file |-> disk.tmp, tmp |-> NoFile, undo |-> disk.undo \cup {disk.file}]
    BY <1>13 DEF SaveRename
  <2>2. save'.pc = "renamed" /\ SaveOK'
    BY <1>2, <1>3, <1>4, <2>1 DEF Save
  <2>3. Durable(disk.tmp)
    BY <2>1 DEF DiskOK, Durable
  <2>4. DiskOK'
    BY <1>12, <2>1, <2>2, <2>3 DEF DiskOK
  <2> QED
    BY <1>1, <1>5, <2>1, <2>2, <2>4, SaveStepKeeps DEF ReadLocked
<1>14. CASE SaveSyncDir
  <2>1. /\ save.pc = "renamed" /\ UNCHANGED main
        /\ save' = [save EXCEPT !.pc = "done"]
    BY <1>14 DEF SaveSyncDir
  <2>2. save'.pc = "done" /\ SaveOK'
    BY <1>2, <1>3, <1>4, <2>1 DEF Save
  <2>3. PICK undo \in SUBSET disk.undo : disk' = [disk EXCEPT !.undo = undo]
    BY <1>14 DEF SaveSyncDir
  <2>4. disk' = [file |-> disk.file, tmp |-> disk.tmp, undo |-> undo]
    BY <2>3 DEF DiskOK
  <2>5. DiskOK'
    BY <2>2, <2>4 DEF DiskOK
  <2> QED
    BY <1>1, <1>5, <2>1, <2>2, <2>5, SaveStepKeeps DEF ReadLocked
<1>15. CASE SaveFails
  <2>1. /\ save.pc \in {"snapshot", "written", "synced"} /\ save.todo = {} /\ UNCHANGED main
        /\ save' = [save EXCEPT !.pc = "done"]
    BY <1>4, <1>15 DEF SaveFails
  <2>2. save'.pc = "done" /\ SaveOK'
    BY <1>2, <1>3, <2>1 DEF Save
  <2>3. disk' = disk \/ disk' = [file |-> disk.file, tmp |-> NoFile, undo |-> disk.undo]
    BY <1>15 DEF SaveFails, DiskOK
  <2>4. DiskOK'
    BY <1>12, <2>2, <2>3 DEF DiskOK
  <2> QED
    BY <1>1, <1>5, <2>1, <2>2, <2>4, SaveStepKeeps DEF ReadLocked
<1> QED
  BY <1>7, <1>8, <1>9, <1>10, <1>11, <1>13, <1>14, <1>15 DEF SaveStep

-----------------------------------------------------------------------------
(* The theorems *)

LEMMA Inductive == IInv /\ [Next]_vars => IInv'
<1> SUFFICES ASSUME IInv, [Next]_vars PROVE IInv'
  OBVIOUS
<1>1. CASE UNCHANGED vars
  BY <1>1 DEF vars, memoryVars, IInv, ProcessOK, ObjectsOK, TrackedOK, TrackedSelected, ReloadOK,
              JobsOK, PointersLead, SaveOK, DiskOK, Exclusion, WriteLocked, ReadLocked
<1>2. CASE ProcessCrash \/ MachineCrash \/ Exit
  BY <1>2, DeathKeeps
<1>3. CASE Boot
  BY <1>3, BootKeeps
<1>4. CASE ReloadAnswered \/ ReloadStep
  BY <1>4, ReloadKeeps
<1>5. ASSUME NEW w \in Workers, CopyRegistry(w) \/ JobStep(w) PROVE IInv'
  BY <1>5, CopyKeeps, JobKeeps
<1>6. CASE (Shutdown \/ SaveStep) /\ ~ Exit
  BY <1>6, SaveKeeps
<1> QED
  BY <1>1, <1>2, <1>3, <1>4, <1>5, <1>6 DEF Next, SaveStep

THEOREM Invariance == Spec => []IInv
BY Initially, Inductive, PTL DEF Spec

(* The types of the registry, of its goroutines, of a save and of the      *)
(* files; every pointer leads to an object.                                *)
THEOREM TypeCorrect == Spec => []TypeOK
<1>1. IInv => TypeOK
  <2> SUFFICES ASSUME IInv PROVE TypeOK
    OBVIOUS
  <2>1. objects \in [Validators -> Seq(ValidatorState)]
    <3>1. \A o \in Good : o \in ValidatorState
      BY DEF Good
    <3>2. ASSUME NEW v \in Validators PROVE objects[v] \in Seq(ValidatorState)
      <4>1. objects[v] \in Seq(Good)
        BY DEF IInv, ObjectsOK
      <4> QED
        BY <3>1, <4>1, SeqMonotonic
    <3> QED
      BY <3>2 DEF IInv, ObjectsOK
  <2> QED
    BY <2>1 DEF IInv, ProcessOK, TrackedOK, ReloadOK, JobsOK, PointersLead, SaveOK, DiskOK,
                ExactFile, TypeOK
<1> QED
  BY <1>1, Invariance, PTL

(* Window.Add outside the lock of the validator, a snapshot between two    *)
(* writes of a goroutine, the file and Restore: none of them separates the *)
(* counter of a window from its items.                                     *)
THEOREM CountersCorrect == Spec => []CountersExact
<1>1. IInv => CountersExact
  <2> SUFFICES ASSUME IInv PROVE CountersExact
    OBVIOUS
  <2>1. ASSUME NEW v \in Validators, NEW i \in DOMAIN objects[v]
        PROVE  objects[v][i].window.missed = MissedIn(objects[v][i].window.items)
    BY ObjectGood DEF IInv, Good
  <2>2. ASSUME disk.file.kind = "state", NEW v \in DOMAIN disk.file.validators
        PROVE  disk.file.validators[v].window.missed
                 = MissedIn(disk.file.validators[v].window.items)
    BY <2>2 DEF IInv, DiskOK, ExactFile, Good
  <2> QED
    BY <2>1, <2>2 DEF CountersExact
<1> QED
  BY <1>1, Invariance, PTL

(* Save: whatever a crash of the machine brings back had been synced.      *)
THEOREM FileComplete == Spec => []FileNeverTorn
<1>1. IInv => FileNeverTorn
  BY DEF IInv, DiskOK, Durable, FileNeverTorn
<1> QED
  BY <1>1, Invariance, PTL

(* Start and Reload filter what the file and the contract name.            *)
THEOREM OnlySelectedTracked == Spec => []TrackedSelected
<1>1. IInv => TrackedSelected
  BY DEF IInv, TrackedOK
<1> QED
  BY <1>1, Invariance, PTL

(* Reload deletes a validator only if no answer named it.                  *)
THEOREM HistoriesKept == Spec => HistoryKept
<1> DEFINE Kept == \A v \in tracked :
                     Running' /\ WriteLocked /\ v \in reload.todo \cup reload.fetched
                         => v \in tracked' /\ Len(objects'[v]) = Len(objects[v])
<1>1. ASSUME IInv, [Next]_vars PROVE Kept
  <2> SUFFICES ASSUME NEW v \in tracked, Running', WriteLocked,
                      v \in reload.todo \cup reload.fetched
               PROVE  v \in tracked' /\ Len(objects'[v]) = Len(objects[v])
    OBVIOUS
  <2> USE <1>1
  <2>1. main # "down" /\ main' # "down" /\ reload.pc = "locked"
    BY DEF IInv, Exclusion, WriteLocked, NoReload, Running
  <2>2. CASE UNCHANGED <<tracked, objects>>
    BY <2>2
  <2>3. CASE ReloadFinish
    <3>1. v \in reload.fetched /\ UNCHANGED objects
      BY <2>3 DEF ReloadFinish
    <3> QED
      BY <2>3, <3>1 DEF ReloadFinish
  <2>4. ASSUME NEW u \in Validators, ReloadInfo(u), ~ UNCHANGED <<objects, tracked>>
        PROVE  v \in tracked' /\ Len(objects'[v]) = Len(objects[v])
    <3>1. /\ IsSelected(config, u) /\ EnsureObject(u) /\ UNCHANGED config
          /\ config \in Configs /\ ObjectsOK /\ TrackedOK
      BY <2>4 DEF ReloadInfo, outsideReload, IInv, ProcessOK
    <3> QED
      BY <3>1, EnsureObjectKeeps
  <2>5. ASSUME NEW w \in Workers, JobStep(w), UNCHANGED tracked, ~ UNCHANGED objects
        PROVE  Len(objects'[v]) = Len(objects[v])
    BY <2>5, JobKeeps DEF IInv, TrackedOK
  <2> QED
    BY <2>1, <2>2, <2>3, <2>4, <2>5
    DEF Next, vars, memoryVars, ProcessCrash, MachineCrash, LoseMemory, Boot, ReloadAnswered,
        ReloadStep, ReloadFails, ReloadLock, ReloadInfoFails, CopyRegistry, JobStep, AddToWindow,
        UpdateDown, FinishBlock, Shutdown, SaveStep, SaveBegin, SaveOne, SaveWrite, SaveSync,
        SaveRename, SaveSyncDir, SaveFails, Exit, outsideJob, outsideSave, outsideReload
<1> QED
  BY <1>1, Invariance, PTL DEF Spec, HistoryKept

=============================================================================
