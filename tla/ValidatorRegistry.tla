-------------------------- MODULE ValidatorRegistry --------------------------
(***************************************************************************)
(* The registry of validators over the life of the process: it is loaded   *)
(* from the state file at start, reloaded from the staking contract by a   *)
(* ticker, written by block goroutines through the pointers of a copied    *)
(* map, and saved to the state file at a graceful shutdown                 *)
(* (internal/validators/registry.go, internal/validators/state.go,         *)
(* cmd/monitor/main.go).                                                   *)
(*                                                                         *)
(* A ValidatorState is an object behind a pointer. When a reload drops a   *)
(* validator and a later one adds it again, the new object starts empty    *)
(* while goroutines may still write the old one: `objects[v]' holds every  *)
(* object that v has had since the start, and the map points to the last.  *)
(* Descriptive metadata (names, stake, endpoints) is left out. Block h has *)
(* timestamp h.                                                            *)
(***************************************************************************)
EXTENDS RollingWindow

CONSTANTS
    Validators,     \* the validators the contract may list
    Workers,        \* bound: the block goroutines alive at one time
    Configs,        \* the configurations a start may find: [chain, mode, keys,
                    \* window]; a key need not be one that the contract lists
    InfoMayFail,    \* may GetValidatorInfo fail while the context is alive?
    MaxHeight,      \* bound: the blocks produced
    MaxBoots,       \* bound: the starts of the process
    MaxObjects,     \* bound: the objects of one validator in one life
    MinBlocks       \* minBlocksForDownAlert

ASSUME RegistryAssumption ==
    /\ \A c \in Configs : /\ c.mode \in {"all", "selected"}
                          /\ c.window \in Nat \ {0}
    /\ InfoMayFail \in BOOLEAN
    /\ MaxHeight \in Nat /\ MaxBoots \in Nat /\ MaxObjects \in Nat /\ MinBlocks \in Nat

VARIABLES
    main,     \* where main is
    boots,    \* number of starts so far
    config,   \* the configuration of this life
    head,     \* height of the newest block
    objects,  \* the ValidatorStates of each validator, oldest first
    tracked,  \* the validators in the map
    reload,   \* the reload in progress
    job,      \* the block goroutines
    save,     \* the save in progress
    disk      \* the state file, its temporary file, and what a rename may undo to

memoryVars == <<objects, tracked, reload, job, save>>
vars == <<main, boots, config, head, memoryVars, disk>>

NewState == [window |-> NewWindow(config.window), lastHeight |-> 0, down |-> FALSE]

NoReload == [pc |-> "none", ids |-> {}, todo |-> {}, fetched |-> {}]
IdleJob  == [pc |-> "idle", height |-> 0, signers |-> {}, todo |-> {}, adding |-> {}]
NoSave   == [pc |-> "none", todo |-> {}, snapshots |-> <<>>]

(* A file: none, one whose content was lost, or a state that was written.  *)
NoFile == [kind |-> "none"]
Torn   == [kind |-> "torn"]
StateFile(snapshots, synced) ==
    [kind |-> "state", chain |-> config.chain, mode |-> config.mode, keys |-> config.keys,
     validators |-> snapshots, synced |-> synced]

Init ==
    /\ main = "down"
    /\ boots = 0
    /\ config \in Configs
    /\ head = 0
    /\ objects = [v \in Validators |-> <<>>]
    /\ tracked = {}
    /\ reload = NoReload
    /\ job = [w \in Workers |-> IdleJob]
    /\ save = NoSave
    /\ disk = [file |-> NoFile, tmp |-> NoFile, undo |-> {}]

Running == main # "down"

(* r.mu: a reload writes it from the answer of GetActiveValidators to its  *)
(* end, over all its calls of GetValidatorInfo; a save reads it to its end.*)
WriteLocked == reload.pc = "locked"
ReadLocked  == save.pc \notin {"none", "done"}

-----------------------------------------------------------------------------
(* The fate of the process *)

LoseMemory ==
    /\ main' = "down"
    /\ objects' = [v \in Validators |-> <<>>]
    /\ tracked' = {}
    /\ reload' = NoReload
    /\ job' = [w \in Workers |-> IdleJob]
    /\ save' = NoSave

(* The process dies; what it has written to the file system remains.       *)
ProcessCrash ==
    /\ Running
    /\ LoseMemory
    /\ UNCHANGED <<boots, config, head, disk>>

(* The machine dies: a rename whose directory was not synced may be undone,*)
(* and a file whose content was not synced is torn.                        *)
MachineCrash ==
    /\ Running
    /\ LoseMemory
    /\ \E f \in {disk.file} \cup disk.undo :
          disk' = [file |-> IF f.kind = "state" /\ ~ f.synced THEN Torn ELSE f,
                   tmp |-> NoFile, undo |-> {}]
    /\ UNCHANGED <<boots, config, head>>

-----------------------------------------------------------------------------
(* Start *)

(* shouldLoadState: the state of another chain, of another mode or of      *)
(* another selection is ignored. A chain may have no name, and no hash is  *)
(* stored for an empty list of keys.                                       *)
ShouldLoad(file, c) ==
    /\ file.chain \in {"", c.chain}
    /\ file.mode = c.mode
    /\ file.keys # {} => file.keys = c.keys

IsSelected(c, v) == c.mode = "selected" => v \in c.keys

(* The validators that Start takes from the file. A torn file does not     *)
(* parse and is ignored with a warning.                                    *)
Loadable(c) ==
    IF disk.file.kind = "state" /\ ShouldLoad(disk.file, c)
    THEN {v \in DOMAIN disk.file.validators : IsSelected(c, v)}
    ELSE {}

(* Mutation: the counter of the window is not restored. *)
SnapshotToStateUncounted(snapshot, duration) ==
    [window     |-> [Restore(NewWindow(duration), snapshot.window) EXCEPT !.missed = 0],
     lastHeight |-> snapshot.lastHeight,
     down       |-> snapshot.down]

(* A new window of the configured duration, which Restore then overwrites. *)
SnapshotToState(snapshot, duration) ==
    [window     |-> Restore(NewWindow(duration), snapshot.window),
     lastHeight |-> snapshot.lastHeight,
     down       |-> snapshot.down]

(* Registry.Start up to its first Reload. *)
Boot ==
    /\ main = "down"
    /\ boots < MaxBoots
    /\ boots' = boots + 1
    /\ main' = "starting"
    /\ \E c \in Configs :
        /\ config' = c
        /\ tracked' = Loadable(c)
        /\ objects' = [v \in Validators |->
              IF v \in Loadable(c)
              THEN <<SnapshotToState(disk.file.validators[v], c.window)>>
              ELSE <<>>]
    /\ UNCHANGED <<head, reload, job, save, disk>>

-----------------------------------------------------------------------------
(* Reload, called by Start and then by a ticker until the context ends *)

outsideReload == <<boots, config, head, job, save, disk>>

AfterReload == IF main = "starting" THEN "running" ELSE main

(* Reload fails before it takes the lock: it changes nothing, and main     *)
(* starts the listeners all the same.                                      *)
ReloadFails ==
    /\ main = "starting" \/ reload.pc = "answered"
    /\ ~ WriteLocked
    /\ main' = AfterReload
    /\ reload' = NoReload
    /\ UNCHANGED <<objects, tracked, outsideReload>>

(* GetActiveValidators answers with whatever the contract lists by now. *)
ReloadAnswered ==
    /\ main \in {"starting", "running"}
    /\ reload.pc = "none"
    /\ \E ids \in SUBSET Validators :
          reload' = [NoReload EXCEPT !.pc = "answered", !.ids = ids]
    /\ UNCHANGED <<main, objects, tracked, outsideReload>>

ReloadLock ==
    /\ reload.pc = "answered"
    /\ ~ ReadLocked
    /\ reload' = [reload EXCEPT !.pc = "locked", !.todo = reload.ids]
    /\ tracked' = {v \in tracked : IsSelected(config, v)}
    /\ UNCHANGED <<main, objects, outsideReload>>

(* GetValidatorInfo fails for v, as it does when the context is cancelled. *)
ReloadInfoFails(v) ==
    /\ v \in reload.todo
    /\ InfoMayFail \/ main = "stopping"
    /\ reload' = [reload EXCEPT !.todo = @ \ {v}]
    /\ UNCHANGED <<main, objects, tracked, outsideReload>>

(* Mutation: a validator that is known gets a new object as well. *)
RenewObject(v) ==
    /\ tracked' = tracked \cup {v}
    /\ objects' = [objects EXCEPT ![v] = Append(@, NewState)]

(* Mutation: a reload leaves a key without an object behind. *)
EnsureKeyOnly(v) ==
    /\ tracked' = tracked \cup {v}
    /\ UNCHANGED objects

(* A validator that is not in the map gets an empty state. *)
EnsureObject(v) ==
    /\ tracked' = tracked \cup {v}
    /\ objects' = IF v \in tracked THEN objects
                  ELSE [objects EXCEPT ![v] = Append(@, NewState)]

(* Mutation: the mode does not filter what the contract lists. *)
ReloadInfoUnfiltered(v) ==
    /\ v \in reload.todo
    /\ Len(objects[v]) < MaxObjects
    /\ reload' = [reload EXCEPT !.todo = @ \ {v}, !.fetched = @ \cup {v}]
    /\ EnsureObject(v)
    /\ UNCHANGED <<main, outsideReload>>

(* GetValidatorInfo answers; an answer that was under way when the context *)
(* was cancelled may still count.                                          *)
ReloadInfo(v) ==
    /\ v \in reload.todo
    /\ v \in tracked \/ Len(objects[v]) < MaxObjects
    /\ reload' = [reload EXCEPT !.todo = @ \ {v},
                     !.fetched = IF IsSelected(config, v) THEN @ \cup {v} ELSE @]
    /\ IF IsSelected(config, v) THEN EnsureObject(v) ELSE UNCHANGED <<objects, tracked>>
    /\ UNCHANGED <<main, outsideReload>>

(* Mutation: the end of a reload does not unlock r.mu. *)
ReloadFinishLocked ==
    /\ WriteLocked
    /\ reload.todo = {}
    /\ tracked' = tracked \cap reload.fetched
    /\ main' = AfterReload
    /\ UNCHANGED <<reload, objects, outsideReload>>

(* What no answer of this reload named is deleted, and r.mu is unlocked.   *)
ReloadFinish ==
    /\ WriteLocked
    /\ reload.todo = {}
    /\ tracked' = tracked \cap reload.fetched
    /\ reload' = NoReload
    /\ main' = AfterReload
    /\ UNCHANGED <<objects, outsideReload>>

-----------------------------------------------------------------------------
(* A block goroutine: updateValidatorsFromProof *)

outsideJob == <<main, boots, config, tracked, reload, save, disk>>

(* It has the proof of a new block and copies the map, that is, pointers.  *)
CopyRegistry(w) ==
    /\ main \in {"running", "stopping"}
    /\ ~ WriteLocked
    /\ job[w].pc = "idle"
    /\ head < MaxHeight
    /\ head' = head + 1
    /\ \E S \in SUBSET Validators :
          job' = [job EXCEPT ![w] = [pc |-> "update", height |-> head + 1, signers |-> S,
                                     todo |-> {<<v, Len(objects[v])>> : v \in tracked},
                                     adding |-> {}]]
    /\ UNCHANGED <<objects, outsideJob>>

(* Window.Add through the pointer, outside the lock of the validator. *)
AddToWindow(w) ==
    /\ job[w].adding = {}
    /\ \E p \in job[w].todo :
        LET v == p[1]
            h == job[w].height
        IN  /\ objects' = [objects EXCEPT ![v][p[2]].window =
                              Add(@, v \in job[w].signers, h, h)]
            /\ job' = [job EXCEPT ![w].adding = {p}, ![w].todo = @ \ {p}]
    /\ UNCHANGED <<head, outsideJob>>

AllMissed(window) ==
    LET stats == GetStats(window)
    IN  stats.total >= MinBlocks /\ stats.missed = stats.total

(* The section under the validator's lock that follows the Add. *)
UpdateDown(w) ==
    /\ \E p \in job[w].adding :
        LET v == p[1]
            o == objects[v][p[2]]
            h == job[w].height
            participated == v \in job[w].signers
            newest == IF participated /\ h > o.lastHeight THEN h ELSE o.lastHeight
        IN  objects' = [objects EXCEPT ![v][p[2]].lastHeight = newest,
                           ![v][p[2]].down = ~ participated /\ (@ \/ AllMissed(o.window))]
    /\ job' = [job EXCEPT ![w].adding = {}]
    /\ UNCHANGED <<head, outsideJob>>

FinishBlock(w) ==
    /\ job[w].pc = "update"
    /\ job[w].todo = {}
    /\ job[w].adding = {}
    /\ job' = [job EXCEPT ![w] = IdleJob]
    /\ UNCHANGED <<objects, head, outsideJob>>

-----------------------------------------------------------------------------
(* A graceful shutdown: cancel, then SaveState by the main goroutine *)

outsideSave == <<boots, config, head, objects, tracked, reload, job>>

(* The signal is awaited only once everything is started. *)
Shutdown ==
    /\ main = "running"
    /\ main' = "stopping"
    /\ UNCHANGED <<save, disk, outsideSave>>

SaveBegin ==
    /\ main = "stopping"
    /\ save.pc = "none"
    /\ ~ WriteLocked
    /\ save' = [pc |-> "snapshot", todo |-> tracked, snapshots |-> <<>>]
    /\ UNCHANGED <<main, disk, outsideSave>>

(* The snapshot of one validator, under its lock; a block goroutine may be *)
(* between its Add and its UpdateDown.                                     *)
SaveOne(v) ==
    /\ v \in save.todo
    /\ LET o == objects[v][Len(objects[v])]
           snapshot == [window |-> Export(o.window), lastHeight |-> o.lastHeight,
                        down |-> o.down]
       IN  save' = [save EXCEPT !.todo = @ \ {v},
                                !.snapshots = [u \in DOMAIN @ \cup {v} |->
                                                 IF u = v THEN snapshot ELSE @[u]]]
    /\ UNCHANGED <<main, disk, outsideSave>>

(* The temporary file is created and written. *)
SaveWrite ==
    /\ save.pc = "snapshot"
    /\ save.todo = {}
    /\ save' = [save EXCEPT !.pc = "written"]
    /\ disk' = [disk EXCEPT !.tmp = StateFile(save.snapshots, FALSE)]
    /\ UNCHANGED <<main, outsideSave>>

(* Mutation: the temporary file is closed without a sync. *)
SaveWithoutSync ==
    /\ save.pc = "written"
    /\ save' = [save EXCEPT !.pc = "synced"]
    /\ UNCHANGED <<main, disk, outsideSave>>

SaveSync ==
    /\ save.pc = "written"
    /\ save' = [save EXCEPT !.pc = "synced"]
    /\ disk' = [disk EXCEPT !.tmp.synced = TRUE]
    /\ UNCHANGED <<main, outsideSave>>

SaveRename ==
    /\ save.pc = "synced"
    /\ save' = [save EXCEPT !.pc = "renamed"]
    /\ disk' = [file |-> disk.tmp, tmp |-> NoFile, undo |-> disk.undo \cup {disk.file}]
    /\ UNCHANGED <<main, outsideSave>>

(* The sync of the directory, whose own failure nobody looks at. *)
SaveSyncDir ==
    /\ save.pc = "renamed"
    /\ save' = [save EXCEPT !.pc = "done"]
    /\ \E failed \in BOOLEAN :
          disk' = [disk EXCEPT !.undo = IF failed THEN @ ELSE {}]
    /\ UNCHANGED <<main, outsideSave>>

(* Creating, writing, syncing or closing the temporary file fails and it   *)
(* is removed, or the rename fails and it stays.                           *)
SaveFails ==
    /\ \/ save.pc = "snapshot" /\ save.todo = {} /\ UNCHANGED disk
       \/ save.pc \in {"written", "synced"} /\ disk' = [disk EXCEPT !.tmp = NoFile]
       \/ save.pc = "synced" /\ UNCHANGED disk
    /\ save' = [save EXCEPT !.pc = "done"]
    /\ UNCHANGED <<main, outsideSave>>

(* main returns, and every goroutine dies with it. *)
Exit ==
    /\ save.pc = "done"
    /\ LoseMemory
    /\ UNCHANGED <<boots, config, head, disk>>

-----------------------------------------------------------------------------
ReloadStep ==
    \/ ReloadFails
    \/ ReloadLock
    \/ \E v \in Validators : ReloadInfo(v) \/ ReloadInfoFails(v)
    \/ ReloadFinish

JobStep(w) == AddToWindow(w) \/ UpdateDown(w) \/ FinishBlock(w)

SaveStep ==
    \/ SaveBegin
    \/ \E v \in Validators : SaveOne(v)
    \/ SaveWrite
    \/ SaveSync
    \/ SaveRename
    \/ SaveSyncDir
    \/ SaveFails
    \/ Exit

Next ==
    \/ ProcessCrash
    \/ MachineCrash
    \/ Boot
    \/ ReloadAnswered
    \/ ReloadStep
    \/ \E w \in Workers : CopyRegistry(w) \/ JobStep(w)
    \/ Shutdown
    \/ SaveStep

Spec == Init /\ [][Next]_vars

(* A save goes on, and so does a reload once the shutdown has cancelled    *)
(* the context of its requests; before that they have no time limit, and   *)
(* nothing obliges them to end.                                            *)
Fairness == WF_vars(main = "stopping" /\ ReloadStep) /\ WF_vars(SaveStep)

FairSpec == Spec /\ Fairness

-----------------------------------------------------------------------------
(* Properties *)

ValidatorState == [window : Window, lastHeight : Nat, down : BOOLEAN]

Snapshots(known) == [known -> ValidatorState]

IsFile(f) ==
    \/ f \in {NoFile, Torn}
    \/ /\ f \in [kind : {"state"}, chain : {c.chain : c \in Configs},
                 mode : {"all", "selected"}, keys : {c.keys : c \in Configs},
                 validators : Snapshots(DOMAIN f.validators), synced : BOOLEAN]
       /\ DOMAIN f.validators \subseteq Validators

Reload == [pc : {"none", "answered", "locked"}, ids : SUBSET Validators,
           todo : SUBSET Validators, fetched : SUBSET Validators]

Pointer == Validators \X (Nat \ {0})

Job == [pc : {"idle", "update"}, height : 0..MaxHeight, signers : SUBSET Validators,
        todo : SUBSET Pointer, adding : SUBSET Pointer]

Save(known) ==
    [pc : {"none", "snapshot", "written", "synced", "renamed", "done"},
     todo : SUBSET Validators, snapshots : Snapshots(known)]

(* Type correctness. A pointer leads to an object, in the map, in the copy *)
(* of a block goroutine and in a save.                                     *)
TypeOK ==
    /\ main \in {"down", "starting", "running", "stopping"}
    /\ boots \in 0..MaxBoots
    /\ config \in Configs
    /\ head \in 0..MaxHeight
    /\ objects \in [Validators -> Seq(ValidatorState)]
    /\ tracked \in SUBSET {v \in Validators : objects[v] # <<>>}
    /\ reload \in Reload
    /\ job \in [Workers -> Job]
    /\ \A w \in Workers : \A p \in job[w].todo \cup job[w].adding :
          p[2] \in DOMAIN objects[p[1]]
    /\ save \in Save(DOMAIN save.snapshots)
    /\ DOMAIN save.snapshots \subseteq Validators
    /\ save.todo \subseteq tracked
    /\ disk = [file |-> disk.file, tmp |-> disk.tmp, undo |-> disk.undo]
    /\ \A f \in {disk.file, disk.tmp} \cup disk.undo : IsFile(f)

(* The missed counter of a window is the number of its missed blocks: in   *)
(* every object that a goroutine may write, in what is being saved, in the *)
(* file, and in what is restored from it.                                  *)
CountersExact ==
    LET Exact(w) == w.missed = MissedIn(w.items)
    IN  /\ \A v \in Validators : \A i \in DOMAIN objects[v] : Exact(objects[v][i].window)
        /\ disk.file.kind = "state" => \A v \in DOMAIN disk.file.validators :
              Exact(disk.file.validators[v].window)

(* At whatever point of a save the process or the machine dies, the state  *)
(* file is a complete one or there has never been one: Save writes a       *)
(* temporary file, syncs it and renames it.                                *)
FileNeverTorn == disk.file.kind # "torn"

(* In mode "selected" the map holds selected validators only, through      *)
(* restarts with other configurations and at every moment of a reload.     *)
TrackedSelected == \A v \in tracked : IsSelected(config, v)

(* A reload keeps the object, and so the history and the pointers that     *)
(* goroutines have copied, of every validator that it has still to ask for *)
(* or was answered about, whatever other requests fail. One whose own      *)
(* request fails is not among them: the code deletes it with those that    *)
(* the contract no longer lists, which this property does not condemn.     *)
HistoryKept ==
    [][\A v \in tracked :
          Running' /\ WriteLocked /\ v \in reload.todo \cup reload.fetched
              => v \in tracked' /\ Len(objects'[v]) = Len(objects[v])]_vars

(* A shutdown ends: SaveState waits for the lock of a reload under way,    *)
(* which the cancelled context cuts short.                                 *)
ShutdownCompletes == main = "stopping" ~> main = "down"
=============================================================================
