------------------------------ MODULE ApplyFlow ------------------------------
(***************************************************************************)
(* sys apply and sys destroy (execute/apply.rs) against the state they     *)
(* leave on disk and in the world: the current snapshot, the bind state    *)
(* files, the build store and what the actions of binds have done.  Every  *)
(* step that writes a file or runs the actions of one bind is an action;   *)
(* any of them can fail and the process can be killed between any two.     *)
(* Executing the manifest is the specification ManifestExecution.          *)
(***************************************************************************)
EXTENDS StateDiff

CONSTANTS
  Configs,     \* the configurations a user may apply: sets of nodes
  Refs, AllUses,   \* references and uses of every node
  OutputUses,  \* those uses <<d, b>> an output of build b makes; <<b, b>>
               \* when an output of b mentions what an action of b gave
  DestroyMentions,  \* binds whose destroy actions mention a node, or what
                    \* the actions that created the bind gave
  Checked,     \* binds with check_actions that can run (they see no outputs)
  NoConfig,    \* no current snapshot
  Faults,      \* the kinds of failure that may happen
  MaxFaults    \* how many may happen during one command

FaultKinds == {"build", "create", "rollback", "destroy", "restore",
               "update", "repair", "crash", "drift"}

ASSUME ApplyFlowAssumption ==
  /\ \A c \in Configs : c \subseteq Node /\ UniqueIds(c)
  /\ NoConfig \notin Configs
  /\ Refs \subseteq Reference /\ AllUses \subseteq Node \X Node
  /\ OutputUses \subseteq {u \in AllUses : u[2] \in Build} \cup {<<b, b>> : b \in Build}
  /\ DestroyMentions \subseteq Bind
  /\ Faults \subseteq FaultKinds
  /\ MaxFaults \in Nat

VARIABLES
  current,     \* the snapshot index.json points to, as its nodes
  bindState,   \* binds with a state.json
  store,       \* build directories
  world,       \* what the actions of a bind have left in the system
  pc, cmd,     \* the running command and where it is
  desired,     \* desired_manifest
  repair,      \* options.repair
  pending,     \* what the loop being executed has left to do
  pair,        \* the (old, new) pair whose state files are being written
  known,       \* binds whose outputs build_restore_resolver_data has loaded
  destroyed,   \* destroyed_hashes
  manifest, level, phase, completed, broken, lost, toUndo,
               \* the execution, see ManifestExecution
  outcome,     \* how the last command ended
  faults,      \* history: the failures during this command
  settled      \* history: the binds in place when the last command ended

disk == <<current, bindState, store>>
locals == <<cmd, desired, repair, destroyed, known>>
execution == <<manifest, level, phase, completed, broken, lost, toUndo>>
history == <<outcome, faults, settled>>
vars == <<disk, world, pc, pending, pair, locals, execution, history>>

ME == INSTANCE ManifestExecution WITH Manifests <- {}

Effect == {"absent", "partial", "present"}

PC == {"idle", "destroying", "restoreAndFail", "update", "saveUpdated",
       "removeUpdated", "execute", "running", "restoreAndReset",
       "clearCurrent", "saveStates", "cleanup", "check", "repairing",
       "publish", "cleanupPartial"}

ManifestOf(nodes) ==
  [nodes |-> nodes,
   refs |-> {r \in Refs : r[2] \in nodes},
   uses |-> {u \in AllUses : u[2] \in nodes}]

NodesOf(c) == IF c = NoConfig THEN {} ELSE c

NoManifest == ManifestOf({})
NoLevels == [n \in {} |-> 0]

DiscardExecution ==
  /\ manifest' = NoManifest /\ level' = NoLevels /\ phase' = "idle"
  /\ completed' = {} /\ broken' = {} /\ lost' = {} /\ toUndo' = {}

ResetLocals ==
  /\ cmd' = "none" /\ desired' = {} /\ repair' = FALSE /\ destroyed' = {}
  /\ pending' = {} /\ pair' = <<>> /\ known' = {}
  /\ DiscardExecution

TypeOK ==
  /\ current \in Configs \cup {NoConfig}
  /\ bindState \subseteq Bind
  /\ store \in [Build -> {"absent", "partial", "complete"}]
  /\ world \in [Bind -> Effect]
  /\ pc \in PC
  /\ cmd \in {"none", "apply", "destroy"}
  /\ desired \in Configs \cup {{}}
  /\ repair \in BOOLEAN
  /\ pending \subseteq Bind \cup Bind \X Bind
  /\ pair \in {<<>>} \cup Bind \X Bind
  /\ destroyed \cup known \subseteq Bind
  /\ manifest \in Manifest
  /\ phase \in {"idle", "running", "undoing", "succeeded", "failed"}
  /\ completed \cup broken \cup lost \cup toUndo \subseteq manifest.nodes
  /\ outcome \in {"none", "ok", "error"}
  /\ faults \in 0 .. MaxFaults
  /\ settled \subseteq Bind

Init ==
  /\ current = NoConfig
  /\ bindState = {}
  /\ store = [b \in Build |-> "absent"]
  /\ world = [x \in Bind |-> "absent"]
  /\ pc = "idle" /\ cmd = "none" /\ desired = {} /\ repair = FALSE
  /\ destroyed = {} /\ pending = {} /\ pair = <<>> /\ known = {}
  /\ manifest = NoManifest /\ level = NoLevels /\ phase = "idle"
  /\ completed = {} /\ broken = {} /\ lost = {} /\ toUndo = {}
  /\ outcome = "none" /\ faults = 0 /\ settled = {}

\* What actions cut short leave behind: any of these binds may be half there.
Damage(binds) ==
  \E hit \in SUBSET binds :
    world' = [x \in Bind |-> IF x \in hit THEN "partial" ELSE world[x]]

InPlace(w) == {x \in Bind : w[x] = "present"}

Fault(kind) ==
  /\ kind \in Faults
  /\ faults < MaxFaults
  /\ faults' = faults + 1
  /\ UNCHANGED <<outcome, settled>>

NoFault == UNCHANGED history

\* The command returns: every local is gone, and the lock with it.
Return(result) ==
  /\ pc' = "idle"
  /\ outcome' = result
  /\ settled' = InPlace(world')
  /\ ResetLocals

ReturnWith(result, kind) ==
  /\ kind \in Faults
  /\ faults < MaxFaults
  /\ faults' = faults + 1
  /\ Return(result)

Step(from, to) == pc = from /\ pc' = to

-----------------------------------------------------------------------------
(* sys apply, up to the destroy phase.                                     *)

\* With an empty diff the code goes on to the drift check and the snapshot,
\* dry run or not; a dry run of a non-empty diff changes nothing.
Apply(c, withRepair) ==
  /\ pc = "idle"
  /\ cmd' = "apply" /\ desired' = c /\ repair' = withRepair
  /\ LET old == NodesOf(current)
         onDisk == {b \in Build : store[b] # "absent"}
     IN  IF DiffIsEmpty(c, old, onDisk)
         THEN pc' = "check" /\ pending' = {}
         ELSE pc' = "destroying" /\ pending' = binds_to_destroy(c, old)
  /\ outcome' = "none" /\ faults' = 0
  /\ UNCHANGED <<disk, world, destroyed, known, pair, execution, settled>>

SameLocals == UNCHANGED locals

LoadKnown == known' = bindState /\ UNCHANGED <<cmd, desired, repair, destroyed>>

StartRestore(at) == pc' = at /\ pending' = destroyed /\ LoadKnown

\* Mutants: a bind without state file stays in the list; the failed bind's
\* state file is cleaned up with the others.
KeepInList(x) == pending
CleanUpFailedToo(x) == destroyed \cup {x}

LeftInList(x) == pending \ {x}
ToCleanUp(x) == destroyed

\* destroy_removed_binds: a bind without a state file is skipped.
SkipDestroy(x) ==
  /\ pc = "destroying"
  /\ x \in pending \ bindState
  /\ pending' = LeftInList(x)
  /\ UNCHANGED <<disk, world, pc, pair, locals, execution>> /\ NoFault

\* destroy_bind resolves its actions against no builds, no binds and the
\* results of its own actions only.
DestroyResolves(x) == x \notin DestroyMentions

DestroyBind(x) ==
  /\ pc = "destroying"
  /\ x \in pending \cap bindState
  /\ DestroyResolves(x)
  /\ world' = [world EXCEPT ![x] = "absent"]
  /\ pending' = pending \ {x}
  /\ destroyed' = destroyed \cup {x}
  /\ UNCHANGED <<disk, pc, pair, cmd, desired, repair, known, execution>>
  /\ NoFault

\* The first failure ends the phase.  apply restores what it had destroyed
\* and destroy removes its state files; neither touches the failed bind.
LeaveDestroy(x, returning, going) ==
  /\ pc = "destroying"
  /\ x \in pending \cap bindState
  /\ Damage({x})
  /\ UNCHANGED disk
  /\ IF destroyed = {} THEN returning
     ELSE /\ going
          /\ IF cmd = "apply" THEN StartRestore("restoreAndFail")
             ELSE pc' = "cleanupPartial" /\ pending' = ToCleanUp(x) /\ SameLocals
          /\ UNCHANGED <<pair, execution>>

DestroyFails(x) == LeaveDestroy(x, ReturnWith("error", "destroy"), Fault("destroy"))

DestroyUnresolved(x) ==
  /\ ~DestroyResolves(x)
  /\ LeaveDestroy(x, Return("error") /\ UNCHANGED faults, NoFault)

DestroyPhaseDone ==
  /\ pc = "destroying"
  /\ pending = {}
  /\ IF cmd = "apply"
     THEN /\ pc' = "update"
          /\ pending' = binds_to_update(desired, NodesOf(current))
          /\ LoadKnown
     ELSE pc' = "cleanup" /\ pending' = destroyed /\ SameLocals
  /\ UNCHANGED <<disk, world, pair, execution>> /\ NoFault

-----------------------------------------------------------------------------
(* restore_destroyed_binds: wave by wave over the previous manifest.       *)

Restoring == pc \in {"restoreAndFail", "restoreAndReset"}

PreviousLevel(x) == Level(ManifestOf(NodesOf(current)), x)

WaveToRestore ==
  {x \in pending : \A y \in pending : PreviousLevel(x) <= PreviousLevel(y)}

\* build_restore_resolver_data, run once before the loop: the path of every
\* build of the manifest, and the outputs of its binds with a state file.
CanResolve(x, nodes) ==
  Substitutes(ManifestOf({x}), x, nodes \cap (Build \cup known))

RestoreBind(x) ==
  /\ Restoring
  /\ x \in WaveToRestore
  /\ CanResolve(x, NodesOf(current))
  /\ world' = [world EXCEPT ![x] = "present"]
  /\ bindState' = bindState \cup {x}
  /\ pending' = pending \ {x}
  /\ UNCHANGED <<current, store, pc, pair, locals, execution>> /\ NoFault

\* Mutant: the pointer is left as it is in both cases.
LeaveRestoreAlike(returning, going) == returning

\* The result of failing is dropped when the destroy phase failed, and clears
\* the pointer when the execution did.
LeaveRestore(returning, going) ==
  IF pc = "restoreAndFail" THEN returning
  ELSE /\ going
       /\ pc' = "clearCurrent"
       /\ UNCHANGED <<pending, pair, locals, execution>>

\* One failure ends the restore; dropping the JoinSet aborts the other
\* tasks of the wave wherever they are.
RestoreFails ==
  /\ Restoring
  /\ pending # {}
  /\ Damage(WaveToRestore)
  /\ UNCHANGED disk
  /\ LeaveRestore(ReturnWith("error", "restore"), Fault("restore"))

RestoreUnresolved ==
  /\ Restoring
  /\ \E x \in WaveToRestore : ~CanResolve(x, NodesOf(current))
  /\ Damage(WaveToRestore)
  /\ UNCHANGED disk
  /\ LeaveRestore(Return("error") /\ UNCHANGED faults, NoFault)

\* set_current(previous id) writes the pointer that is already there.
RestoreDone ==
  /\ Restoring
  /\ pending = {}
  /\ UNCHANGED <<disk, world, faults>>
  /\ Return("error")

ClearCurrent ==
  /\ pc = "clearCurrent"
  /\ current' = NoConfig
  /\ UNCHANGED <<bindState, store, world, faults>>
  /\ Return(IF cmd = "apply" THEN "error" ELSE "ok")

-----------------------------------------------------------------------------
(* update_modified_binds: before any build of this apply is realized.      *)

UpdateFails(o, n) ==
  /\ pc = "update"
  /\ <<o, n>> \in pending
  /\ o \in bindState
  /\ Damage({o, n})
  /\ ReturnWith("error", "update")
  /\ UNCHANGED disk

\* Nothing else is undone: the error leaves apply by the question mark.
CannotUpdate(o, n) ==
  /\ pc = "update"
  /\ <<o, n>> \in pending
  /\ IF o \in bindState THEN ~CanResolve(n, desired) /\ Damage({o, n})
     ELSE UNCHANGED world
  /\ Return("error")
  /\ UNCHANGED <<disk, faults>>

UpdateBind(o, n) ==
  /\ Step("update", "saveUpdated")
  /\ <<o, n>> \in pending
  /\ o \in bindState
  /\ CanResolve(n, desired)
  /\ world' = [world EXCEPT ![o] = "absent", ![n] = "present"]
  /\ pending' = pending \ {<<o, n>>}
  /\ pair' = <<o, n>>
  /\ UNCHANGED <<disk, locals, execution>> /\ NoFault

SaveUpdatedState ==
  /\ Step("saveUpdated", "removeUpdated")
  /\ bindState' = bindState \cup {pair[2]}
  /\ UNCHANGED <<current, store, world, pending, pair, locals, execution>>
  /\ NoFault

RemoveOldState ==
  /\ Step("removeUpdated", "update")
  /\ bindState' = bindState \ {pair[1]}
  /\ pair' = <<>>
  /\ UNCHANGED <<current, store, world, pending, locals, execution>> /\ NoFault

UpdatePhaseDone ==
  /\ Step("update", "execute")
  /\ pending = {}
  /\ UNCHANGED <<disk, world, pending, pair, locals, execution>> /\ NoFault

-----------------------------------------------------------------------------
(* execute_manifest on build_execution_manifest: all the builds desired,   *)
(* but only the binds to apply.                                            *)

\* Mutant: builds already in the store are left out.
ExecutionOfNewBuilds ==
  ManifestOf({b \in desired \cap Build : store[b] = "absent"}
               \cup binds_to_apply(desired, NodesOf(current)))

ExecutionOf(new, old) == ManifestOf((new \cap Build) \cup binds_to_apply(new, old))

ExecutionManifest == ExecutionOf(desired, NodesOf(current))

StartExecution ==
  /\ Step("execute", "running")
  /\ ValidManifest(ExecutionManifest)
  /\ ME!Start(ExecutionManifest)
  /\ UNCHANGED <<disk, world, pending, pair, locals>> /\ NoFault

\* An error of from_manifest leaves by the question mark: nothing restored.
RejectManifest ==
  /\ pc = "execute"
  /\ ~ValidManifest(ExecutionManifest)
  /\ UNCHANGED <<disk, world, faults>>
  /\ Return("error")

InExecution == UNCHANGED <<current, bindState, pc, pending, pair, locals>>

\* A build whose directory is complete runs no action.
CacheHit(n) == n \in Build /\ store[n] = "complete"

\* Its outputs are resolved all the same, against the builds completed in
\* this execution and no result of an action.
HitResolves(n) == {d \in Node : <<d, n>> \in OutputUses} \subseteq completed \cap Build

CompleteNode(n) ==
  /\ pc = "running"
  /\ ME!Complete(n)
  /\ IF CacheHit(n) THEN HitResolves(n) ELSE Substitutes(manifest, n, completed)
  /\ IF n \in Build
     THEN /\ store' = IF CacheHit(n) THEN store ELSE [store EXCEPT ![n] = "complete"]
          /\ UNCHANGED world
     ELSE world' = [world EXCEPT ![n] = "present"] /\ UNCHANGED store
  /\ InExecution /\ NoFault

\* A build directory without its marker; realize_build starts it anew.
LeftPartial(b) == store' = [store EXCEPT ![b] = "partial"]

\* A placeholder of n refers to something this execution has not produced.
NodeUnresolved(n) ==
  /\ pc = "running"
  /\ ME!Break(n)
  /\ ~CacheHit(n) /\ ~Substitutes(manifest, n, completed)
  /\ IF n \in Build
     THEN LeftPartial(n) /\ UNCHANGED world
     ELSE Damage({n}) /\ UNCHANGED store
  /\ InExecution /\ NoFault

\* The task of a build in the store ends with the error of its outputs.
HitUnresolved(n) ==
  /\ pc = "running"
  /\ ME!Break(n)
  /\ CacheHit(n) /\ ~HitResolves(n)
  /\ UNCHANGED <<store, world>>
  /\ InExecution /\ NoFault

BreakBuild(b) ==
  /\ pc = "running"
  /\ ME!Break(b)
  /\ b \in Build /\ ~CacheHit(b)
  /\ LeftPartial(b)
  /\ UNCHANGED world
  /\ InExecution /\ Fault("build")

BreakBind(x) ==
  /\ pc = "running"
  /\ ME!Break(x)
  /\ x \in Bind
  /\ Damage({x})
  /\ UNCHANGED store
  /\ InExecution /\ Fault("create")

GiveUp ==
  /\ pc = "running"
  /\ ME!GiveUp
  /\ UNCHANGED <<store, world>> /\ InExecution /\ NoFault

UndoBind(x) ==
  /\ pc = "running"
  /\ ME!Undo(x)
  /\ DestroyResolves(x)
  /\ world' = [world EXCEPT ![x] = "absent"]
  /\ UNCHANGED store /\ InExecution /\ NoFault

UndoFails(x) ==
  /\ pc = "running"
  /\ ME!Undo(x)
  /\ Damage({x})
  /\ UNCHANGED store /\ InExecution /\ Fault("rollback")

UndoUnresolved(x) ==
  /\ pc = "running"
  /\ ME!Undo(x)
  /\ ~DestroyResolves(x)
  /\ Damage({x})
  /\ UNCHANGED store /\ InExecution /\ NoFault

\* Mutant: what was destroyed stays destroyed.
NothingToRestore == {}

ToRestore == destroyed

RolledBack == phase = "undoing" /\ toUndo = {}

ExecutionFailed ==
  /\ pc = "running"
  /\ RolledBack
  /\ UNCHANGED <<disk, world>>
  /\ IF ToRestore = {}
     THEN Return("error") /\ UNCHANGED faults
     ELSE ME!Fail /\ StartRestore("restoreAndReset") /\ UNCHANGED pair /\ NoFault

ExecutionSucceeded ==
  /\ Step("running", "saveStates")
  /\ ME!Succeed
  /\ pending' = completed \cap Bind
  /\ UNCHANGED <<disk, world, pair, locals>> /\ NoFault

-----------------------------------------------------------------------------
(* After a successful execution.                                           *)

SaveState(x) ==
  /\ pc = "saveStates"
  /\ x \in pending
  /\ bindState' = bindState \cup {x}
  /\ pending' = pending \ {x}
  /\ UNCHANGED <<current, store, world, pc, pair, locals, execution>> /\ NoFault

StatesSaved ==
  /\ Step("saveStates", "cleanup")
  /\ pending = {}
  /\ pending' = destroyed
  /\ UNCHANGED <<disk, world, pair, locals, execution>> /\ NoFault

\* cleanup_destroyed_bind_states
RemoveState(x) ==
  /\ pc \in {"cleanup", "cleanupPartial"}
  /\ x \in pending
  /\ bindState' = bindState \ {x}
  /\ pending' = pending \ {x}
  /\ UNCHANGED <<current, store, world, pc, pair, locals, execution>> /\ NoFault

CleanupDone ==
  /\ Step("cleanup", IF cmd = "apply" THEN "check" ELSE "clearCurrent")
  /\ pending = {}
  /\ UNCHANGED <<disk, world, pending, pair, locals, execution>> /\ NoFault

PartialCleanupDone ==
  /\ pc = "cleanupPartial"
  /\ pending = {}
  /\ UNCHANGED <<disk, world, faults>>
  /\ Return("error")

\* check_unchanged_binds: only binds with check actions and a state file.
Drifted ==
  {x \in binds_unchanged(desired, NodesOf(current)) \cap Checked \cap bindState :
     world[x] # "present"}

Check ==
  /\ pc = "check"
  /\ IF repair /\ Drifted # {}
     THEN pc' = "repairing" /\ pending' = Drifted
     ELSE pc' = "publish" /\ UNCHANGED pending
  /\ UNCHANGED <<disk, world, pair, locals, execution>> /\ NoFault

\* repair_drifted_binds resolves against no builds and no binds at all.
RepairBind(x) ==
  /\ pc = "repairing"
  /\ x \in pending
  /\ Substitutes(ManifestOf({x}), x, {})
  /\ world' = [world EXCEPT ![x] = "present"]
  /\ bindState' = bindState \cup {x}
  /\ pending' = pending \ {x}
  /\ UNCHANGED <<current, store, pc, pair, locals, execution>> /\ NoFault

RepairFails ==
  /\ pc = "repairing"
  /\ pending # {}
  /\ Damage(pending)
  /\ ReturnWith("error", "repair")
  /\ UNCHANGED disk

RepairUnresolved ==
  /\ pc = "repairing"
  /\ \E x \in pending : ~Substitutes(ManifestOf({x}), x, {})
  /\ Damage(pending)
  /\ Return("error")
  /\ UNCHANGED <<disk, faults>>

RepairDone ==
  /\ Step("repairing", "publish")
  /\ pending = {}
  /\ UNCHANGED <<disk, world, pending, pair, locals, execution>> /\ NoFault

Snapshot == desired

\* save_and_set_current: the rename of index.json.
Publish ==
  /\ pc = "publish"
  /\ current' = Snapshot
  /\ UNCHANGED <<bindState, store, world, faults>>
  /\ Return("ok")

-----------------------------------------------------------------------------
(* sys destroy, and what happens to a command from outside.                *)

Destroy ==
  /\ pc = "idle"
  /\ current # NoConfig
  /\ cmd' = "destroy"
  /\ IF current \cap Bind = {}
     THEN pc' = "clearCurrent" /\ pending' = {}
     ELSE pc' = "destroying" /\ pending' = current \cap Bind
  /\ outcome' = "none" /\ faults' = 0
  /\ UNCHANGED <<disk, world, desired, repair, destroyed, known, pair, execution,
                 settled>>

\* The actions that can be running at this moment are cut short: those of one
\* bind in the destroy and update phases and in a rollback, of a whole wave
\* elsewhere.
Interrupt ==
  \/ Damage({})
  \/ pc = "destroying" /\ \E x \in pending \cap bindState : Damage({x})
  \/ Restoring /\ Damage(WaveToRestore)
  \/ pc = "update" /\ \E p \in pending : p[1] \in bindState /\ Damage({p[1], p[2]})
  \/ pc = "repairing" /\ Damage(pending)
  \/ pc = "running" /\ phase = "running" /\ Damage({x \in Bind : ME!MayEnd(x)})
  \/ pc = "running" /\ phase = "undoing" /\ \E x \in toUndo : Damage({x})

\* The process is killed; the kernel drops its flock.
Crash ==
  /\ pc # "idle"
  /\ Interrupt
  /\ \E builds \in SUBSET {b \in Build : pc = "running" /\ ME!MayEnd(b)} :
       store' = [b \in Build |->
                   IF b \in builds /\ ~CacheHit(b) THEN "partial" ELSE store[b]]
  /\ UNCHANGED <<current, bindState>>
  /\ ReturnWith("error", "crash")

\* Something else undoes what a bind had put in place.
Drift(x) ==
  /\ pc = "idle"
  /\ "drift" \in Faults
  /\ world[x] = "present"
  /\ world' = [world EXCEPT ![x] = "absent"]
  /\ settled' = InPlace(world')
  /\ UNCHANGED <<disk, pc, pending, pair, locals, execution, outcome, faults>>

Command == (\E c \in Configs, r \in BOOLEAN : Apply(c, r)) \/ Destroy

Work ==
  \/ \E x \in pending \cap Bind :
       \/ SkipDestroy(x) \/ DestroyBind(x) \/ DestroyFails(x) \/ DestroyUnresolved(x)
       \/ RestoreBind(x) \/ SaveState(x) \/ RemoveState(x) \/ RepairBind(x)
  \/ \E p \in pending \cap (Bind \X Bind) :
       \/ UpdateFails(p[1], p[2]) \/ CannotUpdate(p[1], p[2])
       \/ UpdateBind(p[1], p[2])
  \/ \E n \in manifest.nodes :
       \/ CompleteNode(n) \/ NodeUnresolved(n) \/ HitUnresolved(n) \/ BreakBuild(n)
       \/ BreakBind(n) \/ UndoBind(n) \/ UndoFails(n) \/ UndoUnresolved(n)
  \/ DestroyPhaseDone \/ RestoreFails \/ RestoreUnresolved \/ RestoreDone
  \/ ClearCurrent
  \/ SaveUpdatedState \/ RemoveOldState \/ UpdatePhaseDone
  \/ StartExecution \/ RejectManifest \/ GiveUp
  \/ ExecutionFailed \/ ExecutionSucceeded
  \/ StatesSaved \/ CleanupDone \/ PartialCleanupDone
  \/ Check \/ RepairFails \/ RepairUnresolved \/ RepairDone \/ Publish

Environment == Crash \/ \E x \in Bind : Drift(x)

Next == Command \/ Work \/ Environment

\* Actions end: a command that is not killed goes on to its end.
Spec == Init /\ [][Next]_vars /\ WF_vars(Work)

-----------------------------------------------------------------------------

Idle == pc = "idle"

(* What the properties below need of the configurations and the failures:  *)
(* apply has no way back from an update, an invalid manifest or a bind     *)
(* that can not be destroyed, and takes a build directory for a build when *)
(* nothing but builds has changed.                                         *)

Sides == Configs \cup {{}}

NothingUpdated == \A new, old \in Sides : binds_to_update(new, old) = {}

AllValid == \A c \in Configs : ValidManifest(ManifestOf(c))

BuildsFollowBinds ==
  \A new, old \in Sides : new \cap Bind = old \cap Bind => new = old

DestroysResolve == DestroyMentions = {}

Recoverable == NothingUpdated /\ AllValid /\ BuildsFollowBinds /\ DestroysResolve

\* No node uses what its inputs do not mention, or what is in place already.
UsesAreMentioned ==
  \A new \in Configs, old \in Sides :
    LET m == ExecutionOf(new, old)
    IN  \A n \in m.nodes : Uses(m, n) \subseteq Deps(m, n)

\* No output mentions what an action of its build gave: a hit can not know it.
HitsResolve == \A b \in Build : <<b, b>> \notin OutputUses

OnlyExecutionFails == Faults \cap {"destroy", "update", "crash", "drift"} = {}

OnlyBuildsFail == Faults \subseteq {"build", "repair"}

\* Whatever the execution of a manifest, its rollback and the restore ran
\* into, between commands the current snapshot tells what is in place: its
\* builds are complete, its binds are there and have their state files.
CurrentIsInPlace ==
  Idle =>
    /\ \A b \in NodesOf(current) \cap Build : store[b] = "complete"
    /\ \A x \in NodesOf(current) \cap Bind : world[x] = "present" /\ x \in bindState

\* A command during which nothing went wrong does not end with an error,
\* whatever went wrong in the commands before it.  It is a property of the
\* configurations that are Recoverable, UsesAreMentioned and HitsResolve only:
\* with others the code fails by itself.
FailsOnlyOnFaults == outcome = "error" => faults > 0

\* At every moment, also after a crash, what is in place of a bind of the
\* current snapshot can still be destroyed: its state file is not removed
\* before the bind is gone.
CurrentCanBeDestroyed ==
  \A x \in NodesOf(current) \cap Bind : world[x] # "absent" => x \in bindState

\* Neither the destroy phase, updates, rollback nor restore ever touches a
\* bind that is in the current snapshot and in the one being applied.
KeptBindsUntouched ==
  [][\A x \in NodesOf(current) \cap desired \cap Bind :
       cmd = "apply" /\ pc # "repairing" => world'[x] = world[x]]_vars

\* Every command ends, whatever fails.
CommandsEnd == []<>Idle

-----------------------------------------------------------------------------
(* Refinement: when only builds fail, a command takes effect at once as a  *)
(* whole when it ends, or not at all.                                      *)

AA == INSTANCE AtomicApply WITH
        Configurations <- Configs, configured <- current, installed <- settled

ImplementsAtomicApply == AA!Spec

=============================================================================
