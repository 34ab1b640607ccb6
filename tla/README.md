# A verification of syslua in TLA+

syslua (`sys`) makes a machine match a Lua configuration: it realizes *builds*
into a content-addressed store, applies *binds* (changes to the system that can
be undone), and records each result as a *snapshot*. These modules model the
part of it where order, concurrency and failure decide whether that promise is
kept: the resolution of a configuration's inputs and its lock file, the evaluation
of the configuration into a manifest, the dependency graph and its waves, the parallel
executor with its rollback, what realizing a build and running a bind's actions means
over a store that failures have left something in, the apply and destroy commands
with their failure and recovery paths, the snapshot store that several `sys`
processes write and others only read, and the files kept for the editor. TLC checks the
models on small instances; TLAPS proves their safety properties for every instance.

Paths below are relative to `src/crates/`; `L/` stands for `lib/src/`, `C/` for
`cli/src/cmd/`, and `RE`, `AP` for `L/inputs/resolve.rs` and `L/execute/apply.rs`.

## 1. Inventory

| component | state it keeps | operations | talks to |
|---|---|---|---|
| execution DAG `L/execute/dag.rs` | graph of builds and binds | `from_manifest`, `execution_waves`, `build_waves` | manifest, executor |
| manifest executor `L/execute/mod.rs` | completed builds and binds, order of completion, first failure | `execute_manifest`, `execute_build_wave`, `execute_bind_wave`, `rollback_binds`, `execute_builds` | DAG, build and bind execution |
| placeholders `L/execute/resolver.rs`, `L/placeholder.rs` | views of completed nodes | resolve a mention | executor, apply |
| state diff `L/snapshot/diff.rs` | none | `compute_diff`, `is_empty` | store directories |
| apply, destroy `L/execute/apply.rs` | nothing of its own; files | `apply`, `destroy` and their phases | all of the above, snapshots, bind state |
| bind state `L/bind/state.rs`, `L/bind/store.rs` | one `state.json` per bind | save, load, remove | apply |
| bind execution `L/bind/execute.rs` | the system itself | apply, destroy, update, check | actions |
| build realization, store `L/build/*.rs` | a directory per build, completion marker with content hash | `realize_build_with_resolver` | executor, gc |
| snapshot store `L/snapshot/*.rs` | a file per snapshot, `index.json` | add, remove, set and clear current, tags | apply, destroy, gc, snapshot commands |
| store lock `L/store_lock.rs` | advisory lock on one file | `acquire`, never waits | every writing command |
| gc `L/gc/mod.rs` | none | `collect_garbage` | snapshots, build store, inputs cache |
| snapshot commands `C/snapshot.rs` | what they read before they lock | list, show, delete, tag, untag | snapshot store |
| inputs `L/inputs/*.rs` | lock file `syslua.lock`, a clone per input name | `resolve_inputs`, `fetch_git`, follows chains, namespace conflicts | evaluation, update |
| update `L/update/mod.rs`, `C/update.rs` | none | `update_inputs`, `--dry-run` | inputs |
| evaluation `L/eval.rs`, `L/lua`, `L/bind/lua.rs`, `L/build/lua.rs` | the Lua state, the manifest | `evaluate_config`, `sys.build`, `sys.bind`, setups | inputs, apply, plan |
| Lua globals and values `L/lua/globals.rs`, `L/lua/helpers`, `L/outputs/lua.rs` | none | `sys.path`, `sys.mktime`, conversions of inputs and outputs | evaluation, bind execution |
| actions, hashing `L/action`, `L/util/hash.rs` | none | fetch, exec, `hash_directory` | build and bind execution |
| plan, diff, status `C/plan.rs`, `C/diff.rs`, `C/status.rs` | what they read | read, print | snapshot store, build store |
| init `L/init`, `C/init.rs` | `init.lua`, `.luarc.json` | `init`, `update_luarc_inputs` | the user, every resolution |
| command line, info, platform, Lua library | none | parse, print, paths and links | |

How they interact. `sys apply` takes the store's lock, loads the current snapshot,
evaluates the configuration into a manifest (for which it resolves the inputs, reads and
rewrites their lock file and updates `.luarc.json`; `sys plan` and `sys update` do that
without any lock), diffs the two, destroys what is
gone, updates what changed in place, executes what is new through the executor,
saves a state file per bind, removes those of destroyed binds, checks the rest for
drift, and publishes a snapshot: its file first, then `index.json`. The executor
spawns a tokio task per node of a wave, bounded by a semaphore, collects their
results, and on the first error goes back over the binds it has recorded. Processes
only meet in files: the index, the snapshots, the build directories, the lock.

What is hard:

- task interleavings within a wave, errors processed while other tasks of the
  group have already had their effects, tasks that panic;
- the many ways an apply can stop, each with its own recovery (rollback of new
  binds, restore of destroyed ones, the pointer set back, or cleared), any
  of which can fail again, and a kill between any two writes;
- sequences of commands: what a failed apply leaves must be something the
  next command can work with;
- several processes over one index: what is read before the lock and used after it,
  and readers that never lock;
- store directories left by a failed, killed or damaged build, which a later
  command takes for the real thing or not; placeholders that resolve in one
  operation of a bind and not in another;
- inputs that depend on one another in cycles, follow one another, and are pinned
  by lock files of their own, with a shared lock file and shared clones that no lock
  protects, repositories that advance and an update that overlaps an apply;
- Lua programs that register, replace and abandon definitions in nested calls.

What makes each part correct:

- *DAG*: a wave holds exactly the nodes whose dependencies are all in earlier
  waves, no later than necessary; an error is only reported for a real cycle.
- *Executor*: nothing starts before its dependencies; nothing starts after an
  error; what was applied is undone, dependents first; it ends.
- *Apply*: all or nothing; the current snapshot tells what is in place; a bind
  in place never loses its state file; common binds are never touched; the
  command ends; nothing fails unless something failed.
- *Snapshot store, lock, gc*: index operations are atomic; the current
  snapshot is readable; nothing in use is collected.
- *Readers*: what they show was true at one moment.
- *Realization*: what is taken from the store is what the recipe would give anew;
  an operation fails only for what its definition says.
- *Inputs*: resolution ends; pins hold; the lock file records what was resolved
  and gives it again; cycles are cut; an update settles; a module has one source.
- *Evaluation*: the last definition of an id stands, and what a definition refers
  to is in the manifest unless replaced; setups run after those they depend on; what
  goes into a stored value comes out.
- *Editor's files*: users' work stays, and the entries are those of one resolution.

`PROJECT.json` lists every component with its status and every hazard with its line.

## 2. Modules

| module | models | extends / instantiates |
|---|---|---|
| `Dag` | manifest, references, graph queries | |
| `ExecutionWaves` | `from_manifest`, `execution_waves`, `build_waves` | `Dag` |
| `JoinSet` | tokio's `JoinSet` and `Semaphore`, as `L/execute/mod.rs` uses them | |
| `ManifestExecution` | abstract: what executing a manifest promises | `Dag` |
| `Executor` | `execute_manifest` in full | `Dag`, `JoinSet`, implements `ManifestExecution` |
| `StateDiff` | `compute_diff` | `Dag` |
| `AtomicApply` | abstract: all or nothing | `Dag` |
| `ApplyFlow` | `apply`, `destroy`, crash and drift | `StateDiff`, `ManifestExecution`, implements `AtomicApply` |
| `SnapshotLog` | abstract: a chronological log with a current entry | |
| `SnapshotCommands` | overlapping `sys` processes on the shared store | implements `SnapshotLog` |
| `SnapshotReaders` | status, plan, diff, list, show between those processes' steps | `SnapshotCommands` |
| `Realization` | build and bind operations action by action, over a store with remains | |
| `InputGraph` | declarations, overrides, follows, the lock file's operations, namespaces | |
| `InputResolution` | `resolve_inputs` and `sys update`, two processes | `InputGraph` |
| `LuaHelpers`, `LuaValues` | `sys.path`, `sys.mktime`; conversions of values | |
| `Evaluation` | `evaluate_config`, `sys.build`, `sys.bind` | `InputGraph`, `LuaHelpers`, `LuaValues` |
| `Workspace` | `sys init`, `update_luarc_inputs` | |
| `ExecutionWavesProofs`, `ExecutorProofs`, `ApplyFlowProofs`, `InputResolutionProofs`, `EvaluationProofs`, `RealizationProofs`, `WorkspaceProofs` | the theorems | the module they are about |
| `SnapshotProofs` | the theorems about `SnapshotCommands` and `SnapshotReaders` | `SnapshotReaders` |
| `MC*` | instances for TLC | the module they check |

### Dag and ExecutionWaves

A manifest is a set of nodes (builds and binds, disjoint kinds) and a set of
*references* `<<used, user, mention>>`: one per place where a definition mentions
another. Several mentions of one pair are several references, because the code's
petgraph adds one edge per dependency it finds and its in-degree counts edges.
`uses` records what actions and outputs mention without being in the extracted
inputs; the graph does not see those, the resolver does. A mention of a node that
is not in the manifest makes no edge (the code skips it), and is found missing when
it is resolved.

`ExecutionWaves` is the loop of `execution_waves` at the granularity of its
statements: choose the nodes of in-degree 0 among the remaining ones, assign them the
current level, decrement the in-degree of their dependents with `saturating_sub`,
and so on; the order in which the `HashSet` yields nodes is a free choice. The
check for cycles by petgraph happens in `from_manifest`; the loop's own
`CycleDetected` is unreachable after it, and is modelled all the same. The waves that the
code returns leave out the empty levels: a node's wave is the number of levels up to its
own that are not empty, for builds and binds together or for builds alone.

### JoinSet, Executor, ManifestExecution

A wave is two groups, builds then binds. `StartWave` spawns tasks (`queued`),
a permit makes one `running`, and it ends with success, an error or a panic.
`results` is the vector of join results in completion order; the coroutine
processes them one by one and stops at the first error, which is why a successful
bind behind it goes unrecorded. A panic yields no result and is dropped with a log
line: the task is `lost`. `effect` tells what the node did to the world. Rollback
goes through `applied_order` backwards, counting down `toUndo`.

`ManifestExecution` has no tasks: nodes complete, break or are lost in group order,
then recorded binds are undone, dependents first. `Executor` implements it (a
`PROPERTY` of run `executor`), and `ApplyFlow` uses it instead of the executor.

### StateDiff, ApplyFlow, AtomicApply

A configuration is a set of nodes. A hash is a content address, so what a node
references, its id, and whether it has update or check actions are constants.
`StateDiff` translates the five sets of `compute_diff`; a bind with the same id and
another hash is updated or recreated.

`ApplyFlow` has an action per step that writes a file or runs the actions of one
bind, in the order of `apply.rs`; `pc` names the phase. `bindState` is the set
of state files, `store` the build directories (`partial`: no completion marker),
`world` what each bind's actions have done (`partial`: cut short). Each kind of
failure is a member of `FaultKinds`; `Faults` says which a run allows, `MaxFaults`
how many in one command. `Crash` may strike at every step, leaves actions in flight
half done (`Interrupt`, one disjunct per action that can be), and drops the lock.
`Drift` is the outside world removing a bind. What cannot be resolved fails without a
fault: an output of a build in the store that mentions what an action gave, since a
cache hit has no action results (`HitUnresolved`; `OutputUses` says which outputs mention
what), and a destroy action that mentions a node or what create gave, since it
is resolved against nothing (`DestroyUnresolved`, and `UndoUnresolved` in a rollback;
`DestroyMentions`). Five operators name conditions on the
constants that no action uses: `Recoverable`, `UsesAreMentioned`, `HitsResolve`,
`OnlyExecutionFails` and `OnlyBuildsFail` (section 5).
`AtomicApply` is the promise of `docs/architecture/08-apply-flow.md:206`.

### SnapshotCommands and SnapshotLog

Every process is idle or runs one command; `job[p]` holds its local variables, among
them the index as it read it (`seen`) and, for delete, tag and untag, what it read
*before* it had the lock. Loading and saving `index.json` are two steps; a snapshot
file is written one step before the index and removed one step before the index.
`Acquire` fails at once when the lock is taken (`StoreLock::acquire` uses try-lock).
Builds have four states: absent, partial (no marker), complete, corrupt (marker
present, contents changed: `verify_build_hash` says no). An apply is abstracted to
what concerns shared files: check the cache, start, finish, fail with any of the
code's three outcomes for the pointer, publish.

`SnapshotLog` has three steps, `Record`, `Forget` and `Remove`; a recorded
snapshot is later than all listed ones and becomes current, and a current one can not
be removed.

### SnapshotReaders

One reader beside the processes of `SnapshotCommands`: what it reads is a step each
(index, snapshot file, second file, store), in the order of the command's code, and any
step of the others may come between. `moment` remembers the index from which the
current snapshot was taken. Readers do not see each other.

### Realization

Here an action does what it does. A string with placeholders is the set of its parts
(text, the output directory, an action's result, an output of a build or a bind, an
environment variable, or something malformed) and a resolved one is the set of atoms it
is made of; which parts resolve depends on the resolver the code passes for the
operation. An output that is not text is passed on as it is and a placeholder for one is an
error, as for an output that is not there, so `Outputs` has those that are text. The store
maps the builds whose directories are there to their files and their marker, which is
missing, torn, legacy (without a hash) or a hash, that is, the files it was computed from;
`hash_directory` leaves `tmp` out. A command goes through apply's phases (destroy, update,
execute, check,
repair), each with its context: a build or create sees what this execution completed, an
update the literal outputs of the builds wanted, destroy, check and repair nothing.
Removing a directory and writing a marker can be cut off half way. `Crash` ends a command
anywhere, `ActionFails` fails any action, `Damage` changes any build between
commands: a file, or the marker. One whose marker is legacy is taken unverified
whatever became of its files (`L/build/execute.rs:88`), and no property can hold of what
is made of it; `spoiled` remembers the builds damaged like that, and `Untouched` are the
nodes not made of one, however indirectly. The reference is `Gives`, a recursive function
over the recipes that knows no
store and no failures.

### InputGraph, InputResolution

`InputGraph` has the pure part: declarations with overrides, chains of follows with
their depth limit, the lock file with its nodes and root entries, which setup is given
which inputs, and what package.path will hold. A path such as `pkgs/lib` is a sequence
of names, compared in string order where the code iterates a `BTreeMap`.

`InputResolution` runs it in processes. `Load` reads the configuration and the lock file;
`Resolve` takes one entry of the resolution queue, with its fetch from a clone that other
processes may have made; `Follow` settles overrides to a fixed point; `Finish` prunes
the lock and looks for namespace conflicts; `Truncate` and `Write` save the file. `sys
update` is the same with a set of names whose pins are ignored, followed by its report.
Around it repositories advance, users edit the configuration, take over a teammate's lock
file or clear the cache, a fetch fails, a process dies. A clone stays at the commit it was
made at, as the code never checks out another.

### Evaluation, LuaHelpers, LuaValues

The chunk, the setups of inputs in the order of the resolved tree, and the
configuration's setup run in one Lua state; each may call `sys.build` or `sys.bind`, whose
functions may call again (`stack`), and any of it may raise an error, caught or not. A
definition's hash is the definition without its `check`, which `compute_hash`
leaves out. References go through tables (looked up in the manifest) or through
placeholder text (not looked up). Beside it, `LuaHelpers` translates the path functions
on components and the day count of `mktime`, and `LuaValues` the conversions of values,
with `LuaTable::raw_len` as any border of the table. An integer of a bind's inputs is
turned into the nearest float (`AsFloat`, `L/bind/lua.rs:67`) and comes back as one.
Tables that contain themselves are left out.

### Workspace

`sys init` and `update_luarc_inputs` as reads, truncations and writes of two
files; users save either file at any time, and a command may stop at any step. `raced`
tells which file a user saved while a command was about to write it.

## 3. Runs

| run | configuration | states | what it shows |
|---|---|---|---|
| `waves` | `MCExecutionWaves` | 8,030 | levels are right above the last dependency, in every order, over 2,048 manifests |
| `executor` | `MCExecutor` | 97,220 | ordering, termination and refinement of the executor, rollback included |
| `apply_atomic` | `MCApplyAtomic` | 1,528 | with failing builds only, apply is atomic |
| `apply_rollback` | `MCApplyRollback` | 296,427 | with failures in execution, rollback and restore, the pointer tells the truth |
| `apply_faults` | `MCApplyFaults` | 495,949 | every kind of failure, crash, drift; what survives all of them |
| `apply_dependent` | `MCApplyDependent` | violation | a new bind that uses one in place fails |
| `snapshots` | `MCSnapshots` | 614,916 | two overlapping processes, any commands |
| `readers` | `MCSnapshotReaders` | 4,076,876 | reading commands between the steps of two writers |
| `realization` | `MCRealization` | 3,229,867 | results from a store with remains equal results from scratch, but for damaged legacy builds |
| `inputs` | `MCInputs` | 243,439 | two resolutions over one lock file and one cache |
| `evaluation` | `MCEvaluation` | 857,558 | registration in nested calls, the order of setups, the pure helpers |
| `workspace` | `MCWorkspace` | 126,883 | init and the upkeep of `.luarc.json` against users and one another |

`MCApplyFetched.cfg` and `MCApplyRemoved.cfg` are two more instances of `MCApplyFaults`, to be
run by hand and not listed in `PROJECT.json`: in both, without any fault, TLC finds
`FailsOnlyOnFaults` violated. The first applies a configuration whose build has an output
that an action gave and then one that adds a bind; the second applies a bind whose destroy
mentions what its create gave, and then removes it (section 6).

Bounds, and why they are enough:

- *waves*: two builds, two binds and every subset of ten references. That has chains
  of four, both kinds of cross edges, doubled mentions, self loops, both
  two-cycles, and missing nodes: each shape the loop treats differently.
- *executor*: every graph over two builds and three binds with edges among eight
  chosen ones (256 graphs: diamonds, chains, fans, siblings), one with a dangling
  mention and one with uses the graph does not see; two permits, so that a
  group can have more tasks than permits; every task may fail or panic.
- *apply_\**: two builds and four or five binds in four configurations: a pair of
  contents under one id, dependents that change with it, an unrelated bind, a build
  nothing uses. Sequences of commands are not bounded; failures are, per command
  (`MaxFaults`): three are a failure, one in rollback and one in restore; in
  `apply_faults`, with all kinds at once, two. In `apply_atomic` and `apply_faults` an
  output mentions what an action gave, so that builds in the store fail by themselves,
  and in `apply_faults` a destroy action does; `apply_rollback` has only configurations
  with `HitsResolve`, because `FailsOnlyOnFaults` is false of others (`MCApplyFetched`,
  `MCApplyRemoved`).
- *snapshots*: two processes (an overlap needs two), two builds, one tag, two
  snapshots (`MaxSnapshots` caps the number ever made: one to be deleted while the
  other becomes current). Three processes add overlaps of pairs only, because all
  writes need the one lock; the theorems hold for any number.

`apply_atomic` and `apply_rollback` leave kinds of failure out because the code makes
no promise under them: a failed destroy phase is restored but the restore's result is
ignored, an update is never taken back, a crash is recovered by nothing. What
still holds then is `apply_faults`.

- *readers*: two writers, one build, three snapshots: a list in which the current one has
  neighbours on both sides while another is deleted. The writers are alike and the
  properties do not name them, so they are symmetric. The ids a user may give to diff
  and show are one pair.
- *realization*: the recipes are chosen so that each kind of placeholder occurs where it
  resolves and where it does not: a download whose hash is the output of its action, two
  downloads of one file name, a build used by another, a wrong checksum, an update, a bind
  that uses a bind. Four commands and two faults: a command that puts something in place, a
  fault in the next one, another in the repair of it, and a command that has to live with
  all that is left.
- *inputs*: two processes, each of two commands, and one event. A library whose second
  commit depends on a package set that depends on it (a cycle that appears by an update), a
  fork under the same name, a package set that pins the library in its own lock file from
  its second commit on, a follows override, a path input with a dependency. Chains
  of follows are cut at three instead of ten.
- *evaluation*: three calls of up to two levels, one id, two contents, one check, at most
  one reference of each kind per definition; the input that two paths lead to. Paths of up
  to four components over two names, `.` and `..`; years around the epoch, leap years,
  centuries of both kinds and the first years; tables over five keys (with gaps, and with
  text keys that read like integers) nested up to three deep; floats of three bits instead
  of 53 (`MantissaDigits`), so that small integers are exact, lie between two floats on
  either side of zero, or are floats again beyond the last that is exact.
- *workspace*: two processes, three commands, two events; what is read and what is written
  differ only by entries, of which there are two of the user's and four of sys's.

In all runs deadlock is not checked: the executor, the waves and an evaluation end, and
the commands of the others may stay idle for ever (no snapshots or commands left to make,
or an index that cannot be read).

## 4. Fairness

`Executor` assumes weak fairness of the coroutine that runs `execute_manifest`
and of every task, one by one. tokio polls a ready future eventually, its semaphore is
fair, and every action is taken to end (it waits for a child process, without
timeout, so a hanging command would hang the executor). `ApplyFlow` assumes weak
fairness of the command's own steps for the same reason, and none of the user's or the
environment's: nobody need start a command, and crashes and drift need not happen.
`InputResolution` assumes weak fairness of each process's own steps: a resolution is one
synchronous call, and a fetch ends or fails. The other modules state no liveness and
assume no fairness.

## 5. Proofs

All are proved without bounds. What they assume are the named `ASSUME`s on the
constants, which TLC evaluates in the runs, and in some theorems (those of layers 2 to 4
about `ApplyFlow`, and the three about `Realization`) conditions that their statements
name. The assumptions say that constants are what they stand for: manifests are
manifests and finite, `Build` and `Bind` are disjoint (the two maps of a manifest), a
permit exists (`max_parallel` is at least 1), ids are unique in a configuration (the
manifest is keyed by hash, and evaluation refuses a second definition of an id), an
input is declared the way `extract_input_decls` reads it, under names that have an order,
lock files hold revisions of what their URLs are, a commit contains something, a tree of
resolved inputs has the parents of each input, the
definitions of a configuration refer to one another without cycles (its manifest's graph
is checked for them) and have the lists of actions that their kind must have, what only
users put into a library is not what a command resolves, what stands for a missing, torn
or other file is no library, bounds are natural numbers, and what stands for "none" is
not a value.

`ExecutionWavesProofs`. The invariant says at which phase which nodes have levels, that
the in-degree of a remaining node is the number of references into it from remaining
nodes, that nodes on a level have dependencies only below and, above level 0, one just
below, and that a waiting node has a dependency that is remaining or on the last level
begun. Only the counting makes the rest inductive: in-degree 0 means no remaining
dependency only if no edge was counted twice. The step that decrements in-degrees
rests on `CountAfterRemoval`, from the library's facts on cardinality. That the waves
returned are ordered (`WavesStayOrdered`) needs one lemma more: of two levels, the lower
one's place among the levels that are not empty is strictly lower (`PlaceOf`). Theorems:
`TypeCorrect`, `WavesRespectDependencies`, `WavesAreTight`, `InDegreeIsExact`,
`CycleErrorsAreReal`, `WavesStayOrdered`.

`ExecutorProofs`. That a task starts after its dependencies is not inductive: the state
must say that waves after the current one are untouched, that tasks in flight belong to
the current group, that whatever has ended has a result recorded or waiting, and that
all earlier waves are over. For the refinement (`Refinement`) a second layer adds that
results name each node once, what a recorded result says of the node's effect, that
`applied_order` is in the order of the waves, and what rollback has left to undo: these
make the nodes of the abstract execution (`Completed`, `Broken`, `Lost`) move one by one
while the code drains a queue. Theorems: `TypeCorrect`, `DependenciesFirst`,
`FailureStopsTasks`, `Refinement` (of `ManifestExecution`).

`ApplyFlowProofs`, in layers, each with the conditions it needs.

1. For all configurations, failures and crashes. The lemmas about `StateDiff` say that
   its sets are apart, that what is neither new nor gone is unchanged or updated, and that
   nothing is forgotten or left over. The invariant says for each phase what of the
   diff it has done and what it has left: that what is pending is of the right set, that the
   execution under way is of the builds and new binds, that what has been destroyed or
   updated was in the current configuration. With them, `CurrentCanBeDestroyed` (what is
   in place, or half in place, of the current snapshot has the state file that destroying
   it needs) and `KeptBindsUntouched` are inductive.
2. `SnapshotIsInPlace` (`CurrentIsInPlace`) where only execution, rollback, restore and
   repair fail (`OnlyExecutionFails`), in `Recoverable` configurations: those between which
   nothing is updated, whose manifests are valid, and which differ in their binds if
   they differ at all, and whose destroy actions mention no node and no result
   (`DestroysResolve`). Each condition is one the code needs: apply has no way back
   from an update, returns from an invalid manifest without a restore, takes a
   directory for a build when nothing else has changed, and resolves destroy actions
   against nothing (section 6). The invariant adds what
   is in place in the middle of each phase.
3. `OnlyFaultsFail` (`FailsOnlyOnFaults`): if besides every node uses only what its
   inputs mention of the same execution (`UsesAreMentioned`) and no output mentions what
   an action of its build gave (`HitsResolve`), a command in which nothing failed ends
   well. Without the first the claim is false, and `apply_dependent` is the
   counterexample; without the second, `MCApplyFetched`; without `DestroysResolve`,
   `MCApplyRemoved`. The invariant adds that levels respect dependencies, so that
   what is used has completed.
4. `AtomicWhenBuildsFail` (`ImplementsAtomicApply`): in configurations that are
   `Recoverable` and `UsesAreMentioned`, if only builds fail (`OnlyBuildsFail`, and those in
   the store whose outputs cannot be resolved: `HitsResolve` is not needed), apply and
   destroy with rollback and restore implement `AtomicApply`.
   The invariant adds that exactly the state files of what is in place are there, and that
   builds come before binds, so that a restore only has to bring back what was destroyed.

`MCApplyFlow` has the conditions on the configurations as an assumption of the run, so TLC
shows that they can be satisfied.

`SnapshotProofs`. Of the commands that write, the invariant says that exactly the holder
of the lock is at a
locked step, that the index a process has read is still the index when it saves, that a
change under way is one the log allows, that delete's candidates, chosen without the lock,
are old and not current, that gc's live set covers all listed snapshots while it sweeps,
and what apply has realized so far. The argument for delete is the interesting one: only
snapshots made later can become current, because a failed apply sets the pointer
back only to the snapshot that was current when it started. Theorems: `TypeCorrect`,
`CurrentStaysLoadable`, `RealizedBuildsStay`, `GcSparesListedBuilds` (an action
property), `IndexIsLog` (refinement of `SnapshotLog`).

A second layer extends that invariant by what a reader knows. It rests on what ids are:
later than all before, and a file that is gone is never written again. So a
snapshot that was read as current and is missing must have lost its place before
(`ReadersFindCurrent`), and for a diff, whose reads are of different moments, what
came into the list since is later than all that was there and what went has no file
(`DiffComparesNeighbours`).

`InputResolutionProofs`. The invariant is about one process at a time, and is kept by the
steps of the others because all that is shared is named in it: clones are at commits of
their own repository that are not ahead of it, lock files hold revisions. Of a process
it says that what it has resolved is at the revision its lock has, or had when there was
a pin; what it still has to resolve lies directly below something processed; and what
a chain of dependencies has seen. Theorems: `TypeCorrect`, `PinsAreHeld`, `LockIsTrue`,
`CyclesAreCut`, and `LookupsAgree`, an action property on the step that ends a resolution.

A second layer relates a resolution to the one whose lock file was kept
(`PastInvariance`). Its invariant says that each process has come to its graph by a
history: a sequence of graphs, each of which comes after the one before by a node
resolved or an override settled. What comes next depends on the graph and on what is in
the tree of the first node that waits, and on nothing else (`OneWayOn`), since the order
of paths has no ties (`BeforeOneWay`). So two histories that begin with the same
declarations and find the same trees agree as far as both go (`SameSoFar`, by the
least step at which they would not), and if both have ended they end at the same graph
(`SameEnd`). The invariant adds what of an input follows from its tree alone, that a
lock file in which everything is found is not changed, and that the entries of paths
stay. Theorems: `ResolutionReproduced` (`Reproduced`) and `UpdatesConverge`
(`UpdateConverges`). The proof corrected the second property: it was stated of names
updated at any time since users did something, which three commands that overlap can
refute, because the second may write a lock file back that is older; it is about the
names that the resolution kept last was an update of.

`EvaluationProofs`. The invariant says that what the frames of the stack hold has been
handed out, that what has been handed out is in the manifest or was to be replaced, which
setups have run at each step of the walk and that those below come first. Theorems:
`LastCallWins`; `ReferencesLead`, which says nothing of references to a hash that
`replace = true` has taken out, as the code leaves those dangling; `DependenciesFirst`.
`CalendarFollows` is about `mktime` alone: its day
count and its leap years agree for every year and day of it, from lemmas on quotients.
`PathsFollow` (`PathsLead`) is about the path functions alone, for every path that has its
root and "." only in front (`PathsAssumption`, what `Path::components` gives), with
the exceptions of the code: `normalize` is right for paths that never climb above
their start, `relative` for normalized paths that are both absolute or both relative
(section 6), `resolve` and the joining of directory and name for all. `Walk` and
`normalize` are recursive functions over the components; that they exist and go on by one
component (`WalkOn`, `NormalizeOn`) comes from an induction on numbers
(`AllNumbers`, which rests on the least number of a set), and what they do to a whole path
from one on
sequences (`AllSequences`). The argument: a concatenation leads from where its first part
does (`WalkConcat`), `push` does the same and `normalize` of an absolute path is where it
leads (`PushLeads`, `WalkAbsolute`), a relative path that never climbs leads
to the same place below every directory as below the root (`Sheltered`, which
counts its ".."), and `relative` goes up by what is not common and down by the rest
(`CommonIs`, `WalkUps`).
`ValuesReturn` (`ValuesComeBack`) is about the conversions of values: outputs come back
as they were made, inputs with every integer as the float equal to it, for tables without
keys of both kinds and, for inputs, without gaps and without integers that no float
is equal to. A table is finite
and not inside itself (`ValuesAssumption`; on one that is, the code would recurse
without end), so the number of values inside a value orders them, and what is
stored is ordered by the least value it comes from (`StoredFounded`). On what is so
ordered a recursive function exists and is its own layer everywhere (`SolvedOnAll`,
`Layers`, `BackLayers`). Then, by induction on that order, a table of texts and an array
come back if their parts do (`ObjectReturns`, `ArrayReturns`): for outputs because
`max_index` is the greatest key whatever is missing before it, for inputs because without
gaps Lua's length can only be that (`WholeArrays`).

`RealizationProofs`. The reference is a recursive function over the recipes, and a run
of actions one over their list; that these functions are what their definitions say is
not for free (a recursive definition is a `CHOOSE`), so `RunsExist` and `GivesExist` show
that they exist, each by a least counterexample: the prefix of a list, or a set of nodes
closed under dependencies, for which there is none. Then two layers.

1. `StoreLikeFresh` (`LikeFresh`). The invariant says that a marker tells the truth: of a
   directory with a hash, if its files still have that hash, and of one of an earlier
   version that was not damaged, the files are those of a run from scratch; that a running
   job's results and
   files are the beginning of that run; and that the
   outputs of whatever is done name only directories of what is done. The last makes what
   a command sees of the store the same as what it would see from scratch
   (`SameText`, `NamedAreDone`, `ActionLikeFresh`): a directory that is named in a
   command's text belongs to a dependency, and that has been verified or built by
   this execution. `Damage` and `Crash` may leave any files, but not a hash that
   matches them. Where there is no hash nothing can be known, so all of this is about
   `Untouched` nodes: those not made of a build damaged while its marker was legacy. They
   are closed under dependencies and only become fewer (`UntouchedDeps`, `UntouchedShrinks`).
   Without the exception TLC finds that a legacy build damaged between commands is
   handed on as it is.
2. `FailuresAreOfDefinitions` (`FailsByItself`). A failure is judged when the command is
   over and its context gone, so the invariant says of the moment it happens what the
   context offered: jobs are of the phase they run in, dependencies of what is
   created are done, all that has ended was done, and `saved` does not change between a
   failure of an update and the end of the command.

Both hold where `MentionsAreDeps`: what a definition's outputs and its create and update
lists mention, its inputs refer to. That is a condition and no assumption because the
code does not enforce it: dependencies are extracted from the inputs alone, and a Lua
closure may mention a build it was not given, which then fails or not as the order of
tasks has it (`apply_dependent`). `MCRealization` assumes it, so TLC shows that it can be
satisfied. `RealizationInvariant` states the inductive invariant itself.

`WorkspaceProofs`. What an update writes it has computed from what it read some steps
before, and the user may have saved in between; so the invariant says of whatever a
process is about to write, and not only of the files, that it has the entries of one
resolution and, unless the file is raced, the user's entries as they were saved, and
that no init is on its way to write over a file that the user left there. What remains
is that computing the new library keeps the user's entries, which are laws of the filter
`Only`: of a concatenation it yields the concatenation (`OnlyOfBoth`), of its own result
the result (`OnlyOfOnly`), of entries of the other kind nothing (`OnlyOfOthers`). `Only` is
`SelectSeq` written as a function over the prefixes of the library, because provers
cannot unfold the library's definition; that the function exists (`OnlyExists`) and the
laws are shown with a least counterexample among the prefixes. Theorems: `WorkStays`,
`LibraryIsOfOneResolution`.

Only model-checked is liveness (`ExecutionEnds`, `CommandsEnd`, `ResolutionEnds`), because
of fairness and `ENABLED`.

## 6. Where the code and its documentation disagree

Shown by TLC; the first by a run, and listed in `PROJECT.json` under `findings`, the others by
the instances named:

- A new bind that mentions an output of an unchanged bind cannot be applied
  (`apply_dependent`).
- A cache hit resolves outputs without action results (`L/build/execute.rs:268`).
  `syslua.lib.fetch_url` returns such an output, so with anything fetched by it the next
  apply that executes something fails with `UnresolvedAction(0)`;
  `docs/architecture/03-store.md:134` promises the same output or a cache hit
  (`MCApplyFetched.cfg`).
- `destroy_bind` ignores the saved outputs and resolves against no builds, binds or
  results (`L/bind/execute.rs:85`, `:97`), so a bind whose destroy mentions what its create
  captured can be applied and not removed; `docs/architecture/02-binds.md:158` says that
  destroy actions may do so, and shows it (`MCApplyRemoved.cfg`).

Met while modelling, without a run of their own. Execution and apply:

- A bind that succeeded beside a failing one, with its result behind the error, is
  neither recorded nor destroyed (`L/execute/mod.rs:287`), although the comment
  at `:159` says that all applied binds are destroyed.
- An update is not taken back when the execution after it fails, and as the old state
  file is gone the same apply then always fails (`AP:929`;
  `docs/architecture/08-apply-flow.md:284` calls a retry safe).
- A build directory without marker counts as present in the diff, and when nothing else
  changed apply publishes it (`L/build/store.rs:43`). The same document puts updates
  after execution ("[Wave 2]"); `update_modified_binds` runs before.
- `destroy` goes through binds in hash order, whatever depends on what (`L/execute/apply.rs:627`).
- The comment at `L/execute/mod.rs:161` says that dependent nodes are recorded as
  skipped; the loop ends at the first error, so no skipped node is ever recorded.
- A failed update returns after the destroy phase without a restore
  (`apply.rs:312`); so does an error of `execute_manifest` itself (`apply.rs:324`).
- Repair resolves against no builds and no binds (`apply.rs:516`), so a drifted bind
  that mentions one can not be repaired.
- The destroy-failure path ignores whether its restore worked (`apply.rs:296`).
- `execute_builds` keeps only the last of several failures.

Realization:

- `check_bind` and repair resolve against no builds and no binds either; `${{out}}` of a
  destroy is not the directory its create had.
- A build whose marker is of an earlier version, without a hash, is never verified
  (`L/build/execute.rs:88`): once damaged, it is handed on damaged.
- `build_restore_resolver_data` (`AP:945`) substitutes only the output directory.
- What a failed create has already done is not undone (`02-binds.md:235` says it is
  destroyed). The environment a placeholder reads is not part of a build's hash. Two
  downloads of one file name in one build overwrite one another.

Evaluation and values:

- `check` is left out of a bind's hash: registering a bind again with only another check,
  even with `replace = true`, keeps the first.
- `replace = true` may leave definitions that mention a hash no longer in the manifest
  (`L/bind/lua.rs:245`). Setups run once per path and not once per directory;
  `sys.dir` in the root setup is the last input's (`L/lua/runtime.rs:38`).
- `mktime` is 366 days early: its constant counts from year 0, its days from year 1
  (`L/lua/globals.rs:79`). Month 0 panics.
- `normalize("../a")` is `a`; `relative` is wrong across `.`, leading `..`, or from an
  absolute to a relative path.
- Inputs that are tables with gaps are refused or cut, those with keys of both kinds lose
  the text keys; integers in inputs become floats (`L/bind/lua.rs:67`), so `8080` is
  written `8080.0`, and beyond 2^53 they change.

Inputs and update:

- The message at `RE:97` advises `sys update` for a changed URL, which for a path input
  leaves the lock file's URL as it was (`RE:583`).
- `sys update` does not move a clone that exists (`docs/architecture/06-inputs.md:403`
  says it does): the tree read need not be the revision locked. Inputs of one name
  share a clone whatever their URLs.
- A followed dependency is announced as updated by every `sys update`, is still fetched
  and locked, and an unknown target of a follows drops the dependency without a word.
  A dependency whose URL has been seen is skipped, and which parent gets it depends
  on the order of names.
- `C/update.rs` prints no transitive changes under an unchanged input. Old nodes stay
  in the lock file until an input is removed, entries of dependencies for good.
- `L/eval.rs` takes inputs that are no table for none, `L/lua/entrypoint.rs` for an error.

Editor's files: an init stopped between its two files is refused ever after; a torn
`.luarc.json` is never repaired; users' entries that begin like the types directory or
the cache are dropped; entries of path inputs outside them accumulate; an evaluation
lists direct inputs only, an update all.

Snapshots, readers and the rest:

- tag and untag read the tags before they lock (`C/snapshot.rs:453`): of two that overlap,
  one is undone.
- `sys diff` shows as added only builds that are not in the store (`C/diff.rs`;
  `docs/architecture/05-snapshots.md:320` describes a comparison of snapshots). Without
  arguments it may fail when a delete comes between its reads.
- plan and status take no lock; `docs/architecture/05-snapshots.md:300` gives
  them a shared one. The same document has gc wait 30 s for the lock; it does not.
- gc skips snapshots it cannot read, and so collects their builds (`L/gc/mod.rs:73`);
  it sweeps `cache/inputs/store`, which the resolver never fills.
- A crash in `delete_snapshot` leaves an index entry without a file, one in
  `save_and_set_current` a file without an entry; neither is repaired later,
  but neither can be the current snapshot (`CurrentIsLoadable`).

## 7. Not modelled

- *ApplyFlow*: dry runs; panics of tasks (in `Executor` only); I/O errors of state and
  index files; what actions mention, apart from whether it resolves (in `Realization`);
  several processes (the
  lock is held from start to end, and `SnapshotCommands` covers the rest).
- *SnapshotCommands*: binds (see `ApplyFlow`); `--dry-run`; a clock that goes
  back or gives two processes one millisecond, ids given by the user that the list
  never showed; an age limit shorter than delete's own reads; a user who removes the
  lock file, as the contention message suggests, while its holder is alive; an
  interrupted `remove_dir_all` (in `Realization`).
- *Executor*: `execute_builds`, which only tests call.
- *Realization*: parallelism and rollback (`Executor`, `ApplyFlow`); damage while a command
  runs, and so a dependency that changes between its verification and its use; the
  parent store; commands and downloads themselves.
- *Inputs*: `topological_sort` and `find_cycles` of `graph.rs`, which nothing calls; URL
  parsing; git itself; timestamps of lock entries.
- *Evaluation*: what Lua programs do apart from registering definitions; getenv, the
  clock, `canonicalize`; fractions of numbers.
- *Readers, update, init*: the text that is printed.
- *platform, command line, Lua library*: paths, permissions (`immutable.rs` is
  called by nothing), argument parsing; the library is ordinary configuration code.

## 8. Plan

Done, in this order, the most important behaviour first: `Dag`, `ExecutionWaves`;
`JoinSet`, `ManifestExecution`, `Executor`; `StateDiff`, `ApplyFlow` over
`ManifestExecution`; `AtomicApply`; `SnapshotLog`, `SnapshotCommands`; `InputGraph`,
`InputResolution`; `Evaluation` with its helpers; `Realization`; `SnapshotReaders`;
`Workspace`; and the proofs about all of them.

Next theorem: `Realization`, the converse of `FailsByItself`: what has no meaning is never
done, and what has one is done once a command ends without a fault.
