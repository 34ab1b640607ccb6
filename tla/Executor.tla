------------------------------ MODULE Executor ------------------------------
(***************************************************************************)
(* execute_manifest (execute/mod.rs): the waves of a manifest run one      *)
(* after the other, the builds of a wave before its binds, each group as a *)
(* JoinSet of parallel tasks under one semaphore.  The results of a group  *)
(* are processed only when all its tasks have ended; the first error stops *)
(* everything and destroys the binds recorded so far, last one first.      *)
(***************************************************************************)
EXTENDS Dag, SequencesExt

CONSTANTS Manifests, Permits

ASSUME ExecutorAssumption ==
  /\ Permits \in Nat \ {0}
  /\ \A m \in Manifests : m \in Manifest /\ ValidManifest(m)

VARIABLES
  manifest, level,     \* the graph and its waves: constant during the run
  pc,                  \* where execute_manifest is
  wave,                \* wave_idx
  readyBinds,          \* ready_binds of the wave
  task, results,       \* the JoinSet of the group being executed
  realized, applied,   \* result.realized, result.applied
  appliedOrder,        \* applied_binds_order
  failedNodes,         \* failed_nodes
  skipped,             \* result.build_skipped and bind_skipped
  failure,             \* result.build_failed or bind_failed: a set of nodes
  toUndo,              \* how many of appliedOrder rollback_binds has left
  effect               \* what the node's actions have left behind

execVars == <<manifest, level>>
groupVars == <<task, results>>
resultVars == <<realized, applied, appliedOrder, failedNodes, skipped, failure>>
vars == <<execVars, pc, wave, readyBinds, groupVars, resultVars, toUndo, effect>>

JS == INSTANCE JoinSet WITH Task <- Node

\* What ManifestExecution sees of the run.
Phase ==
  IF pc = "rollback" THEN "undoing"
  ELSE IF pc # "done" THEN "running"
  ELSE IF failure = {} THEN "succeeded" ELSE "failed"

Nodes(rs, outcome) == {r.node : r \in {s \in Range(rs) : s.outcome = outcome}}

Completed == realized \cup applied \cup Nodes(results, "ok")

Broken == failedNodes \cup Nodes(results, "err")

Lost == {n \in Node : task[n] = "lost"}

StillApplied == IF failure = {} THEN {} ELSE {appliedOrder[i] : i \in 1 .. toUndo}

ME == INSTANCE ManifestExecution WITH
        phase <- Phase, completed <- Completed, broken <- Broken, lost <- Lost,
        toUndo <- StillApplied

Phases == {"wave", "builds", "binds", "rollback", "done"}

Effect == {"absent", "partial", "present"}

TypeOK ==
  /\ manifest \in Manifests
  /\ level \in [manifest.nodes -> Nat]
  /\ pc \in Phases
  /\ wave \in Nat
  /\ readyBinds \subseteq manifest.nodes \cap Bind
  /\ JS!JoinSetTypeOK
  /\ realized \subseteq manifest.nodes \cap Build
  /\ applied \subseteq manifest.nodes \cap Bind
  /\ appliedOrder \in Seq(applied)
  /\ failedNodes \subseteq manifest.nodes
  /\ skipped \subseteq manifest.nodes
  /\ failure \subseteq manifest.nodes
  /\ toUndo \in 0 .. Len(appliedOrder)
  /\ effect \in [Node -> Effect]

Init ==
  /\ manifest \in Manifests
  /\ level \in ME!Levels(manifest)
  /\ pc = "wave"
  /\ wave = 0
  /\ readyBinds = {}
  /\ JS!JoinSetInit
  /\ realized = {} /\ applied = {} /\ appliedOrder = <<>>
  /\ failedNodes = {} /\ skipped = {} /\ failure = {}
  /\ toUndo = 0
  /\ effect = [n \in Node |-> "absent"]

-----------------------------------------------------------------------------

Wave == {n \in manifest.nodes : level[n] = wave}

\* find_failed_dependency: the nodes of the wave with a failed dependency.
FailedDependency == {n \in Wave : Deps(manifest, n) \cap failedNodes # {}}

ReadyBinds == (Wave \ FailedDependency) \cap Bind

StartWave ==
  /\ pc = "wave"
  /\ Wave # {}
  /\ skipped' = skipped \cup FailedDependency
  /\ failedNodes' = failedNodes \cup FailedDependency
  /\ readyBinds' = ReadyBinds
  /\ JS!Spawn((Wave \ FailedDependency) \cap Build)
  /\ pc' = "builds"
  /\ UNCHANGED <<execVars, wave, realized, applied, appliedOrder, failure,
                 toUndo, effect>>

StartTask(n) ==
  /\ JS!Acquire(n)
  /\ effect' = [effect EXCEPT ![n] = "partial"]
  /\ UNCHANGED <<execVars, pc, wave, readyBinds, resultVars, toUndo>>

\* Actions can only substitute outputs that were recorded before the group
\* was spawned; realized and applied do not change while it runs.
Resolvable(n) == Substitutes(manifest, n, realized \cup applied)

TaskSucceeds(n) ==
  /\ Resolvable(n)
  /\ JS!Return(n, "ok")
  /\ effect' = [effect EXCEPT ![n] = "present"]
  /\ UNCHANGED <<execVars, pc, wave, readyBinds, resultVars, toUndo>>

TaskFails(n) ==
  /\ JS!Return(n, "err")
  /\ UNCHANGED <<execVars, pc, wave, readyBinds, resultVars, toUndo, effect>>

TaskPanics(n) ==
  /\ JS!Panic(n)
  /\ UNCHANGED <<execVars, pc, wave, readyBinds, resultVars, toUndo, effect>>

\* The loops over build_results and bind_results, one result at a time.
NextResult(outcome) ==
  /\ JS!AllJoined
  /\ results # <<>>
  /\ Head(results).outcome = outcome
  /\ results' = Tail(results)
  /\ UNCHANGED task

RecordBuild ==
  /\ pc = "builds"
  /\ NextResult("ok")
  /\ realized' = realized \cup {Head(results).node}
  /\ UNCHANGED <<execVars, pc, wave, readyBinds, applied, appliedOrder,
                 failedNodes, skipped, failure, toUndo, effect>>

\* Mutant: the order is kept the wrong way round.
OrderedFirst(x) == <<x>> \o appliedOrder

Ordered(x) == Append(appliedOrder, x)

RecordBind ==
  /\ pc = "binds"
  /\ NextResult("ok")
  /\ applied' = applied \cup {Head(results).node}
  /\ appliedOrder' = Ordered(Head(results).node)
  /\ UNCHANGED <<execVars, pc, wave, readyBinds, realized,
                 failedNodes, skipped, failure, toUndo, effect>>

ToRollBack == Len(appliedOrder)

\* The first error: the results after it are never looked at.
RecordFailure ==
  /\ pc \in {"builds", "binds"}
  /\ NextResult("err")
  /\ failedNodes' = failedNodes \cup {Head(results).node}
  /\ failure' = {Head(results).node}
  /\ toUndo' = ToRollBack
  /\ pc' = "rollback"
  /\ UNCHANGED <<execVars, wave, readyBinds, realized, applied, appliedOrder,
                 skipped, effect>>

BuildsDone ==
  /\ pc = "builds"
  /\ JS!AllJoined
  /\ results = <<>>
  /\ JS!Spawn(readyBinds)
  /\ pc' = "binds"
  /\ UNCHANGED <<execVars, wave, readyBinds, resultVars, toUndo, effect>>

BindsDone ==
  /\ pc = "binds"
  /\ JS!AllJoined
  /\ results = <<>>
  /\ wave' = wave + 1
  /\ pc' = "wave"
  /\ UNCHANGED <<execVars, readyBinds, groupVars, resultVars, toUndo, effect>>

\* rollback_binds: a destroy that fails is logged and the loop goes on.
RollbackBind(outcome) ==
  /\ pc = "rollback"
  /\ toUndo > 0
  /\ effect' = [effect EXCEPT ![appliedOrder[toUndo]] =
                  IF outcome = "ok" THEN "absent" ELSE "partial"]
  /\ toUndo' = toUndo - 1
  /\ UNCHANGED <<execVars, pc, wave, readyBinds, groupVars, resultVars>>

RollbackDone ==
  /\ pc = "rollback"
  /\ toUndo = 0
  /\ pc' = "done"
  /\ UNCHANGED <<execVars, wave, readyBinds, groupVars, resultVars, toUndo, effect>>

AllWavesDone ==
  /\ pc = "wave"
  /\ Wave = {}
  /\ pc' = "done"
  /\ UNCHANGED <<execVars, wave, readyBinds, groupVars, resultVars, toUndo, effect>>

TaskStep(n) ==
  StartTask(n) \/ TaskSucceeds(n) \/ TaskFails(n) \/ TaskPanics(n)

MainStep ==
  \/ StartWave \/ RecordBuild \/ RecordBind \/ RecordFailure \/ BuildsDone \/ BindsDone
  \/ \E outcome \in JS!Outcome : RollbackBind(outcome)
  \/ RollbackDone \/ AllWavesDone

Next == MainStep \/ \E n \in Node : TaskStep(n)

\* The executing future is polled until it is ready, and every action's
\* process is assumed to end.
Fairness == WF_vars(MainStep) /\ \A n \in Node : WF_vars(TaskStep(n))

Spec == Init /\ [][Next]_vars /\ Fairness

-----------------------------------------------------------------------------

Done == pc = "done"

Started == {n \in Node : task[n] \in {"running", "ended", "lost"}}

\* A task only starts once everything its inputs mention has been recorded
\* as a success, or its task panicked and was dropped.
StartsAfterDeps ==
  \A n \in Started : \A d \in Deps(manifest, n) :
    d \in realized \cup applied \/ task[d] = "lost"

\* Once an error has been processed no further task is spawned or started.
NothingStartsAfterFailure ==
  [][failure # {} => UNCHANGED task]_vars

\* Every execution ends, whatever fails or panics.
ExecutionEnds == <>Done

ImplementsManifestExecution == ME!Spec

=============================================================================
