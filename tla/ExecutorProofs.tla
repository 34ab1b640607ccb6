---------------------------- MODULE ExecutorProofs ----------------------------
(***************************************************************************)
(* Theorems about Executor, for every set of manifests and every number of *)
(* permits: its type invariant, that nothing starts before what it depends *)
(* on, and that nothing starts once an error has been processed.           *)
(***************************************************************************)
EXTENDS Executor, WellFoundedInduction, TLAPS

Going == pc \in {"wave", "builds", "binds"}

InFlight(n) == task[n] \in {"queued", "running"}

\* The levels the waves are made of respect the dependencies.
LevelsOrdered ==
  \A n \in manifest.nodes : \A d \in Deps(manifest, n) :
    d \in manifest.nodes /\ level[d] < level[n]

\* The loop only goes on while nothing has failed.
NoFailureYet == Going => failure = {} /\ failedNodes = {}

\* Tasks are in flight only during a group, and only those of the group.
GroupOf(n) ==
  \/ pc = "builds" /\ n \in Build
  \/ pc = "binds" /\ n \in Bind

InFlightInGroup == \A n \in Node : InFlight(n) => GroupOf(n)

\* The waves after the current one have not been touched.
SpawnedUpToWave ==
  \A n \in Node : task[n] # "unspawned" => n \in manifest.nodes /\ level[n] <= wave

\* The results still to be processed are those of the group.
ResultsOfGroup ==
  /\ pc = "wave" => results = <<>>
  /\ \A i \in 1 .. Len(results) :
       /\ results[i].node \in manifest.nodes
       /\ pc = "builds" => results[i].node \in Build
       /\ pc = "binds" => results[i].node \in Bind

\* A task that has ended is recorded, or its result waits to be.
EndedHasResult ==
  Going => \A n \in Node : task[n] = "ended" =>
    \/ n \in realized \cup applied
    \/ \E i \in 1 .. Len(results) : results[i].node = n

\* What the current wave consists of has been spawned, group by group.
WaveSpawned ==
  /\ pc \in {"builds", "binds"} =>
       /\ readyBinds = Wave \cap Bind
       /\ \A n \in Wave \cap Build : task[n] # "unspawned"
  /\ pc = "binds" => \A n \in Wave : task[n] # "unspawned"

\* The waves before the current one are over.
EarlierWavesOver ==
  Going => \A n \in manifest.nodes : level[n] < wave =>
    n \in realized \cup applied \/ task[n] = "lost"

IInv ==
  /\ TypeOK
  /\ LevelsOrdered /\ NoFailureYet /\ InFlightInGroup /\ SpawnedUpToWave
  /\ ResultsOfGroup /\ EndedHasResult /\ WaveSpawned /\ EarlierWavesOver
  /\ StartsAfterDeps

-----------------------------------------------------------------------------

\* Initially nothing has been spawned and no level is below the first.
LEMMA InitIInv == Init => IInv
<1> SUFFICES ASSUME Init PROVE IInv
  OBVIOUS
<1> USE DEF Init
<1>1. manifest \in Manifests /\ manifest \in Manifest
  BY ExecutorAssumption
<1>2. /\ level \in [manifest.nodes -> Nat]
      /\ \A n \in manifest.nodes : \A d \in Deps(manifest, n) : level[d] < level[n]
  BY DEF ME!Levels, ME!Deps, ME!Incoming, ME!Edges, Deps, Incoming, Edges
<1>3. \A n \in manifest.nodes : Deps(manifest, n) \subseteq manifest.nodes
  BY DEF Deps, Incoming, Edges
<1>4. TypeOK
  BY <1>1, <1>2 DEF TypeOK, Phases, Effect, JS!JoinSetInit, JS!JoinSetTypeOK,
                    JS!TaskState
<1>5. \A n \in Node : task[n] = "unspawned"
  BY DEF JS!JoinSetInit
<1>6. results = <<>>
  BY DEF JS!JoinSetInit
<1>7. StartsAfterDeps
  BY <1>5 DEF StartsAfterDeps, Started
<1> QED
  BY <1>2, <1>3, <1>4, <1>5, <1>6, <1>7
  DEF IInv, LevelsOrdered, NoFailureYet, InFlightInGroup, GroupOf, InFlight, SpawnedUpToWave,
      ResultsOfGroup, EndedHasResult, WaveSpawned, EarlierWavesOver, Going

-----------------------------------------------------------------------------
(* One lemma per group of actions; each lists the conjuncts it disturbs.   *)

\* The parts of the invariant that do not mention a wave's tasks.
LEMMA LevelsKept ==
  ASSUME LevelsOrdered, UNCHANGED execVars
  PROVE  LevelsOrdered'
BY DEF LevelsOrdered, execVars, Deps, Incoming, Edges

\* Nodes of a manifest are nodes, and so are their dependencies.
LEMMA NodesAreNodes ==
  ASSUME TypeOK
  PROVE  manifest.nodes \subseteq Node
BY ExecutorAssumption DEF TypeOK, Manifest

\* A task changes where it is without a new one being spawned: everything
\* said about spawned tasks and about dependencies stays.
LEMMA TaskMoves ==
  ASSUME IInv, NEW n \in Node, NEW s \in {"running", "ended", "lost"},
         InFlight(n), task' = [task EXCEPT ![n] = s],
         UNCHANGED <<execVars, pc, wave, readyBinds, resultVars, toUndo>>
  PROVE  /\ n \in manifest.nodes /\ GroupOf(n)
         /\ LevelsOrdered' /\ NoFailureYet' /\ InFlightInGroup' /\ SpawnedUpToWave'
         /\ WaveSpawned' /\ EarlierWavesOver' /\ StartsAfterDeps'
<1> USE DEF IInv, execVars, resultVars
<1>1. task \in [Node -> JS!TaskState] /\ manifest.nodes \subseteq Node
  BY NodesAreNodes DEF TypeOK, JS!JoinSetTypeOK
<1>2. n \in manifest.nodes /\ level[n] <= wave
  BY DEF SpawnedUpToWave, InFlight
<1>3. \A k \in Node : k # n => task'[k] = task[k]
  BY <1>1
<1>4. Wave' = Wave /\ Wave \subseteq manifest.nodes
  BY DEF Wave
<1>5. GroupOf(n)
  BY DEF InFlightInGroup
<1>6. InFlightInGroup' /\ SpawnedUpToWave' /\ NoFailureYet'
  BY <1>1, <1>2, <1>3, <1>5
  DEF InFlightInGroup, GroupOf, SpawnedUpToWave, NoFailureYet, InFlight, Going
<1>7. WaveSpawned'
  BY <1>1, <1>3, <1>4 DEF WaveSpawned
<1>8. EarlierWavesOver'
  BY <1>1, <1>3, <1>5 DEF EarlierWavesOver, Going, GroupOf, InFlight
<1>9. StartsAfterDeps'
  <2> SUFFICES ASSUME NEW k \in Started', NEW d \in Deps(manifest, k)
               PROVE  d \in realized \cup applied \/ task'[d] = "lost"
    BY DEF StartsAfterDeps, Deps, Incoming, Edges
  <2>1. k \in Node /\ k \in manifest.nodes /\ level[k] <= wave
    BY <1>2, <1>3 DEF SpawnedUpToWave, Started
  <2>2. d \in manifest.nodes /\ level[d] < wave
    BY <2>1 DEF LevelsOrdered, TypeOK
  <2>3. d \in realized \cup applied \/ task[d] = "lost"
    BY <1>5, <2>2 DEF EarlierWavesOver, Going, GroupOf
  <2> QED
    BY <1>1, <1>3, <2>2, <2>3 DEF InFlight
<1> QED
  BY <1>2, <1>5, <1>6, <1>7, <1>8, <1>9, LevelsKept

\* Spawning the builds of a wave.
LEMMA StartWaveStep ==
  ASSUME IInv, StartWave
  PROVE  IInv'
<1> USE DEF IInv, StartWave, execVars
<1>1. failedNodes = {} /\ failure = {} /\ FailedDependency = {}
  BY DEF NoFailureYet, Going, FailedDependency
<1>2. \A n \in Node : ~InFlight(n)
  BY DEF InFlightInGroup, GroupOf
<1>3. /\ task' = [n \in Node |-> IF n \in Wave \cap Build THEN "queued" ELSE task[n]]
      /\ results' = results /\ results = <<>>
  BY <1>1 DEF JS!Spawn, ResultsOfGroup
<1>4. Wave' = Wave /\ Wave \subseteq manifest.nodes /\ manifest.nodes \subseteq Node
  BY ExecutorAssumption DEF Wave, TypeOK, Manifest
<1>5. TypeOK'
  BY <1>1, <1>3, <1>4
  DEF TypeOK, Phases, JS!JoinSetTypeOK, JS!TaskState, ReadyBinds
<1>6. InFlightInGroup' /\ NoFailureYet'
  BY <1>1, <1>2, <1>3, <1>4 DEF InFlightInGroup, GroupOf, InFlight, NoFailureYet, Going
<1>7. SpawnedUpToWave'
  BY <1>3, <1>4 DEF SpawnedUpToWave, TypeOK, Wave
<1>8. ResultsOfGroup' /\ EndedHasResult' /\ WaveSpawned'
  BY <1>1, <1>3, <1>4, <1>5
  DEF ResultsOfGroup, EndedHasResult, WaveSpawned, ReadyBinds, Going, TypeOK,
      JS!JoinSetTypeOK
<1>9. EarlierWavesOver'
  BY <1>3, <1>4 DEF EarlierWavesOver, Going, Wave, TypeOK, JS!JoinSetTypeOK
<1>10. StartsAfterDeps'
  <2> SUFFICES ASSUME NEW n \in Started', NEW d \in Deps(manifest, n)
               PROVE  d \in realized \cup applied \/ task'[d] = "lost"
    BY DEF StartsAfterDeps, Deps, Incoming, Edges
  <2>1. n \in Started
    BY <1>3 DEF Started
  <2>2. d \in realized \cup applied \/ task[d] = "lost"
    BY <2>1 DEF StartsAfterDeps
  <2>3. n \in manifest.nodes /\ level[n] <= wave
    BY <2>1 DEF SpawnedUpToWave, Started
  <2>4. d \in manifest.nodes /\ level[d] < level[n]
    BY <2>3 DEF LevelsOrdered
  <2>5. d \notin Wave
    BY <2>3, <2>4 DEF Wave, TypeOK
  <2> QED
    BY <1>3, <1>4, <2>2, <2>4, <2>5 DEF TypeOK, Wave
<1> QED
  BY <1>5, <1>6, <1>7, <1>8, <1>9, <1>10, LevelsKept

\* A task takes a permit, ends, or panics.
LEMMA TaskStepStep ==
  ASSUME IInv, NEW n \in Node, TaskStep(n)
  PROVE  IInv'
<1>1. CASE StartTask(n)
  <2>1. /\ InFlight(n) /\ results' = results
        /\ task' = [task EXCEPT ![n] = "running"]
    BY <1>1 DEF StartTask, JS!Acquire, InFlight
  <2>2. UNCHANGED <<execVars, pc, wave, readyBinds, resultVars, toUndo>>
    BY <1>1 DEF StartTask
  <2>3. TypeOK'
    BY <1>1, <2>1, <2>2 DEF IInv, TypeOK, StartTask, execVars, resultVars, Effect,
                        JS!JoinSetTypeOK, JS!TaskState
  <2>4. ResultsOfGroup' /\ EndedHasResult'
    BY <2>1, <2>2 DEF IInv, TypeOK, execVars, resultVars, ResultsOfGroup,
                  EndedHasResult, Going, JS!JoinSetTypeOK
  <2> QED
    BY <2>1, <2>2, <2>3, <2>4, TaskMoves DEF IInv
<1>2. ASSUME NEW outcome \in JS!Outcome, JS!Return(n, outcome), effect' \in [Node -> Effect],
             UNCHANGED <<execVars, pc, wave, readyBinds, resultVars, toUndo>>
      PROVE  IInv'
  <2>1. /\ InFlight(n) /\ task' = [task EXCEPT ![n] = "ended"]
        /\ results' = Append(results, [node |-> n, outcome |-> outcome])
    BY <1>2 DEF JS!Return, InFlight
  <2>2. n \in manifest.nodes /\ GroupOf(n)
    BY <1>2, <2>1, TaskMoves
  <2>3. results \in Seq(JS!Result) /\ [node |-> n, outcome |-> outcome] \in JS!Result
    BY DEF IInv, TypeOK, JS!JoinSetTypeOK, JS!Result
  <2>4. /\ results' \in Seq(JS!Result) /\ Len(results') = Len(results) + 1
        /\ \A i \in 1 .. Len(results) : results'[i] = results[i]
        /\ results'[Len(results) + 1].node = n
    BY <2>1, <2>3
  <2>5. TypeOK'
    BY <1>2, <2>1, <2>4 DEF IInv, TypeOK, execVars, resultVars, JS!JoinSetTypeOK,
                        JS!TaskState
  <2>6. ResultsOfGroup'
    BY <1>2, <2>2, <2>3, <2>4 DEF IInv, ResultsOfGroup, GroupOf, execVars
  <2>7. EndedHasResult'
    <3> SUFFICES ASSUME Going, NEW k \in Node, task'[k] = "ended",
                        k \notin realized \cup applied
                 PROVE  \E i \in 1 .. Len(results') : results'[i].node = k
      BY <1>2 DEF EndedHasResult, Going, resultVars
    <3>1. CASE k = n
      BY <2>3, <2>4, <3>1
    <3>2. CASE k # n
      <4>1. PICK i \in 1 .. Len(results) : results[i].node = k
        BY <2>1, <3>2 DEF IInv, EndedHasResult, TypeOK, JS!JoinSetTypeOK
      <4> QED
        BY <2>3, <2>4, <4>1
    <3> QED
      BY <3>1, <3>2
  <2> QED
    BY <1>2, <2>1, <2>5, <2>6, <2>7, TaskMoves DEF IInv
<1>3. CASE TaskSucceeds(n)
  <2>1. effect' \in [Node -> Effect] /\ JS!Return(n, "ok") /\ "ok" \in JS!Outcome
    BY <1>3 DEF TaskSucceeds, IInv, TypeOK, Effect, JS!Outcome
  <2> QED
    BY <1>2, <1>3, <2>1 DEF TaskSucceeds
<1>4. CASE TaskFails(n)
  <2>1. effect' \in [Node -> Effect] /\ JS!Return(n, "err") /\ "err" \in JS!Outcome
    BY <1>4 DEF TaskFails, IInv, TypeOK, JS!Outcome
  <2> QED
    BY <1>2, <1>4, <2>1 DEF TaskFails
<1>5. CASE TaskPanics(n)
  <2>1. InFlight(n) /\ results' = results /\ task' = [task EXCEPT ![n] = "lost"]
    BY <1>5 DEF TaskPanics, JS!Panic, InFlight
  <2>2. UNCHANGED <<execVars, pc, wave, readyBinds, resultVars, toUndo>> /\ effect' = effect
    BY <1>5 DEF TaskPanics
  <2>3. TypeOK'
    BY <2>1, <2>2 DEF IInv, TypeOK, execVars, resultVars, JS!JoinSetTypeOK, JS!TaskState
  <2>4. ResultsOfGroup' /\ EndedHasResult'
    BY <2>1, <2>2 DEF IInv, TypeOK, execVars, resultVars, ResultsOfGroup,
                  EndedHasResult, Going, JS!JoinSetTypeOK
  <2> QED
    BY <2>1, <2>2, <2>3, <2>4, TaskMoves DEF IInv
<1> QED
  BY <1>1, <1>3, <1>4, <1>5 DEF TaskStep

\* A result that is a success is recorded: nothing else ends or starts.
LEMMA RecordStep ==
  ASSUME IInv, RecordBuild \/ RecordBind
  PROVE  IInv'
<1> USE DEF IInv, execVars
<1>1. /\ Head(results).outcome = "ok" /\ results # <<>> /\ results' = Tail(results)
      /\ UNCHANGED <<execVars, pc, wave, readyBinds, task, failedNodes, skipped,
                     failure, toUndo, effect>>
  BY DEF RecordBuild, RecordBind, NextResult
<1>2. results \in Seq(JS!Result)
  BY DEF TypeOK, JS!JoinSetTypeOK
<1>3. /\ Len(results) > 0 /\ Head(results) = results[1]
      /\ results' \in Seq(JS!Result) /\ Len(results') = Len(results) - 1
      /\ \A i \in 1 .. Len(results') : results'[i] = results[i + 1]
  BY <1>1, <1>2
<1> DEFINE x == Head(results).node
<1>4. /\ x \in manifest.nodes
      /\ realized \cup applied \subseteq realized' \cup applied'
      /\ x \in realized' \cup applied'
  BY <1>2, <1>3 DEF RecordBuild, RecordBind, ResultsOfGroup
<1>5. TypeOK'
  <2>1. CASE RecordBuild
    BY <1>1, <1>3, <2>1 DEF RecordBuild, TypeOK, JS!JoinSetTypeOK, ResultsOfGroup
  <2>2. CASE RecordBind
    <3>1. /\ applied' = applied \cup {x} /\ appliedOrder' = Append(appliedOrder, x)
          /\ x \in manifest.nodes \cap Bind /\ realized' = realized
      BY <1>3, <2>2 DEF RecordBind, ResultsOfGroup, Ordered
    <3>2. appliedOrder \in Seq(applied')
      BY <3>1 DEF TypeOK
    <3>3. appliedOrder' \in Seq(applied') /\ Len(appliedOrder') = Len(appliedOrder) + 1
      BY <3>1, <3>2
    <3> QED
      BY <1>1, <1>3, <3>1, <3>2, <3>3 DEF TypeOK, JS!JoinSetTypeOK
  <2> QED
    BY <2>1, <2>2
<1>6. InFlightInGroup' /\ SpawnedUpToWave' /\ NoFailureYet' /\ WaveSpawned'
  BY <1>1 DEF InFlightInGroup, GroupOf, InFlight, SpawnedUpToWave, NoFailureYet, Going,
              WaveSpawned, Wave
<1>7. ResultsOfGroup'
  <2>1. pc # "wave"
    BY DEF RecordBuild, RecordBind
  <2>2. \A i \in 1 .. Len(results') : i + 1 \in 1 .. Len(results)
    BY <1>2, <1>3
  <2> QED
    BY <1>1, <1>3, <2>1, <2>2 DEF ResultsOfGroup
<1>8. EndedHasResult'
  <2> SUFFICES ASSUME Going, NEW k \in Node, task[k] = "ended",
                      k \notin realized' \cup applied'
               PROVE  \E i \in 1 .. Len(results') : results'[i].node = k
    BY <1>1 DEF EndedHasResult, Going
  <2>1. PICK i \in 1 .. Len(results) : results[i].node = k
    BY <1>4 DEF EndedHasResult
  <2>2. i # 1
    BY <1>3, <1>4, <2>1
  <2>3. i - 1 \in 1 .. Len(results') /\ results'[i - 1].node = k
    BY <1>2, <1>3, <2>1, <2>2
  <2> QED
    BY <2>3
<1>9. EarlierWavesOver' /\ StartsAfterDeps'
  BY <1>1, <1>4 DEF EarlierWavesOver, Going, StartsAfterDeps, Started, Deps, Incoming,
                    Edges
<1> QED
  BY <1>1, <1>5, <1>6, <1>7, <1>8, <1>9, LevelsKept

\* The first error ends the loop.
LEMMA RecordFailureStep ==
  ASSUME IInv, RecordFailure
  PROVE  IInv'
<1> USE DEF IInv, execVars, RecordFailure, NextResult
<1>1. results \in Seq(JS!Result) /\ results # <<>>
  BY DEF TypeOK, JS!JoinSetTypeOK
<1>2. /\ Len(results) > 0 /\ Head(results) = results[1]
      /\ results' \in Seq(JS!Result) /\ Len(results') = Len(results) - 1
      /\ \A i \in 1 .. Len(results') : results'[i] = results[i + 1]
  BY <1>1
<1>3. Head(results).node \in manifest.nodes
  BY <1>1, <1>2 DEF ResultsOfGroup
<1>4. Len(appliedOrder) \in Nat
  BY DEF TypeOK
<1>5. TypeOK'
  BY <1>2, <1>3, <1>4 DEF TypeOK, Phases, JS!JoinSetTypeOK, ToRollBack
<1>6. \A n \in Node : ~InFlight(n)
  BY DEF JS!AllJoined, InFlight
<1>7. InFlightInGroup' /\ SpawnedUpToWave'
  BY <1>6 DEF InFlightInGroup, InFlight, SpawnedUpToWave
<1>8. ResultsOfGroup'
  <2>1. \A i \in 1 .. Len(results') : i + 1 \in 1 .. Len(results)
    BY <1>1, <1>2
  <2> QED
    BY <1>2, <2>1 DEF ResultsOfGroup
<1>9. StartsAfterDeps'
  BY DEF StartsAfterDeps, Started, Deps, Incoming, Edges
<1> QED
  BY <1>5, <1>7, <1>8, <1>9, LevelsKept
  DEF NoFailureYet, EndedHasResult, WaveSpawned, EarlierWavesOver, Going

\* All builds of the wave are recorded or lost: its binds are spawned.
LEMMA BuildsDoneStep ==
  ASSUME IInv, BuildsDone
  PROVE  IInv'
<1> USE DEF IInv, execVars, resultVars, BuildsDone
<1>1. task \in [Node -> JS!TaskState] /\ manifest.nodes \subseteq Node
  BY NodesAreNodes DEF TypeOK, JS!JoinSetTypeOK
<1>2. \A n \in Node : ~InFlight(n)
  BY DEF JS!AllJoined, InFlight
<1>3. readyBinds = Wave \cap Bind /\ Wave' = Wave /\ Wave \subseteq manifest.nodes
  BY DEF WaveSpawned, Wave
<1>4. /\ task' = [n \in Node |-> IF n \in readyBinds THEN "queued" ELSE task[n]]
      /\ results' = results /\ results = <<>>
  BY DEF JS!Spawn
<1>5. TypeOK'
  BY <1>4 DEF TypeOK, Phases, JS!JoinSetTypeOK, JS!TaskState
<1>6. InFlightInGroup' /\ NoFailureYet'
  BY <1>2, <1>3, <1>4 DEF InFlightInGroup, GroupOf, InFlight, NoFailureYet, Going
<1>7. SpawnedUpToWave'
  BY <1>3, <1>4 DEF SpawnedUpToWave, Wave, TypeOK
<1>8. ResultsOfGroup' /\ EndedHasResult'
  BY <1>1, <1>4 DEF ResultsOfGroup, EndedHasResult, Going
<1>9. WaveSpawned'
  BY <1>1, <1>3, <1>4 DEF WaveSpawned, Node
<1>10. EarlierWavesOver'
  BY <1>1, <1>3, <1>4 DEF EarlierWavesOver, Going, Wave, TypeOK
<1>11. StartsAfterDeps'
  <2> SUFFICES ASSUME NEW n \in Started', NEW d \in Deps(manifest, n)
               PROVE  d \in realized \cup applied \/ task'[d] = "lost"
    BY DEF StartsAfterDeps, Deps, Incoming, Edges
  <2>1. n \in Started
    BY <1>4 DEF Started
  <2>2. n \in manifest.nodes /\ level[n] <= wave
    BY <2>1 DEF SpawnedUpToWave, Started
  <2>3. d \in manifest.nodes /\ level[d] < wave
    BY <2>2 DEF LevelsOrdered, TypeOK
  <2>4. d \in realized \cup applied \/ task[d] = "lost"
    BY <2>3 DEF EarlierWavesOver, Going
  <2>5. d \notin readyBinds
    BY <1>3, <2>3 DEF Wave, TypeOK
  <2> QED
    BY <1>1, <1>4, <2>3, <2>4, <2>5
<1> QED
  BY <1>5, <1>6, <1>7, <1>8, <1>9, <1>10, <1>11, LevelsKept

\* All nodes of the wave are recorded or lost: the next wave begins.
LEMMA BindsDoneStep ==
  ASSUME IInv, BindsDone
  PROVE  IInv'
<1> USE DEF IInv, execVars, groupVars, resultVars, BindsDone
<1>1. task \in [Node -> JS!TaskState] /\ manifest.nodes \subseteq Node
  BY NodesAreNodes DEF TypeOK, JS!JoinSetTypeOK
<1>2. \A n \in Node : ~InFlight(n)
  BY DEF JS!AllJoined, InFlight
<1>3. TypeOK'
  BY DEF TypeOK, Phases, JS!JoinSetTypeOK
<1>4. InFlightInGroup' /\ NoFailureYet' /\ ResultsOfGroup' /\ EndedHasResult' /\ WaveSpawned'
  BY <1>2 DEF InFlightInGroup, InFlight, NoFailureYet, ResultsOfGroup,
              EndedHasResult, WaveSpawned, Going
<1>5. SpawnedUpToWave'
  BY <1>1 DEF SpawnedUpToWave, TypeOK
<1>6. EarlierWavesOver'
  <2> SUFFICES ASSUME NEW n \in manifest.nodes, level[n] < wave + 1
               PROVE  n \in realized \cup applied \/ task[n] = "lost"
    BY DEF EarlierWavesOver
  <2>1. CASE level[n] < wave
    BY <2>1 DEF EarlierWavesOver, Going
  <2>2. CASE n \in Wave
    <3>1. task[n] \in {"ended", "lost"}
      BY <1>1, <1>2, <2>2 DEF WaveSpawned, InFlight, JS!TaskState
    <3>2. ~ \E i \in 1 .. Len(results) : results[i].node = n
      OBVIOUS
    <3> QED
      BY <1>1, <3>1, <3>2 DEF EndedHasResult, Going
  <2> QED
    BY <2>1, <2>2 DEF Wave, TypeOK
<1>7. StartsAfterDeps'
  BY DEF StartsAfterDeps, Started, Deps, Incoming, Edges
<1> QED
  BY <1>3, <1>4, <1>5, <1>6, <1>7, LevelsKept

\* Rollback and the end of the loop leave the tasks and the records alone.
LEMMA EndStep ==
  ASSUME IInv,
         (\E outcome \in JS!Outcome : RollbackBind(outcome)) \/ RollbackDone \/ AllWavesDone
  PROVE  IInv'
<1> USE DEF IInv, execVars, groupVars, resultVars
<1>1. /\ UNCHANGED <<execVars, wave, readyBinds, groupVars, resultVars>>
      /\ pc \in {"rollback", "wave"} /\ pc' \in {"rollback", "done"}
  BY DEF RollbackBind, RollbackDone, AllWavesDone
<1>2. TypeOK'
  <2>1. toUndo' \in 0 .. Len(appliedOrder) /\ effect' \in [Node -> Effect]
    BY DEF RollbackBind, RollbackDone, AllWavesDone, TypeOK, Effect
  <2> QED
    BY <1>1, <2>1 DEF TypeOK, Phases, JS!JoinSetTypeOK
<1>3. \A n \in Node : ~InFlight(n)
  BY <1>1 DEF InFlightInGroup, GroupOf
<1>4. InFlightInGroup' /\ SpawnedUpToWave' /\ ResultsOfGroup'
  BY <1>1, <1>3 DEF InFlightInGroup, InFlight, SpawnedUpToWave, ResultsOfGroup
<1>5. NoFailureYet' /\ EndedHasResult' /\ WaveSpawned' /\ EarlierWavesOver'
  BY <1>1 DEF NoFailureYet, EndedHasResult, WaveSpawned, EarlierWavesOver, Going
<1>6. StartsAfterDeps'
  BY <1>1 DEF StartsAfterDeps, Started, Deps, Incoming, Edges
<1> QED
  BY <1>1, <1>2, <1>4, <1>5, <1>6, LevelsKept

\* The invariant is inductive.
LEMMA NextIInv == IInv /\ [Next]_vars => IInv'
<1> SUFFICES ASSUME IInv, [Next]_vars PROVE IInv'
  OBVIOUS
<1>1. CASE MainStep
  BY <1>1, StartWaveStep, RecordStep, RecordFailureStep, BuildsDoneStep, BindsDoneStep,
     EndStep DEF MainStep
<1>2. CASE \E n \in Node : TaskStep(n)
  BY <1>2, TaskStepStep
<1>3. CASE UNCHANGED vars
  BY <1>3 DEF IInv, vars, execVars, groupVars, resultVars, TypeOK, JS!JoinSetTypeOK,
     LevelsOrdered, NoFailureYet, InFlightInGroup, GroupOf, InFlight, SpawnedUpToWave,
     ResultsOfGroup, EndedHasResult, WaveSpawned, EarlierWavesOver, Going, Wave,
     StartsAfterDeps, Started, Deps, Incoming, Edges
<1> QED
  BY <1>1, <1>2, <1>3 DEF Next

-----------------------------------------------------------------------------

\* The inductive invariant holds throughout every execution of a manifest.
THEOREM Invariance == Spec => []IInv
<1>1. Init => IInv
  BY InitIInv
<1>2. IInv /\ [Next]_vars => IInv'
  BY NextIInv
<1> QED
  BY <1>1, <1>2, PTL DEF Spec

\* The type invariant, for every set of manifests and number of permits.
THEOREM TypeCorrect == Spec => []TypeOK
<1>1. IInv => TypeOK
  BY DEF IInv
<1> QED
  BY <1>1, Invariance, PTL

\* A task starts only when all it depends on is recorded, or was lost.
THEOREM DependenciesFirst == Spec => []StartsAfterDeps
<1>1. IInv => StartsAfterDeps
  BY DEF IInv
<1> QED
  BY <1>1, Invariance, PTL

\* Once an error has been processed, no task is spawned, starts or ends.
THEOREM FailureStopsTasks == Spec => NothingStartsAfterFailure
<1>1. IInv /\ [Next]_vars => [failure # {} => UNCHANGED task]_vars
  <2> SUFFICES ASSUME IInv, Next, failure # {} PROVE task' = task
    BY DEF vars, groupVars
  <2>1. pc \in {"rollback", "done"}
    BY DEF IInv, NoFailureYet, Going, TypeOK, Phases
  <2>2. \A n \in Node : ~InFlight(n)
    BY <2>1 DEF IInv, InFlightInGroup, GroupOf
  <2>3. CASE MainStep
    BY <2>1, <2>3 DEF MainStep, StartWave, RecordBuild, RecordBind, RecordFailure,
       NextResult, BuildsDone, BindsDone, RollbackBind, RollbackDone, AllWavesDone,
       groupVars
  <2>4. CASE \E n \in Node : TaskStep(n)
    BY <2>2, <2>4 DEF TaskStep, StartTask, TaskSucceeds, TaskFails, TaskPanics,
       JS!Acquire, JS!Return, JS!Panic, InFlight
  <2> QED
    BY <2>3, <2>4 DEF Next
<1> QED
  BY <1>1, Invariance, PTL DEF Spec, NothingStartsAfterFailure

-----------------------------------------------------------------------------
(* That Executor implements ManifestExecution needs more: where each node's *)
(* result is, and in which order binds were recorded.                       *)

\* A result that waits is its node's only one, and not recorded yet.
OneResultEach ==
  /\ \A i \in 1 .. Len(results) :
       /\ task[results[i].node] = "ended"
       /\ results[i].node \notin realized \cup applied \cup failedNodes
  /\ \A i, j \in 1 .. Len(results) : results[i].node = results[j].node => i = j

\* What is recorded has ended.
RecordedEnded == \A n \in realized \cup applied \cup failedNodes : task[n] = "ended"

\* The results that wait come from the current wave.
ResultsOfWave ==
  pc \in {"builds", "binds"} => \A i \in 1 .. Len(results) : level[results[i].node] = wave

\* What the wave has yet to spawn was never spawned before.
WaveFresh ==
  /\ pc = "wave" => \A n \in Wave : task[n] = "unspawned"
  /\ pc = "builds" => \A n \in Wave \cap Bind : task[n] = "unspawned"

\* The builds of a wave are over before its binds run.
BuildsOver ==
  pc = "binds" => \A n \in Wave \cap Build : n \in realized \/ task[n] = "lost"

\* Every bind is recorded once, and none before one of an earlier wave.
AppliedInOrder ==
  /\ \A n \in applied : \E i \in 1 .. Len(appliedOrder) : appliedOrder[i] = n
  /\ \A i, j \in 1 .. Len(appliedOrder) : i < j =>
       appliedOrder[i] # appliedOrder[j] /\ level[appliedOrder[i]] <= level[appliedOrder[j]]

\* Rollback has a reason.
RollbackFailed == pc = "rollback" => failure # {}

\* No level is empty below one that is not.
LevelsTight ==
  \A n \in manifest.nodes :
    level[n] > 0 => \E d \in Deps(manifest, n) : level[d] = level[n] - 1

RInv ==
  /\ IInv
  /\ OneResultEach /\ RecordedEnded /\ ResultsOfWave /\ WaveFresh /\ BuildsOver
  /\ AppliedInOrder /\ RollbackFailed /\ LevelsTight

\* A set of numbers has a least element.
LEMMA LeastNumber ==
  ASSUME NEW T, T \subseteq Nat, T # {}
  PROVE  \E x \in T : \A y \in T : x <= y
<1>1. PICK x \in T : \A y \in T : ~(<<y, x>> \in OpToRel(<, Nat))
  BY NatLessThanWellFounded, WFMin
<1>2. \A y \in T : y \in Nat /\ x \in Nat /\ ~(y < x)
  BY <1>1 DEF OpToRel
<1> QED
  BY <1>2

\* If no node has the level of the wave, none has a higher one.
LEMMA NoWaveNoMore ==
  ASSUME TypeOK, LevelsOrdered, LevelsTight, Wave = {}, NEW n \in manifest.nodes
  PROVE  level[n] < wave
<1> SUFFICES ASSUME ~(level[n] < wave) PROVE FALSE
  OBVIOUS
<1> DEFINE Higher == {level[k] : k \in {j \in manifest.nodes : level[j] >= wave}}
<1>1. level \in [manifest.nodes -> Nat] /\ wave \in Nat
  BY DEF TypeOK
<1>2. Higher \subseteq Nat /\ level[n] \in Higher
  BY <1>1
<1>3. PICK x \in Higher : \A y \in Higher : x <= y
  BY <1>2, LeastNumber
<1>4. PICK k \in manifest.nodes : level[k] >= wave /\ x = level[k]
  BY <1>3
<1>5. level[k] > wave
  BY <1>1, <1>4 DEF Wave
<1>6. PICK d \in Deps(manifest, k) : level[d] = level[k] - 1
  BY <1>1, <1>5 DEF LevelsTight
<1>7. d \in manifest.nodes
  BY DEF LevelsOrdered
<1>8. level[d] >= wave /\ level[d] \in Higher
  BY <1>1, <1>5, <1>6, <1>7
<1> QED
  BY <1>1, <1>3, <1>4, <1>6, <1>8

\* Whose results a vector of results holds.
LEMMA NodesOf ==
  ASSUME NEW R \in Seq(JS!Result), NEW o
  PROVE  \A n : n \in Nodes(R, o) <=>
           \E i \in 1 .. Len(R) : R[i].node = n /\ R[i].outcome = o
BY DEF Nodes, Range

\* A result that arrives adds its node.
LEMMA NodesAppend ==
  ASSUME NEW R \in Seq(JS!Result), NEW x \in JS!Result, NEW o
  PROVE  Nodes(Append(R, x), o) =
           Nodes(R, o) \cup (IF x.outcome = o THEN {x.node} ELSE {})
<1> DEFINE A == Append(R, x)
<1>1. /\ A \in Seq(JS!Result) /\ Len(A) = Len(R) + 1
      /\ \A i \in 1 .. Len(R) : A[i] = R[i]
      /\ A[Len(R) + 1] = x
  OBVIOUS
<1> HIDE DEF A
<1>2. \A n : n \in Nodes(A, o) <=> \E i \in 1 .. Len(A) : A[i].node = n /\ A[i].outcome = o
  BY <1>1, NodesOf
<1>3. \A n : n \in Nodes(R, o) <=> \E i \in 1 .. Len(R) : R[i].node = n /\ R[i].outcome = o
  BY NodesOf
<1>4. Len(R) \in Nat
  OBVIOUS
<1>5. Len(A) \in 1 .. Len(A) /\ \A i \in 1 .. Len(A) : i \in 1 .. Len(R) \/ i = Len(A)
  BY <1>1, <1>4
<1>6. 1 .. Len(R) \subseteq 1 .. Len(A)
  BY <1>1, <1>4
<1>7. A[Len(A)] = x
  BY <1>1
<1>8. ASSUME NEW n PROVE n \in Nodes(A, o) <=> n \in Nodes(R, o) \/ (x.outcome = o /\ n = x.node)
  BY <1>1, <1>2, <1>3, <1>5, <1>6, <1>7
<1> QED
  BY <1>8 DEF A

\* A result that is looked at leaves the others.
LEMMA NodesTail ==
  ASSUME NEW R \in Seq(JS!Result), R # <<>>, NEW o
  PROVE  Nodes(R, o) =
           Nodes(Tail(R), o) \cup (IF Head(R).outcome = o THEN {Head(R).node} ELSE {})
<1> DEFINE T == Tail(R)
<1>1. /\ T \in Seq(JS!Result) /\ Len(T) = Len(R) - 1 /\ Len(R) \in Nat \ {0}
      /\ \A i \in 1 .. Len(T) : T[i] = R[i + 1]
      /\ Head(R) = R[1]
  OBVIOUS
<1> HIDE DEF T
<1>2. \A n : n \in Nodes(T, o) <=> \E i \in 1 .. Len(T) : T[i].node = n /\ T[i].outcome = o
  BY <1>1, NodesOf
<1>3. \A n : n \in Nodes(R, o) <=> \E i \in 1 .. Len(R) : R[i].node = n /\ R[i].outcome = o
  BY NodesOf
<1>4. \A i \in 1 .. Len(T) : i + 1 \in 1 .. Len(R)
  BY <1>1
<1>5. \A i \in 1 .. Len(R) : i = 1 \/ (i - 1 \in 1 .. Len(T) /\ T[i - 1] = R[i])
  BY <1>1
<1>6. 1 \in 1 .. Len(R)
  BY <1>1
<1>7. ASSUME NEW n PROVE n \in Nodes(R, o) <=>
                           n \in Nodes(T, o) \/ (R[1].outcome = o /\ n = R[1].node)
  BY <1>1, <1>2, <1>3, <1>4, <1>5, <1>6
<1> QED
  BY <1>1, <1>7 DEF T

\* A task in flight is one of the current wave.
LEMMA InFlightNow ==
  ASSUME RInv, NEW n \in Node, InFlight(n)
  PROVE  /\ n \in manifest.nodes /\ level[n] = wave /\ GroupOf(n) /\ Going
         /\ n \notin realized \cup applied \cup failedNodes
         /\ \A i \in 1 .. Len(results) : results[i].node # n
<1> USE DEF RInv, IInv
<1>1. n \in manifest.nodes /\ level[n] <= wave /\ GroupOf(n)
  BY DEF SpawnedUpToWave, InFlightInGroup, InFlight
<1>2. Going
  BY <1>1 DEF GroupOf, Going
<1>3. n \notin realized \cup applied \cup failedNodes
  BY DEF RecordedEnded, InFlight
<1>4. ~(level[n] < wave)
  BY <1>1, <1>2, <1>3 DEF EarlierWavesOver, InFlight
<1>5. level[n] = wave
  BY <1>1, <1>4 DEF TypeOK
<1> QED
  BY <1>1, <1>2, <1>3, <1>5 DEF OneResultEach, InFlight

\* Levels that are tight stay so: they never change.
LEMMA TightKept ==
  ASSUME LevelsTight, UNCHANGED execVars
  PROVE  LevelsTight'
BY DEF LevelsTight, execVars, Deps, Incoming, Edges

\* Initially there are no results and no records.
LEMMA InitRInv == Init => RInv
<1> SUFFICES ASSUME Init PROVE RInv
  OBVIOUS
<1> USE DEF Init
<1>1. IInv
  BY InitIInv
<1>2. results = <<>> /\ \A n \in Node : task[n] = "unspawned"
  BY DEF JS!JoinSetInit
<1>3. manifest.nodes \subseteq Node
  BY <1>1, NodesAreNodes DEF IInv
<1>4. LevelsTight
  BY DEF LevelsTight, ME!Levels, ME!Deps, ME!Incoming, ME!Edges, Deps, Incoming, Edges
<1> QED
  BY <1>1, <1>2, <1>3, <1>4
  DEF RInv, OneResultEach, RecordedEnded, ResultsOfWave, WaveFresh, BuildsOver,
      AppliedInOrder, RollbackFailed, Wave

\* A task moves on: only the results change, if it returns.
LEMMA TaskStepRInv ==
  ASSUME RInv, NEW n \in Node, TaskStep(n)
  PROVE  RInv'
<1>1. IInv'
  BY TaskStepStep DEF RInv
<1>2. /\ InFlight(n)
      /\ \E s \in {"running", "ended", "lost"} : task' = [task EXCEPT ![n] = s]
      /\ UNCHANGED <<execVars, pc, wave, readyBinds, resultVars, toUndo>>
  BY DEF TaskStep, StartTask, TaskSucceeds, TaskFails, TaskPanics, JS!Acquire, JS!Return,
         JS!Panic, InFlight
<1>3. task \in [Node -> JS!TaskState] /\ results \in Seq(JS!Result) /\ manifest.nodes \subseteq Node
  BY NodesAreNodes DEF RInv, IInv, TypeOK, JS!JoinSetTypeOK
<1>4. \A k \in Node : k # n => task'[k] = task[k]
  BY <1>2, <1>3
<1>5. /\ n \in manifest.nodes /\ level[n] = wave /\ GroupOf(n) /\ Going
      /\ n \notin realized \cup applied \cup failedNodes
      /\ \A i \in 1 .. Len(results) : results[i].node # n
  BY <1>2, InFlightNow
<1>6. \A i \in 1 .. Len(results) : results[i].node \in Node
  BY <1>3 DEF RInv, IInv, ResultsOfGroup
<1>7. realized \cup applied \cup failedNodes \subseteq Node
  BY <1>3 DEF RInv, IInv, TypeOK
<1>8. OneResultEach' /\ ResultsOfWave'
  <2>1. CASE results' = results
    BY <1>2, <1>4, <1>5, <1>6, <2>1
    DEF RInv, OneResultEach, ResultsOfWave, execVars, resultVars
  <2>2. CASE \E outcome \in JS!Outcome : JS!Return(n, outcome)
    <3>1. PICK outcome \in JS!Outcome : JS!Return(n, outcome)
      BY <2>2
    <3> DEFINE x == [node |-> n, outcome |-> outcome]
    <3>2. results' = Append(results, x) /\ x \in JS!Result /\ x.node = n /\ task'[n] = "ended"
      BY <1>3, <3>1 DEF JS!Return, JS!Result
    <3> HIDE DEF x
    <3>3. /\ Len(results') = Len(results) + 1 /\ Len(results) \in Nat
          /\ \A i \in 1 .. Len(results) : results'[i] = results[i]
          /\ results'[Len(results) + 1] = x
      BY <1>3, <3>2
    <3>4. \A i \in 1 .. Len(results') :
            \/ i \in 1 .. Len(results) /\ results'[i] = results[i] /\ results'[i].node # n
            \/ i = Len(results') /\ results'[i].node = n
      BY <1>5, <3>2, <3>3
    <3>5. OneResultEach'
      BY <1>2, <1>4, <1>5, <1>6, <3>2, <3>3, <3>4 DEF RInv, OneResultEach, resultVars
    <3>6. ResultsOfWave'
      BY <1>2, <1>5, <3>4 DEF RInv, ResultsOfWave, execVars
    <3> QED
      BY <3>5, <3>6
  <2> QED
    BY <2>1, <2>2 DEF TaskStep, StartTask, TaskSucceeds, TaskFails, TaskPanics, JS!Acquire,
       JS!Panic, JS!Outcome
<1>9. RecordedEnded'
  BY <1>2, <1>4, <1>5, <1>7 DEF RInv, RecordedEnded, resultVars
<1>10. Wave' = Wave /\ Wave \subseteq Node
  BY <1>2, <1>3 DEF Wave, execVars
<1>11. WaveFresh' /\ BuildsOver'
  BY <1>2, <1>4, <1>5, <1>10, DagAssumption
  DEF RInv, WaveFresh, BuildsOver, GroupOf, resultVars
<1>12. AppliedInOrder' /\ RollbackFailed'
  BY <1>2 DEF RInv, AppliedInOrder, RollbackFailed, execVars, resultVars
<1> QED
  BY <1>1, <1>2, <1>8, <1>9, <1>11, <1>12, TightKept DEF RInv

\* Tasks are spawned for nodes that had none.
LEMMA SpawnRInv ==
  ASSUME RInv, StartWave \/ BuildsDone
  PROVE  RInv' /\ Lost' = Lost
<1>1. IInv'
  BY StartWaveStep, BuildsDoneStep DEF RInv
<1>2. task \in [Node -> JS!TaskState] /\ results \in Seq(JS!Result) /\ manifest.nodes \subseteq Node
  BY NodesAreNodes DEF RInv, IInv, TypeOK, JS!JoinSetTypeOK
<1>3. results = <<>> /\ results' = results /\ Going
  BY DEF StartWave, BuildsDone, JS!Spawn, RInv, IInv, ResultsOfGroup, Going
<1>4. failedNodes = {} /\ FailedDependency = {}
  BY <1>3 DEF RInv, IInv, NoFailureYet, FailedDependency
<1>5. UNCHANGED <<execVars, wave, realized, applied, appliedOrder, failedNodes, failure>>
  BY <1>4 DEF StartWave, BuildsDone, resultVars
<1>6. Wave' = Wave /\ Wave \subseteq manifest.nodes
  BY <1>5 DEF Wave, execVars
<1> DEFINE S == IF pc = "wave" THEN Wave \cap Build ELSE Wave \cap Bind
<1>7. task' = [n \in Node |-> IF n \in S THEN "queued" ELSE task[n]]
  <2>1. CASE StartWave
    BY <1>4, <2>1 DEF StartWave, JS!Spawn
  <2>2. CASE BuildsDone
    BY <2>2 DEF BuildsDone, JS!Spawn, RInv, IInv, WaveSpawned
  <2> QED
    BY <2>1, <2>2
<1>8. \A n \in S : task[n] = "unspawned"
  BY <1>3 DEF StartWave, BuildsDone, RInv, WaveFresh
<1> HIDE DEF S
<1>9. Lost' = Lost
  BY <1>2, <1>7, <1>8 DEF Lost
<1>10. realized \cup applied \cup failedNodes \subseteq Node
  BY <1>2 DEF RInv, IInv, TypeOK
<1>11. OneResultEach' /\ ResultsOfWave' /\ RecordedEnded'
  BY <1>3, <1>5, <1>7, <1>8, <1>10 DEF OneResultEach, ResultsOfWave, RInv, RecordedEnded
<1>12. WaveFresh' /\ BuildsOver'
  <2>1. CASE StartWave
    <3>1. pc = "wave" /\ pc' = "builds"
      BY <2>1 DEF StartWave
    <3> QED
      BY <1>2, <1>6, <1>7, <3>1, DagAssumption DEF RInv, WaveFresh, BuildsOver, S
  <2>2. CASE BuildsDone
    <3>1. pc = "builds" /\ pc' = "binds" /\ JS!AllJoined
      BY <2>2 DEF BuildsDone
    <3>2. ASSUME NEW n \in Wave \cap Build PROVE n \in realized \/ task'[n] = "lost"
      <4>1. n \notin S /\ n \in Node /\ n \notin applied
        BY <1>2, <1>6, <3>1, DagAssumption DEF S, RInv, IInv, TypeOK
      <4>2. task[n] \in {"ended", "lost"}
        BY <1>2, <3>1, <4>1 DEF JS!AllJoined, JS!TaskState, RInv, IInv, WaveSpawned
      <4>3. ~ \E i \in 1 .. Len(results) : results[i].node = n
        BY <1>3
      <4> QED
        BY <1>3, <1>7, <4>1, <4>2, <4>3 DEF RInv, IInv, EndedHasResult
    <3> QED
      BY <1>5, <1>6, <3>1, <3>2 DEF WaveFresh, BuildsOver
  <2> QED
    BY <2>1, <2>2
<1>13. AppliedInOrder' /\ RollbackFailed'
  BY <1>5 DEF RInv, AppliedInOrder, RollbackFailed, execVars, StartWave, BuildsDone
<1> QED
  BY <1>1, <1>5, <1>9, <1>11, <1>12, <1>13, TightKept DEF RInv

\* What the first result that waits is, and what stays of the others.
LEMMA FirstResult ==
  ASSUME RInv, results # <<>>, results' = Tail(results)
  PROVE  /\ Len(results) \in Nat \ {0} /\ Head(results) = results[1]
         /\ Len(results') = Len(results) - 1
         /\ \A i \in 1 .. Len(results') :
              /\ results'[i] = results[i + 1] /\ i + 1 \in 1 .. Len(results)
              /\ results'[i].node # Head(results).node
         /\ Head(results).node \in manifest.nodes /\ task[Head(results).node] = "ended"
         /\ Head(results).node \notin realized \cup applied \cup failedNodes
<1>1. results \in Seq(JS!Result)
  BY DEF RInv, IInv, TypeOK, JS!JoinSetTypeOK
<1>2. /\ Len(results) \in Nat \ {0} /\ Head(results) = results[1]
      /\ Len(results') = Len(results) - 1
      /\ \A i \in 1 .. Len(results') : results'[i] = results[i + 1] /\ i + 1 \in 1 .. Len(results)
  BY <1>1
<1>3. 1 \in 1 .. Len(results)
  BY <1>2
<1>4. \A i \in 1 .. Len(results') : i + 1 # 1
  BY <1>2
<1>5. \A i \in 1 .. Len(results') : results'[i].node # Head(results).node
  BY <1>2, <1>3, <1>4 DEF RInv, OneResultEach
<1>6. /\ Head(results).node \in manifest.nodes /\ task[Head(results).node] = "ended"
      /\ Head(results).node \notin realized \cup applied \cup failedNodes
  BY <1>2, <1>3 DEF RInv, OneResultEach, IInv, ResultsOfGroup
<1> QED
  BY <1>2, <1>5, <1>6

\* The results that are left are still their nodes' only ones.
LEMMA TailRInv ==
  ASSUME RInv, results # <<>>, results' = Tail(results),
         UNCHANGED <<execVars, wave, task>>,
         pc' = pc \/ pc' = "rollback",
         realized' \cup applied' \cup failedNodes' \subseteq
           realized \cup applied \cup failedNodes \cup {Head(results).node}
  PROVE  OneResultEach' /\ RecordedEnded' /\ ResultsOfWave'
<1>1. /\ Len(results') \in Nat
      /\ \A i \in 1 .. Len(results') :
           /\ results'[i] = results[i + 1] /\ i + 1 \in 1 .. Len(results)
           /\ results'[i].node # Head(results).node
      /\ task[Head(results).node] = "ended"
  BY FirstResult
<1>2. \A i, j \in 1 .. Len(results') : i + 1 = j + 1 => i = j
  BY <1>1
<1>3. OneResultEach'
  BY <1>1, <1>2 DEF RInv, OneResultEach
<1>4. RecordedEnded'
  BY <1>1 DEF RInv, RecordedEnded
<1>5. ResultsOfWave'
  BY <1>1 DEF RInv, ResultsOfWave, execVars
<1> QED
  BY <1>3, <1>4, <1>5

\* A success is recorded; a bind at the end of the order.
LEMMA RecordRInv ==
  ASSUME RInv, RecordBuild \/ RecordBind
  PROVE  RInv'
<1>1. IInv'
  BY RecordStep DEF RInv
<1> DEFINE x == Head(results).node
<1>2. /\ results # <<>> /\ results' = Tail(results)
      /\ UNCHANGED <<execVars, pc, wave, task, failedNodes, failure>>
      /\ pc \in {"builds", "binds"}
  BY DEF RecordBuild, RecordBind, NextResult
<1>3. /\ realized \subseteq realized' /\ applied \subseteq applied'
      /\ realized' \cup applied' \subseteq realized \cup applied \cup {x}
  BY DEF RecordBuild, RecordBind
<1>4. OneResultEach' /\ RecordedEnded' /\ ResultsOfWave'
  BY <1>2, <1>3, TailRInv
<1>5. Wave' = Wave
  BY <1>2 DEF Wave, execVars
<1>6. WaveFresh' /\ BuildsOver' /\ RollbackFailed'
  BY <1>2, <1>3, <1>5 DEF RInv, WaveFresh, BuildsOver, RollbackFailed
<1>7. AppliedInOrder'
  <2>1. CASE RecordBuild
    BY <1>2, <2>1 DEF RecordBuild, RInv, AppliedInOrder, execVars
  <2>2. CASE RecordBind
    <3>1. applied' = applied \cup {x} /\ appliedOrder' = Append(appliedOrder, x)
      BY <2>2 DEF RecordBind, Ordered
    <3>2. /\ Len(results) \in Nat \ {0} /\ Head(results) = results[1] /\ x \notin applied
      BY <1>2, FirstResult
    <3>3. level[x] = wave
      BY <1>2, <3>2 DEF RInv, ResultsOfWave
    <3>4. appliedOrder \in Seq(applied)
      BY DEF RInv, IInv, TypeOK
    <3>5. \A i \in 1 .. Len(appliedOrder) :
            /\ appliedOrder[i] # x /\ level[appliedOrder[i]] <= level[x]
      <4> SUFFICES ASSUME NEW i \in 1 .. Len(appliedOrder)
                   PROVE  appliedOrder[i] # x /\ level[appliedOrder[i]] <= level[x]
        OBVIOUS
      <4>1. appliedOrder[i] \in applied
        BY <3>4
      <4>2. task[appliedOrder[i]] = "ended" /\ appliedOrder[i] \in manifest.nodes
        BY <4>1 DEF RInv, RecordedEnded, IInv, TypeOK
      <4>3. appliedOrder[i] \in Node
        BY <4>2, NodesAreNodes DEF RInv, IInv
      <4>4. level[appliedOrder[i]] <= wave
        BY <4>2, <4>3 DEF RInv, IInv, SpawnedUpToWave
      <4> QED
        BY <3>2, <3>3, <4>1, <4>4
    <3>6. /\ Len(appliedOrder') = Len(appliedOrder) + 1 /\ Len(appliedOrder) \in Nat
          /\ \A i \in 1 .. Len(appliedOrder) : appliedOrder'[i] = appliedOrder[i]
          /\ appliedOrder'[Len(appliedOrder) + 1] = x
      BY <3>1, <3>4
    <3> HIDE DEF x
    <3>7. level' = level
      BY <1>2 DEF execVars
    <3>8. \A n \in applied' : \E i \in 1 .. Len(appliedOrder') : appliedOrder'[i] = n
      <4>1. Len(appliedOrder') \in 1 .. Len(appliedOrder') /\ appliedOrder'[Len(appliedOrder')] = x
        BY <3>6
      <4>2. \A i \in 1 .. Len(appliedOrder) : i \in 1 .. Len(appliedOrder')
        BY <3>6
      <4> QED
        BY <3>1, <3>6, <4>1, <4>2 DEF RInv, AppliedInOrder
    <3>9. ASSUME NEW i \in 1 .. Len(appliedOrder'), NEW j \in 1 .. Len(appliedOrder'), i < j
          PROVE  /\ appliedOrder'[i] # appliedOrder'[j]
                 /\ level[appliedOrder'[i]] <= level[appliedOrder'[j]]
      <4>1. i \in 1 .. Len(appliedOrder)
        BY <3>6, <3>9
      <4>2. CASE j \in 1 .. Len(appliedOrder)
        BY <3>6, <3>9, <4>1, <4>2 DEF RInv, AppliedInOrder
      <4>3. CASE j = Len(appliedOrder) + 1
        BY <3>5, <3>6, <4>1, <4>3
      <4> QED
        BY <3>6, <4>2, <4>3
    <3> QED
      BY <3>7, <3>8, <3>9 DEF AppliedInOrder
  <2> QED
    BY <2>1, <2>2
<1> QED
  BY <1>1, <1>2, <1>4, <1>6, <1>7, TightKept DEF RInv

\* The first error is recorded, and rollback begins.
LEMMA RecordFailureRInv ==
  ASSUME RInv, RecordFailure
  PROVE  RInv'
<1> USE DEF RecordFailure, NextResult
<1>1. IInv'
  BY RecordFailureStep DEF RInv
<1>2. OneResultEach' /\ RecordedEnded' /\ ResultsOfWave'
  BY TailRInv
<1>3. WaveFresh' /\ BuildsOver' /\ RollbackFailed' /\ AppliedInOrder' /\ LevelsTight'
  BY TightKept DEF RInv, WaveFresh, BuildsOver, RollbackFailed, AppliedInOrder, execVars
<1> QED
  BY <1>1, <1>2, <1>3 DEF RInv

\* A wave is over; none of the next has been spawned.
LEMMA BindsDoneRInv ==
  ASSUME RInv, BindsDone
  PROVE  RInv'
<1> USE DEF BindsDone, groupVars, resultVars
<1>1. IInv'
  BY BindsDoneStep DEF RInv
<1>2. task \in [Node -> JS!TaskState] /\ manifest.nodes \subseteq Node /\ wave \in Nat
  BY NodesAreNodes DEF RInv, IInv, TypeOK, JS!JoinSetTypeOK
<1>3. OneResultEach' /\ RecordedEnded'
  BY DEF RInv, OneResultEach, RecordedEnded
<1>4. ASSUME NEW n \in manifest.nodes, level[n] = wave + 1
      PROVE  task[n] = "unspawned"
  BY <1>2, <1>4 DEF RInv, IInv, SpawnedUpToWave
<1>5. WaveFresh'
  BY <1>4 DEF WaveFresh, Wave, execVars
<1>6. ResultsOfWave' /\ BuildsOver' /\ RollbackFailed' /\ AppliedInOrder' /\ LevelsTight'
  BY TightKept DEF RInv, ResultsOfWave, BuildsOver, RollbackFailed, AppliedInOrder, execVars
<1> QED
  BY <1>1, <1>3, <1>5, <1>6 DEF RInv

\* Rollback and the end of the run change neither results nor records.
LEMMA EndRInv ==
  ASSUME RInv,
         (\E outcome \in JS!Outcome : RollbackBind(outcome)) \/ RollbackDone \/ AllWavesDone
  PROVE  RInv'
<1>1. IInv'
  BY EndStep DEF RInv
<1>2. UNCHANGED <<execVars, wave, groupVars, resultVars>> /\ pc' \in {"rollback", "done"}
      /\ (pc' = "rollback" => pc = "rollback")
  BY DEF RollbackBind, RollbackDone, AllWavesDone
<1>3. OneResultEach' /\ RecordedEnded' /\ ResultsOfWave' /\ WaveFresh' /\ BuildsOver'
  BY <1>2 DEF RInv, OneResultEach, RecordedEnded, ResultsOfWave, WaveFresh, BuildsOver,
     groupVars, resultVars
<1>4. AppliedInOrder' /\ RollbackFailed' /\ LevelsTight'
  BY <1>2, TightKept DEF RInv, AppliedInOrder, RollbackFailed, execVars, resultVars
<1> QED
  BY <1>1, <1>3, <1>4 DEF RInv

\* The stronger invariant is inductive.
LEMMA NextRInv == RInv /\ [Next]_vars => RInv'
<1> SUFFICES ASSUME RInv, [Next]_vars PROVE RInv'
  OBVIOUS
<1>1. CASE MainStep
  BY <1>1, SpawnRInv, RecordRInv, RecordFailureRInv, BindsDoneRInv, EndRInv DEF MainStep
<1>2. CASE \E n \in Node : TaskStep(n)
  BY <1>2, TaskStepRInv
<1>3. CASE UNCHANGED vars
  <2>1. IInv'
    BY <1>3, NextIInv DEF RInv
  <2> QED
    BY <1>3, <2>1, TightKept DEF RInv, vars, execVars, groupVars, resultVars, OneResultEach,
       RecordedEnded, ResultsOfWave, WaveFresh, BuildsOver, AppliedInOrder, RollbackFailed, Wave
<1> QED
  BY <1>1, <1>2, <1>3 DEF Next

-----------------------------------------------------------------------------
(* Every step of Executor is a step of ManifestExecution, or a stutter.    *)

\* ManifestExecution's operators on manifests are Executor's.
LEMMA SameDependents ==
  ASSUME NEW m, NEW n
  PROVE  ME!Dependents(m, n) = Dependents(m, n)
BY DEF ME!Dependents, ME!Deps, ME!Incoming, ME!Edges, Dependents, Deps, Incoming, Edges

\* Initially nothing is over.
LEMMA InitRefines == Init => ME!Init
<1> SUFFICES ASSUME Init PROVE ME!Init
  OBVIOUS
<1>1. results = <<>> /\ \A n \in Node : task[n] = "unspawned"
  BY DEF Init, JS!JoinSetInit
<1>2. Nodes(results, "ok") = {} /\ Nodes(results, "err") = {}
  BY <1>1, NodesOf DEF Nodes, Range
<1>3. Completed = {} /\ Broken = {} /\ Lost = {} /\ StillApplied = {} /\ Phase = "running"
  BY <1>1, <1>2 DEF Init, Completed, Broken, Lost, StillApplied, Phase
<1> QED
  BY <1>3 DEF Init, ME!Init

\* While the loop goes on, what is over has been recorded, has its result
\* waiting, or was lost.
LEMMA OverIs ==
  ASSUME RInv
  PROVE  /\ \A n \in realized \cup applied : n \in Completed
         /\ \A n \in Node : task[n] = "lost" => n \in Lost
         /\ Going => \A n \in Node : task[n] = "ended" => n \in Completed \cup Broken
<1>1. results \in Seq(JS!Result)
  BY DEF RInv, IInv, TypeOK, JS!JoinSetTypeOK
<1>2. \A i \in 1 .. Len(results) : results[i].outcome \in {"ok", "err"}
  <2> SUFFICES ASSUME NEW i \in 1 .. Len(results) PROVE results[i].outcome \in {"ok", "err"}
    OBVIOUS
  <2>1. results[i] \in JS!Result
    BY <1>1
  <2> QED
    BY <2>1 DEF JS!Result, JS!Outcome
<1>3. \A i \in 1 .. Len(results) :
        results[i].node \in Nodes(results, "ok") \cup Nodes(results, "err")
  BY <1>1, <1>2, NodesOf
<1> QED
  BY <1>3 DEF Completed, Broken, Lost, RInv, IInv, EndedHasResult

\* A task that moves may end: its group's predecessors are over, it is not.
LEMMA MayEndNow ==
  ASSUME RInv, NEW n \in Node, task[n] = "running"
  PROVE  /\ ME!MayEnd(n) /\ Phase = "running" /\ failure = {}
         /\ n \in manifest.nodes
<1>1. /\ n \in manifest.nodes /\ level[n] = wave /\ GroupOf(n) /\ Going
      /\ n \notin realized \cup applied \cup failedNodes
      /\ \A i \in 1 .. Len(results) : results[i].node # n
  BY InFlightNow DEF InFlight
<1>2. results \in Seq(JS!Result) /\ manifest.nodes \subseteq Node
  BY NodesAreNodes DEF RInv, IInv, TypeOK, JS!JoinSetTypeOK
<1>3. n \notin Nodes(results, "ok") /\ n \notin Nodes(results, "err")
  BY <1>1, <1>2, NodesOf
<1>4. n \notin Completed \cup Broken \cup Lost
  BY <1>1, <1>3 DEF Completed, Broken, Lost
<1>5. failure = {} /\ Phase = "running"
  BY <1>1 DEF Phase, Going, RInv, IInv, NoFailureYet
<1>6. ASSUME NEW k \in manifest.nodes, ME!Before(k, n) PROVE k \in Completed \cup Lost
  <2>1. CASE level[k] < level[n]
    <3>1. k \in realized \cup applied \/ task[k] = "lost"
      BY <1>1, <2>1 DEF RInv, IInv, EarlierWavesOver
    <3> QED
      BY <1>2, <3>1, OverIs
  <2>2. CASE level[k] = level[n] /\ k \in Build /\ n \in Bind
    <3>1. pc = "binds" /\ k \in Wave \cap Build
      BY <1>1, <2>2, DagAssumption DEF GroupOf, Wave
    <3>2. k \in realized \/ task[k] = "lost"
      BY <3>1 DEF RInv, BuildsOver
    <3> QED
      BY <1>2, <3>2, OverIs
  <2> QED
    BY <1>6, <2>1, <2>2 DEF ME!Before
<1> QED
  BY <1>1, <1>4, <1>5, <1>6 DEF ME!MayEnd, ME!Over

\* A task that starts is a stutter; one that ends completes, breaks or loses
\* its node.
LEMMA TaskStepRefines ==
  ASSUME RInv, NEW n \in Node, TaskStep(n)
  PROVE  [ME!Next]_(ME!vars)
<1>1. UNCHANGED <<execVars, pc, wave, readyBinds, resultVars, toUndo>>
  BY DEF TaskStep, StartTask, TaskSucceeds, TaskFails, TaskPanics
<1>2. task \in [Node -> JS!TaskState] /\ results \in Seq(JS!Result)
  BY DEF RInv, IInv, TypeOK, JS!JoinSetTypeOK
<1>3. Phase' = Phase /\ StillApplied' = StillApplied
  BY <1>1 DEF Phase, StillApplied, resultVars
<1>4. CASE StartTask(n)
  <2>1. task[n] = "queued" /\ task' = [task EXCEPT ![n] = "running"] /\ results' = results
    BY <1>4 DEF StartTask, JS!Acquire
  <2>2. Lost' = Lost /\ Completed' = Completed /\ Broken' = Broken
    BY <1>1, <1>2, <2>1 DEF Lost, Completed, Broken, resultVars
  <2> QED
    BY <1>1, <1>3, <2>2 DEF ME!vars, execVars
<1>5. CASE TaskPanics(n)
  <2>1. task[n] = "running" /\ task' = [task EXCEPT ![n] = "lost"] /\ results' = results
    BY <1>5 DEF TaskPanics, JS!Panic
  <2>2. Lost' = Lost \cup {n} /\ Completed' = Completed /\ Broken' = Broken
    BY <1>1, <1>2, <2>1 DEF Lost, Completed, Broken, resultVars
  <2>3. ME!MayEnd(n) /\ n \in manifest.nodes
    BY <2>1, MayEndNow
  <2>4. ME!Lose(n)
    BY <1>1, <1>3, <2>2, <2>3 DEF ME!Lose, execVars
  <2> QED
    BY <2>3, <2>4 DEF ME!Next
<1>6. ASSUME NEW outcome \in JS!Outcome, JS!Return(n, outcome)
      PROVE  [ME!Next]_(ME!vars)
  <2> DEFINE x == [node |-> n, outcome |-> outcome]
  <2>1. /\ task[n] = "running" /\ task' = [task EXCEPT ![n] = "ended"]
        /\ results' = Append(results, x) /\ x \in JS!Result
        /\ x.node = n /\ x.outcome = outcome
    BY <1>6 DEF JS!Return, JS!Result
  <2> HIDE DEF x
  <2>2. Lost' = Lost
    BY <1>2, <2>1 DEF Lost
  <2>3. ME!MayEnd(n) /\ n \in manifest.nodes
    BY <2>1, MayEndNow
  <2>4. /\ Nodes(results', "ok") =
             Nodes(results, "ok") \cup (IF outcome = "ok" THEN {n} ELSE {})
        /\ Nodes(results', "err") =
             Nodes(results, "err") \cup (IF outcome = "err" THEN {n} ELSE {})
    BY <1>2, <2>1, NodesAppend
  <2>5. CASE outcome = "ok"
    <3>1. Completed' = Completed \cup {n} /\ Broken' = Broken
      BY <1>1, <2>4, <2>5 DEF Completed, Broken, resultVars
    <3>2. ME!Complete(n)
      BY <1>1, <1>3, <2>2, <2>3, <3>1 DEF ME!Complete, execVars
    <3> QED
      BY <2>3, <3>2 DEF ME!Next
  <2>6. CASE outcome = "err"
    <3>1. Broken' = Broken \cup {n} /\ Completed' = Completed
      BY <1>1, <2>4, <2>6 DEF Completed, Broken, resultVars
    <3>2. ME!Break(n)
      BY <1>1, <1>3, <2>2, <2>3, <3>1 DEF ME!Break, execVars
    <3> QED
      BY <2>3, <3>2 DEF ME!Next
  <2> QED
    BY <2>5, <2>6 DEF JS!Outcome
<1> QED
  BY <1>4, <1>5, <1>6 DEF TaskStep, TaskSucceeds, TaskFails, JS!Outcome

\* Spawning and recording a group, and going on to the next, are stutters.
LEMMA LoopRefines ==
  ASSUME RInv, StartWave \/ BuildsDone \/ RecordBuild \/ RecordBind \/ BindsDone
  PROVE  UNCHANGED ME!vars
<1>1. results \in Seq(JS!Result)
  BY DEF RInv, IInv, TypeOK, JS!JoinSetTypeOK
<1>2. Going /\ Going' /\ failure' = failure
  BY DEF StartWave, BuildsDone, RecordBuild, RecordBind, BindsDone, Going, resultVars
<1>3. failure = {} /\ failedNodes = {} /\ FailedDependency = {}
  BY <1>2 DEF RInv, IInv, NoFailureYet, FailedDependency
<1>4. Phase' = Phase /\ StillApplied' = StillApplied
  BY <1>2, <1>3 DEF Phase, Going, StillApplied
<1>5. UNCHANGED execVars /\ failedNodes' = failedNodes
  BY <1>3 DEF StartWave, BuildsDone, RecordBuild, RecordBind, BindsDone, resultVars
<1>6. Lost' = Lost
  <2>1. CASE StartWave \/ BuildsDone
    BY <2>1, SpawnRInv
  <2>2. CASE RecordBuild \/ RecordBind \/ BindsDone
    BY <2>2 DEF RecordBuild, RecordBind, BindsDone, NextResult, groupVars, Lost
  <2> QED
    BY <2>1, <2>2
<1>7. Completed' = Completed /\ Broken' = Broken
  <2>1. CASE RecordBuild \/ RecordBind
    <3>1. results # <<>> /\ results' = Tail(results) /\ Head(results).outcome = "ok"
      BY <2>1 DEF RecordBuild, RecordBind, NextResult
    <3>2. \A o : Nodes(results, o) =
            Nodes(Tail(results), o) \cup
              (IF Head(results).outcome = o THEN {Head(results).node} ELSE {})
      BY <1>1, <3>1, NodesTail
    <3>3. /\ Nodes(results, "ok") = Nodes(results', "ok") \cup {Head(results).node}
          /\ Nodes(results, "err") = Nodes(results', "err")
      BY <3>1, <3>2
    <3>4. realized' \cup applied' = realized \cup applied \cup {Head(results).node}
      BY <2>1 DEF RecordBuild, RecordBind
    <3> QED
      BY <1>5, <3>4, <3>3 DEF Completed, Broken
  <2>2. CASE StartWave \/ BuildsDone \/ BindsDone
    <3>1. results' = results /\ realized' = realized /\ applied' = applied
      BY <2>2 DEF StartWave, BuildsDone, BindsDone, JS!Spawn, groupVars, resultVars
    <3> QED
      BY <1>5, <3>1 DEF Completed, Broken
  <2> QED
    BY <2>1, <2>2
<1> QED
  BY <1>4, <1>5, <1>6, <1>7 DEF ME!vars, execVars

\* The first error gives the run up: what is not over comes after it, and the
\* binds recorded are all those of earlier groups, and some of its own.
LEMMA RecordFailureRefines ==
  ASSUME RInv, RecordFailure
  PROVE  ME!GiveUp
<1> DEFINE x == Head(results).node
<1>1. /\ pc \in {"builds", "binds"} /\ pc' = "rollback" /\ JS!AllJoined
      /\ results # <<>> /\ results' = Tail(results) /\ Head(results).outcome = "err"
      /\ failedNodes' = failedNodes \cup {x} /\ failure' = {x}
      /\ toUndo' = Len(appliedOrder)
      /\ UNCHANGED <<manifest, level, task, realized, applied, appliedOrder>>
  BY DEF RecordFailure, NextResult, execVars, ToRollBack
<1>2. /\ task \in [Node -> JS!TaskState] /\ results \in Seq(JS!Result)
      /\ manifest.nodes \subseteq Node
      /\ realized \subseteq Build /\ applied \subseteq Bind /\ appliedOrder \in Seq(applied)
  BY NodesAreNodes DEF RInv, IInv, TypeOK, JS!JoinSetTypeOK
<1>3. Going /\ failure = {} /\ failedNodes = {}
  BY <1>1 DEF Going, RInv, IInv, NoFailureYet
<1>4. \A o : Nodes(results, o) =
        Nodes(Tail(results), o) \cup (IF Head(results).outcome = o THEN {x} ELSE {})
  BY <1>1, <1>2, NodesTail
<1>5. /\ Nodes(results, "ok") = Nodes(results', "ok")
      /\ Nodes(results, "err") = Nodes(results', "err") \cup {x}
  BY <1>1, <1>4
<1>6. Completed' = Completed /\ Broken' = Broken /\ Lost' = Lost /\ x \in Broken
  BY <1>1, <1>5 DEF Completed, Broken, Lost
<1>7. StillApplied' = applied
  <2>1. \A i \in 1 .. Len(appliedOrder) : appliedOrder[i] \in applied
    BY <1>2
  <2>2. StillApplied' = {appliedOrder[i] : i \in 1 .. Len(appliedOrder)}
    BY <1>1 DEF StillApplied
  <2> QED
    BY <2>1, <2>2 DEF RInv, AppliedInOrder
<1>8. Phase = "running" /\ Phase' = "undoing"
  BY <1>1 DEF Phase
<1>9. x \in manifest.nodes /\ level[x] = wave /\ (pc = "builds" => x \in Build)
  <2>1. Len(results) \in Nat \ {0} /\ Head(results) = results[1]
    BY <1>1, FirstResult
  <2>2. 1 \in 1 .. Len(results)
    BY <2>1
  <2> QED
    BY <1>1, <2>1, <2>2 DEF RInv, ResultsOfWave, IInv, ResultsOfGroup
<1>10. ASSUME NEW n \in manifest.nodes, n \notin Completed \cup Broken \cup Lost
       PROVE  ME!Before(x, n)
  <2>1. task[n] = "unspawned"
    BY <1>1, <1>2, <1>3, <1>10, OverIs DEF JS!AllJoined, JS!TaskState
  <2>2. ~(level[n] < wave)
    BY <1>2, <1>3, <1>10, OverIs DEF RInv, IInv, EarlierWavesOver
  <2>3. CASE level[n] = wave
    <3>1. pc = "builds" /\ n \in Bind
      BY <1>1, <1>2, <2>1, <2>3 DEF RInv, IInv, WaveSpawned, Wave, Node
    <3> QED
      BY <1>9, <2>3, <3>1 DEF ME!Before
  <2>4. CASE level[n] > wave
    BY <1>9, <2>4 DEF ME!Before
  <2> QED
    BY <2>2, <2>3, <2>4 DEF RInv, IInv, TypeOK
<1>11. applied \in SUBSET (Completed \cap Bind)
  BY <1>2 DEF Completed
<1>12. ASSUME NEW k \in Completed \cap Bind, NEW f \in Broken, ME!Before(k, f)
       PROVE  k \in applied
  <2> SUFFICES ASSUME k \notin applied PROVE FALSE
    OBVIOUS
  <2>1. k \in Nodes(results, "ok") /\ f \in Nodes(results, "err")
    BY <1>2, <1>3, <1>12, DagAssumption DEF Completed, Broken
  <2>2. PICK i \in 1 .. Len(results) : results[i].node = k
    BY <1>2, <2>1, NodesOf
  <2>3. PICK j \in 1 .. Len(results) : results[j].node = f
    BY <1>2, <2>1, NodesOf
  <2>4. level[k] = wave /\ level[f] = wave
    BY <1>1, <2>2, <2>3 DEF RInv, ResultsOfWave
  <2>5. (k \in Build /\ f \in Build) \/ (k \in Bind /\ f \in Bind)
    BY <1>1, <2>2, <2>3 DEF RInv, IInv, ResultsOfGroup
  <2> QED
    BY <1>12, <2>4, <2>5, DagAssumption DEF ME!Before, RInv, IInv, TypeOK
<1> HIDE DEF x
<1>13. Broken # {}
  BY <1>6
<1>14. \A n \in manifest.nodes \ (Completed \cup Broken \cup Lost) :
         \E f \in Broken : ME!Before(f, n)
  BY <1>6, <1>10
<1>15. \E recorded \in SUBSET (Completed \cap Bind) :
         /\ \A k \in Completed \cap Bind : (\E f \in Broken : ME!Before(k, f)) => k \in recorded
         /\ StillApplied' = recorded
  BY <1>7, <1>11, <1>12
<1> QED
  BY <1>1, <1>6, <1>8, <1>13, <1>14, <1>15 DEF ME!GiveUp, ME!Over

\* Rollback undoes the last bind that is left: nothing left depends on it.
LEMMA RollbackRefines ==
  ASSUME RInv, NEW outcome, RollbackBind(outcome)
  PROVE  \E x \in manifest.nodes : ME!Undo(x)
<1> DEFINE x == appliedOrder[toUndo]
<1>1. /\ pc = "rollback" /\ toUndo > 0 /\ toUndo' = toUndo - 1
      /\ UNCHANGED <<execVars, pc, wave, readyBinds, groupVars, resultVars>>
  BY DEF RollbackBind
<1>2. /\ failure # {} /\ toUndo \in 1 .. Len(appliedOrder) /\ Len(appliedOrder) \in Nat
      /\ x \in applied /\ applied \subseteq manifest.nodes
      /\ level \in [manifest.nodes -> Nat]
      /\ \A i \in 1 .. Len(appliedOrder) : appliedOrder[i] \in applied
  BY <1>1 DEF RInv, IInv, TypeOK, RollbackFailed
<1>3. /\ Phase = "undoing" /\ Phase' = Phase
      /\ Completed' = Completed /\ Broken' = Broken /\ Lost' = Lost
  BY <1>1 DEF Phase, Completed, Broken, Lost, groupVars, resultVars
<1>4. /\ StillApplied = {appliedOrder[i] : i \in 1 .. toUndo}
      /\ StillApplied' = {appliedOrder[i] : i \in 1 .. toUndo - 1}
  BY <1>1, <1>2 DEF StillApplied, resultVars
<1>5. \A i \in 1 .. toUndo - 1 :
        /\ appliedOrder[i] # x /\ level[appliedOrder[i]] <= level[x]
        /\ i \in 1 .. toUndo
  BY <1>1, <1>2 DEF RInv, AppliedInOrder
<1>6. \A i \in 1 .. toUndo : i = toUndo \/ i \in 1 .. toUndo - 1
  BY <1>2
<1>7. StillApplied' = StillApplied \ {x} /\ x \in StillApplied
  BY <1>2, <1>4, <1>5, <1>6
<1>8. \A k \in StillApplied : k \in manifest.nodes /\ level[k] <= level[x]
  BY <1>2, <1>4, <1>5, <1>6
<1>9. ME!Dependents(manifest, x) \cap StillApplied = {}
  <2> SUFFICES ASSUME NEW k \in Dependents(manifest, x), k \in StillApplied PROVE FALSE
    BY SameDependents
  <2>1. k \in manifest.nodes /\ x \in Deps(manifest, k)
    BY DEF Dependents
  <2>2. x \in manifest.nodes /\ level[x] < level[k]
    BY <2>1 DEF RInv, IInv, LevelsOrdered
  <2> QED
    BY <1>2, <1>8, <2>1, <2>2
<1> HIDE DEF x
<1>10. ME!Undo(x)
  BY <1>1, <1>3, <1>7, <1>9 DEF ME!Undo, execVars
<1> QED
  BY <1>2, <1>10

\* A run that gets past its last wave is over for every node, and none broke.
LEMMA AllWavesDoneRefines ==
  ASSUME RInv, AllWavesDone
  PROVE  ME!Succeed
<1>1. /\ pc = "wave" /\ pc' = "done" /\ Wave = {}
      /\ UNCHANGED <<execVars, wave, readyBinds, groupVars, resultVars, toUndo>>
  BY DEF AllWavesDone
<1>2. /\ failure = {} /\ failedNodes = {} /\ results = <<>> /\ Going
      /\ manifest.nodes \subseteq Node
      /\ realized \cup applied \subseteq manifest.nodes
  BY <1>1, NodesAreNodes DEF Going, RInv, IInv, TypeOK, NoFailureYet, ResultsOfGroup
<1>3. Nodes(results, "ok") = {} /\ Nodes(results, "err") = {}
  BY <1>2, NodesOf DEF Nodes, Range
<1>4. Completed = realized \cup applied /\ Broken = {}
  BY <1>2, <1>3 DEF Completed, Broken
<1>5. Lost \subseteq manifest.nodes
  BY DEF Lost, RInv, IInv, SpawnedUpToWave
<1>6. \A n \in manifest.nodes : n \in Completed \cup Lost
  <2> SUFFICES ASSUME NEW n \in manifest.nodes PROVE n \in Completed \cup Lost
    OBVIOUS
  <2>1. level[n] < wave
    BY <1>1, NoWaveNoMore DEF RInv, IInv
  <2> QED
    BY <1>2, <2>1, OverIs DEF RInv, IInv, EarlierWavesOver
<1>7. Phase = "running" /\ Phase' = "succeeded"
  BY <1>1, <1>2 DEF Phase, resultVars
<1>8. UNCHANGED <<manifest, level, Completed, Broken, Lost, StillApplied>>
  BY <1>1 DEF execVars, groupVars, resultVars, Completed, Broken, Lost, StillApplied
<1>9. Completed \cup Broken \cup Lost = manifest.nodes
  BY <1>2, <1>4, <1>5, <1>6
<1> QED
  BY <1>4, <1>7, <1>8, <1>9 DEF ME!Succeed, ME!Over

\* A rollback that is through ends the run as failed.
LEMMA RollbackDoneRefines ==
  ASSUME RInv, RollbackDone
  PROVE  ME!Fail
<1>1. /\ pc = "rollback" /\ pc' = "done" /\ toUndo = 0
      /\ UNCHANGED <<execVars, wave, readyBinds, groupVars, resultVars, toUndo>>
  BY DEF RollbackDone
<1>2. failure # {}
  BY <1>1 DEF RInv, RollbackFailed
<1>3. Phase = "undoing" /\ Phase' = "failed"
  BY <1>1, <1>2 DEF Phase, resultVars
<1>4. StillApplied = {}
  BY <1>1 DEF StillApplied
<1>5. UNCHANGED <<manifest, level, Completed, Broken, Lost, StillApplied>>
  BY <1>1 DEF execVars, groupVars, resultVars, Completed, Broken, Lost, StillApplied
<1> QED
  BY <1>3, <1>4, <1>5 DEF ME!Fail

\* Every step refines one of ManifestExecution.
LEMMA NextRefines == RInv /\ [Next]_vars => [ME!Next]_(ME!vars)
<1> SUFFICES ASSUME RInv, [Next]_vars PROVE [ME!Next]_(ME!vars)
  OBVIOUS
<1>1. CASE StartWave \/ BuildsDone \/ RecordBuild \/ RecordBind \/ BindsDone
  BY <1>1, LoopRefines
<1>2. CASE RecordFailure
  BY <1>2, RecordFailureRefines DEF ME!Next
<1>3. CASE \E outcome \in JS!Outcome : RollbackBind(outcome)
  BY <1>3, RollbackRefines DEF ME!Next
<1>4. CASE RollbackDone \/ AllWavesDone
  BY <1>4, RollbackDoneRefines, AllWavesDoneRefines DEF ME!Next
<1>5. CASE \E n \in Node : TaskStep(n)
  BY <1>5, TaskStepRefines
<1>6. CASE UNCHANGED vars
  BY <1>6 DEF vars, execVars, groupVars, resultVars, ME!vars, Phase, Completed, Broken, Lost,
     StillApplied
<1> QED
  BY <1>1, <1>2, <1>3, <1>4, <1>5, <1>6 DEF Next, MainStep

\* Every execution of a manifest, however its tasks interleave, is one that
\* ManifestExecution allows: groups one after the other, nothing after the
\* group that broke, recorded binds undone with nothing left that needs them.
THEOREM Refinement == Spec => ImplementsManifestExecution
<1>1. Init => RInv
  BY InitRInv
<1>2. RInv /\ [Next]_vars => RInv'
  BY NextRInv
<1>3. Init => ME!Init
  BY InitRefines
<1>4. RInv /\ [Next]_vars => [ME!Next]_(ME!vars)
  BY NextRefines
<1> QED
  BY <1>1, <1>2, <1>3, <1>4, PTL DEF Spec, ImplementsManifestExecution, ME!Spec

=============================================================================
