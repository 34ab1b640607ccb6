-------------------------- MODULE ManifestExecution --------------------------
(***************************************************************************)
(* What executing a manifest promises, without permits, tasks or vectors   *)
(* of results.  Nodes end in groups, one group after the other: the builds *)
(* of a level, then its binds.  A broken node stops everything after its   *)
(* group; then recorded binds are undone, dependents first.  The modules   *)
(* above the executor use this specification instead of it.                *)
(***************************************************************************)
EXTENDS Dag

CONSTANT Manifests

VARIABLES
  manifest,
  level,       \* the wave of every node
  phase,       \* idle, running, undoing, succeeded or failed
  completed,   \* nodes whose actions all succeeded
  broken,      \* nodes whose task ended with an error
  lost,        \* nodes whose task left no result
  toUndo       \* recorded binds that rollback has yet to go through

vars == <<manifest, level, phase, completed, broken, lost, toUndo>>

\* The levels ExecutionWaves computes: its theorems WavesRespectDependencies
\* and WavesAreTight state these two conjuncts.
Levels(m) ==
  {f \in [m.nodes -> 0 .. (WaveCount(m) - 1)] :
     \A n \in m.nodes :
       /\ \A d \in Deps(m, n) : f[d] < f[n]
       /\ f[n] > 0 => \E d \in Deps(m, n) : f[d] = f[n] - 1}

Start(m) ==
  /\ manifest' = m
  /\ level' \in Levels(m)
  /\ phase' = "running"
  /\ completed' = {} /\ broken' = {} /\ lost' = {} /\ toUndo' = {}

Init ==
  /\ manifest \in Manifests
  /\ level \in Levels(manifest)
  /\ phase = "running"
  /\ completed = {} /\ broken = {} /\ lost = {} /\ toUndo = {}

-----------------------------------------------------------------------------

Over == completed \cup broken \cup lost

\* Node k belongs to an earlier group than node n.
Before(k, n) ==
  \/ level[k] < level[n]
  \/ level[k] = level[n] /\ k \in Build /\ n \in Bind

MayEnd(n) ==
  /\ phase = "running"
  /\ n \in manifest.nodes \ Over
  /\ \A k \in manifest.nodes : Before(k, n) => k \in completed \cup lost

Complete(n) ==
  /\ MayEnd(n)
  /\ completed' = completed \cup {n}
  /\ UNCHANGED <<manifest, level, phase, broken, lost, toUndo>>

Break(n) ==
  /\ MayEnd(n)
  /\ broken' = broken \cup {n}
  /\ UNCHANGED <<manifest, level, phase, completed, lost, toUndo>>

Lose(n) ==
  /\ MayEnd(n)
  /\ lost' = lost \cup {n}
  /\ UNCHANGED <<manifest, level, phase, completed, broken, toUndo>>

Succeed ==
  /\ phase = "running"
  /\ broken = {}
  /\ Over = manifest.nodes
  /\ phase' = "succeeded"
  /\ UNCHANGED <<manifest, level, completed, broken, lost, toUndo>>

\* The whole group has ended; of its binds, those whose result came before
\* the first error are recorded, and only recorded binds will be undone.
GiveUp ==
  /\ phase = "running"
  /\ broken # {}
  /\ \A n \in manifest.nodes \ Over : \E f \in broken : Before(f, n)
  /\ \E recorded \in SUBSET (completed \cap Bind) :
       /\ \A x \in completed \cap Bind :
            (\E f \in broken : Before(x, f)) => x \in recorded
       /\ toUndo' = recorded
  /\ phase' = "undoing"
  /\ UNCHANGED <<manifest, level, completed, broken, lost>>

Undo(x) ==
  /\ phase = "undoing"
  /\ x \in toUndo
  /\ Dependents(manifest, x) \cap toUndo = {}
  /\ toUndo' = toUndo \ {x}
  /\ UNCHANGED <<manifest, level, phase, completed, broken, lost>>

Fail ==
  /\ phase = "undoing"
  /\ toUndo = {}
  /\ phase' = "failed"
  /\ UNCHANGED <<manifest, level, completed, broken, lost, toUndo>>

Next ==
  \/ \E n \in manifest.nodes :
       Complete(n) \/ Break(n) \/ Lose(n) \/ Undo(n)
  \/ Succeed \/ GiveUp \/ Fail

Spec == Init /\ [][Next]_vars

=============================================================================
