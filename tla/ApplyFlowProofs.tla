--------------------------- MODULE ApplyFlowProofs ---------------------------
(***************************************************************************)
(* Theorems about ApplyFlow, proved for every set of builds and binds,     *)
(* every set of configurations and every kind and number of failures: what *)
(* sys apply and sys destroy never touch, and what they can always undo.   *)
(***************************************************************************)
EXTENDS ApplyFlow, TLAPS

-----------------------------------------------------------------------------
(* What compute_diff returns, for configurations without a repeated id.    *)

Configuration(c) == c \subseteq Node /\ UniqueIds(c)

\* The lists of the diff name binds of the side they are about.
LEMMA DiffTypes ==
  ASSUME NEW new, NEW old, Configuration(new), Configuration(old)
  PROVE  /\ binds_to_destroy(new, old) \subseteq old \cap Bind
         /\ binds_to_apply(new, old) \subseteq new \cap Bind
         /\ binds_to_update(new, old) \subseteq (old \cap Bind) \X (new \cap Bind)
         /\ binds_unchanged(new, old) \subseteq new \cap old \cap Bind
  BY DEF binds_to_destroy, binds_to_apply, binds_to_update, binds_unchanged,
         Recreated, WithId, WithoutId

\* A bind that both configurations contain is in no list of changes.
LEMMA KeptIsUnchanged ==
  ASSUME NEW new, NEW old, Configuration(new), Configuration(old),
         NEW x \in new \cap old \cap Bind
  PROVE  /\ x \notin binds_to_destroy(new, old)
         /\ x \notin binds_to_apply(new, old)
         /\ \A p \in binds_to_update(new, old) : p[1] # x /\ p[2] # x
  BY DEF Configuration, UniqueIds, binds_to_destroy, binds_to_apply,
         binds_to_update, Recreated, WithId, WithoutId, HasIdIn

\* What is created or updated to is new, and what is updated from is not
\* destroyed as well.
LEMMA ChangesAreApart ==
  ASSUME NEW new, NEW old, Configuration(new), Configuration(old)
  PROVE  /\ binds_to_apply(new, old) \cap old = {}
         /\ \A p \in binds_to_update(new, old) :
              /\ p[2] \notin old
              /\ p[1] \notin binds_to_destroy(new, old)
  BY DEF Configuration, UniqueIds, binds_to_destroy, binds_to_apply,
         binds_to_update, Recreated, WithId, WithoutId, HasIdIn

\* The two pairs of an update never share a bind.
LEMMA UpdatesAreApart ==
  ASSUME NEW new, NEW old, Configuration(new), Configuration(old),
         NEW p \in binds_to_update(new, old), NEW q \in binds_to_update(new, old)
  PROVE  p[1] # q[2] /\ (p[2] = q[2] => p = q) /\ (p[1] = q[1] => p = q)
  BY DEF Configuration, UniqueIds, binds_to_update, WithId

\* Nothing of a configuration is forgotten: what was not there before is
\* created, or another bind is updated to it.
LEMMA NothingForgotten ==
  ASSUME NEW new, NEW old, Configuration(new), Configuration(old),
         NEW x \in new \cap Bind, x \notin old
  PROVE  \/ x \in binds_to_apply(new, old)
         \/ \E p \in binds_to_update(new, old) : p[2] = x
<1>1. CASE Id[x] = NoId
  BY <1>1 DEF binds_to_apply, WithId, WithoutId
<1>2. CASE Id[x] # NoId /\ ~HasIdIn(x, old)
  BY <1>2 DEF binds_to_apply, WithId
<1>3. CASE Id[x] # NoId /\ HasIdIn(x, old)
  <2>1. PICK y \in WithId(old) : Id[y] = Id[x]
    BY <1>3 DEF HasIdIn
  <2>2. x \in WithId(new) /\ y # x
    BY <1>3 DEF WithId
  <2>3. CASE x \in Updatable
    <3>1. <<y, x>> \in binds_to_update(new, old)
      BY <2>1, <2>2, <2>3 DEF binds_to_update
    <3>2. QED BY <3>1
  <2>4. CASE x \notin Updatable
    <3>1. <<y, x>> \in Recreated(new, old)
      BY <2>1, <2>2, <2>4 DEF Recreated
    <3>2. x \in {p[2] : p \in Recreated(new, old)}
      BY <3>1
    <3>3. QED BY <3>2 DEF binds_to_apply
  <2>5. QED BY <2>3, <2>4
<1>4. QED BY <1>1, <1>2, <1>3

\* Compared with nothing, everything goes and nothing is created.
LEMMA DiffWithNothing ==
  ASSUME NEW old, Configuration(old)
  PROVE  /\ binds_to_destroy({}, old) = old \cap Bind
         /\ binds_to_apply({}, old) = {}
         /\ binds_to_update({}, old) = {}
         /\ Configuration({})
  BY DEF Configuration, UniqueIds, binds_to_destroy, binds_to_apply,
         binds_to_update, Recreated, WithId, WithoutId, HasIdIn

-----------------------------------------------------------------------------
(* The inductive invariant: what every loop of a command has left to do,   *)
(* and what those before it have done, in terms of the diff.               *)

Old == NodesOf(current)
ToDestroy == binds_to_destroy(desired, Old)
ToApply == binds_to_apply(desired, Old)
ToUpdate == binds_to_update(desired, Old)

Updating == {"update", "saveUpdated", "removeUpdated"}
Restores == {"restoreAndFail", "restoreAndReset"}
Cleanups == {"cleanup", "cleanupPartial"}
BeforeCleanup == {"destroying", "execute", "running", "saveStates"} \cup Updating
Executed == {"cleanup", "check", "repairing", "publish"}
ApplyOnly ==
  {"execute", "running", "saveStates", "check", "repairing", "publish"} \cup Updating

CommandOK ==
  /\ pc = "idle" => cmd = "none" /\ destroyed = {}
  /\ cmd # "apply" => desired = {}
  /\ cmd = "apply" => desired \in Configs
  /\ pc \in ApplyOnly => cmd = "apply"

\* The loops go through the lists of the diff, the later ones through what
\* the destroy phase has recorded.
PendingOK ==
  /\ destroyed \subseteq ToDestroy
  /\ pc = "destroying" => pending \subseteq ToDestroy \ destroyed
  /\ pc \in Restores \cup Cleanups => pending \subseteq destroyed
  /\ pc \in Updating => pending \subseteq ToUpdate
  /\ pc = "saveStates" => pending \subseteq ToApply
  /\ pc = "repairing" => pending \subseteq bindState \cap binds_unchanged(desired, Old)

ExecutionOK ==
  /\ lost = {} /\ toUndo \subseteq Bind
  /\ pc = "running" => manifest.nodes \cap Bind = ToApply

\* A destroyed bind stays away until it is restored, and its state file
\* stays until the execution has succeeded.
DestroyedOK ==
  /\ pc \in BeforeCleanup \cup Cleanups => \A x \in destroyed : world[x] = "absent"
  /\ pc \in BeforeCleanup \cup Restores => destroyed \subseteq bindState

\* The old bind of an update is gone before its state file is, and the new
\* one has its own from then on.
UpdatedOK ==
  /\ pc \in {"saveUpdated", "removeUpdated"} =>
       pair \in ToUpdate /\ world[pair[1]] = "absent"
  /\ pc \in Updating => \A p \in ToUpdate :
       p \in pending \/ p[2] \in bindState \/ (pc = "saveUpdated" /\ p = pair)
  /\ pc \in {"execute", "running", "saveStates"} \cup Executed =>
       \A p \in ToUpdate : p[2] \in bindState

AppliedOK ==
  /\ pc = "saveStates" => ToApply \subseteq pending \cup bindState
  /\ pc \in Executed => ToApply \subseteq bindState

IInv == /\ TypeOK /\ CommandOK /\ PendingOK /\ ExecutionOK /\ DestroyedOK
        /\ UpdatedOK /\ AppliedOK /\ CurrentCanBeDestroyed

-----------------------------------------------------------------------------

LEMMA Configured ==
  ASSUME TypeOK
  PROVE  /\ Configuration(desired) /\ Configuration(Old)
         /\ Old \subseteq Node
         /\ ToDestroy \subseteq Old \cap Bind
         /\ ToApply \subseteq desired \cap Bind
         /\ ToUpdate \subseteq (Old \cap Bind) \X (desired \cap Bind)
<1>1. Configuration(desired) /\ Configuration(Old)
  BY ApplyFlowAssumption, DiffWithNothing DEF TypeOK, Old, NodesOf, Configuration, UniqueIds
<1>2. QED
  BY <1>1, DiffTypes DEF ToDestroy, ToApply, ToUpdate, Configuration

LEMMA DamageOnly ==
  ASSUME TypeOK, NEW binds, Damage(binds)
  PROVE  /\ world' \in [Bind -> Effect]
         /\ \A x \in Bind : world'[x] = world[x] \/ x \in binds
  BY DEF TypeOK, Damage, Effect

\* A step that leaves the snapshot and the configuration leaves the diff.
LEMMA SameDiff ==
  ASSUME UNCHANGED <<current, desired>>
  PROVE  UNCHANGED <<Old, ToDestroy, ToApply, ToUpdate>>
  BY DEF Old, ToDestroy, ToApply, ToUpdate

USE DEF Updating, Restores, Cleanups, BeforeCleanup, Executed, ApplyOnly

\* What KeptBindsUntouched says of one step.
Kept ==
  \A x \in Old \cap desired \cap Bind :
    cmd = "apply" /\ pc # "repairing" => world'[x] = world[x]

LEMMA ManifestOfTyped ==
  ASSUME NEW nodes \in SUBSET Node
  PROVE  ManifestOf(nodes) \in Manifest /\ ManifestOf(nodes).nodes = nodes
  BY ApplyFlowAssumption DEF ManifestOf, Manifest

\* A step that leaves a kept bind as it is, because it only touches binds the
\* diff names.
LEMMA ChangedOnly ==
  ASSUME IInv
  PROVE  /\ \A x \in Old \cap desired \cap Bind :
              /\ x \notin ToDestroy /\ x \notin ToApply
              /\ \A p \in ToUpdate : p[1] # x /\ p[2] # x
         /\ ToApply \cap Old = {}
         /\ \A p \in ToUpdate : p[2] \notin Old /\ p[1] \notin ToDestroy
  BY Configured, KeptIsUnchanged, ChangesAreApart DEF IInv, ToDestroy, ToApply, ToUpdate

LEMMA SkipDestroyStep ==
  ASSUME IInv, NEW x \in Bind, SkipDestroy(x)
  PROVE  IInv'
<1> USE DEF SkipDestroy, LeftInList, disk, locals, execution, NoFault,
      history
<1>1. UNCHANGED <<Old, ToDestroy, ToApply, ToUpdate>>
  BY SameDiff
<1>2. TypeOK'
  BY DEF IInv, TypeOK
<1>3. CommandOK' /\ PendingOK' /\ ExecutionOK' /\ DestroyedOK' /\ UpdatedOK' /\ AppliedOK'
  BY <1>1 DEF IInv, TypeOK, CommandOK, PendingOK, ExecutionOK, DestroyedOK,
     UpdatedOK, AppliedOK
<1>4. CurrentCanBeDestroyed'
  BY DEF IInv, CurrentCanBeDestroyed
<1>5. QED BY <1>2, <1>3, <1>4 DEF IInv

LEMMA DestroyDoneStep ==
  ASSUME IInv, DestroyPhaseDone
  PROVE  IInv'
<1> USE DEF DestroyPhaseDone, LoadKnown, SameLocals, disk, locals,
      execution, NoFault, history
<1>1. UNCHANGED <<Old, ToDestroy, ToApply, ToUpdate>>
  BY SameDiff
<1>2. cmd # "apply" => ToApply = {} /\ ToUpdate = {}
  BY Configured, DiffWithNothing DEF IInv, CommandOK, ToApply, ToUpdate
<1>3. /\ ToUpdate \subseteq Bind \X Bind
      /\ ToUpdate = binds_to_update(desired, NodesOf(current))
  BY Configured DEF IInv, Old, ToUpdate
<1>4. TypeOK'
  BY <1>3 DEF IInv, TypeOK, PC
<1>5. CommandOK' /\ PendingOK' /\ ExecutionOK' /\ DestroyedOK' /\ UpdatedOK' /\ AppliedOK'
  BY <1>1, <1>2, <1>3 DEF IInv, TypeOK, CommandOK, PendingOK, ExecutionOK,
     DestroyedOK, UpdatedOK, AppliedOK
<1>6. CurrentCanBeDestroyed'
  BY DEF IInv, CurrentCanBeDestroyed
<1>7. QED BY <1>4, <1>5, <1>6 DEF IInv

LEMMA SaveUpdatedStep ==
  ASSUME IInv, SaveUpdatedState
  PROVE  IInv'
<1> USE DEF SaveUpdatedState, Step, disk, locals, execution, NoFault,
      history
<1>1. UNCHANGED <<Old, ToDestroy, ToApply, ToUpdate>>
  BY SameDiff
<1>2. pair \in ToUpdate /\ pair \in Bind \X Bind
  BY Configured DEF IInv, UpdatedOK
<1>3. TypeOK'
  BY <1>2 DEF IInv, TypeOK, PC
<1>4. CommandOK' /\ PendingOK' /\ ExecutionOK' /\ DestroyedOK' /\ UpdatedOK' /\ AppliedOK'
  BY <1>1, <1>2 DEF IInv, TypeOK, CommandOK, PendingOK, ExecutionOK,
     DestroyedOK, UpdatedOK, AppliedOK
<1>5. CurrentCanBeDestroyed'
  BY DEF IInv, CurrentCanBeDestroyed
<1>6. QED BY <1>3, <1>4, <1>5 DEF IInv

LEMMA RemoveOldStep ==
  ASSUME IInv, RemoveOldState
  PROVE  IInv'
<1> USE DEF RemoveOldState, Step, disk, locals, execution, NoFault, history
<1>1. UNCHANGED <<Old, ToDestroy, ToApply, ToUpdate>>
  BY SameDiff
<1>2. pair \in ToUpdate /\ pair \in Bind \X Bind
  BY Configured DEF IInv, UpdatedOK
<1>3. /\ pair[1] \in Old /\ pair[2] \notin Old
      /\ pair[1] \notin ToDestroy
      /\ \A p \in ToUpdate : p[2] # pair[1]
  BY <1>2, Configured, ChangesAreApart, UpdatesAreApart DEF IInv, ToUpdate,
     ToDestroy
<1>4. TypeOK'
  BY <1>2 DEF IInv, TypeOK, PC
<1>5. CommandOK' /\ PendingOK' /\ ExecutionOK' /\ DestroyedOK' /\ UpdatedOK' /\ AppliedOK'
  BY <1>1, <1>2, <1>3 DEF IInv, TypeOK, CommandOK, PendingOK, ExecutionOK,
     DestroyedOK, UpdatedOK, AppliedOK
<1>6. CurrentCanBeDestroyed'
  BY DEF IInv, CurrentCanBeDestroyed, UpdatedOK
<1>7. QED BY <1>4, <1>5, <1>6 DEF IInv

LEMMA UpdateDoneStep ==
  ASSUME IInv, UpdatePhaseDone
  PROVE  IInv'
<1> USE DEF UpdatePhaseDone, Step, disk, locals, execution, NoFault, history
<1>1. UNCHANGED <<Old, ToDestroy, ToApply, ToUpdate>>
  BY SameDiff
<1>2. TypeOK'
  BY DEF IInv, TypeOK, PC
<1>3. CommandOK' /\ PendingOK' /\ ExecutionOK' /\ DestroyedOK' /\ UpdatedOK' /\ AppliedOK'
  BY <1>1 DEF IInv, TypeOK, CommandOK, PendingOK, ExecutionOK, DestroyedOK,
     UpdatedOK, AppliedOK
<1>4. CurrentCanBeDestroyed'
  BY DEF IInv, CurrentCanBeDestroyed
<1>5. QED BY <1>2, <1>3, <1>4 DEF IInv

LEMMA StartStep ==
  ASSUME IInv, StartExecution
  PROVE  IInv'
<1> USE DEF StartExecution, Step, ME!Start, disk, locals, execution,
      NoFault, history
<1>1. UNCHANGED <<Old, ToDestroy, ToApply, ToUpdate>>
  BY SameDiff
<1>2. /\ ExecutionManifest \in Manifest
      /\ ExecutionManifest.nodes \cap Bind = ToApply
  BY Configured, ManifestOfTyped, DagAssumption DEF IInv, ExecutionManifest, ExecutionOf,
     ToApply, Old, Node
<1>3. TypeOK'
  BY <1>2 DEF IInv, TypeOK, PC
<1>4. CommandOK' /\ PendingOK' /\ ExecutionOK' /\ DestroyedOK' /\ UpdatedOK' /\ AppliedOK'
  BY <1>1, <1>2 DEF IInv, TypeOK, CommandOK, PendingOK, ExecutionOK,
     DestroyedOK, UpdatedOK, AppliedOK
<1>5. CurrentCanBeDestroyed'
  BY DEF IInv, CurrentCanBeDestroyed
<1>6. QED BY <1>3, <1>4, <1>5 DEF IInv

LEMMA GiveUpStep ==
  ASSUME IInv, GiveUp
  PROVE  IInv'
<1> USE DEF GiveUp, InExecution, ME!GiveUp, disk, locals, execution,
      NoFault, history
<1>1. UNCHANGED <<Old, ToDestroy, ToApply, ToUpdate>>
  BY SameDiff
<1>2. TypeOK'
  BY DEF IInv, TypeOK
<1>3. CommandOK' /\ PendingOK' /\ ExecutionOK' /\ DestroyedOK' /\ UpdatedOK' /\ AppliedOK'
  BY <1>1 DEF IInv, TypeOK, CommandOK, PendingOK, ExecutionOK, DestroyedOK,
     UpdatedOK, AppliedOK
<1>4. CurrentCanBeDestroyed'
  BY DEF IInv, CurrentCanBeDestroyed
<1>5. QED BY <1>2, <1>3, <1>4 DEF IInv

LEMMA SucceedStep ==
  ASSUME IInv, ExecutionSucceeded
  PROVE  IInv'
<1> USE DEF ExecutionSucceeded, Step, ME!Succeed, disk, locals, execution,
      NoFault, history
<1>1. UNCHANGED <<Old, ToDestroy, ToApply, ToUpdate>>
  BY SameDiff
<1>2. pending' = ToApply
  BY Configured, DagAssumption DEF IInv, TypeOK, ExecutionOK, Node, ME!Over
<1>3. TypeOK'
  BY DEF IInv, TypeOK, PC, Node
<1>4. CommandOK' /\ PendingOK' /\ ExecutionOK' /\ DestroyedOK' /\ UpdatedOK' /\ AppliedOK'
  BY <1>1, <1>2 DEF IInv, TypeOK, CommandOK, PendingOK, ExecutionOK,
     DestroyedOK, UpdatedOK, AppliedOK
<1>5. CurrentCanBeDestroyed'
  BY DEF IInv, CurrentCanBeDestroyed
<1>6. QED BY <1>3, <1>4, <1>5 DEF IInv

LEMMA SaveStateStep ==
  ASSUME IInv, NEW x \in Bind, SaveState(x)
  PROVE  IInv'
<1> USE DEF SaveState, disk, locals, execution, NoFault, history
<1>1. UNCHANGED <<Old, ToDestroy, ToApply, ToUpdate>>
  BY SameDiff
<1>2. TypeOK'
  BY DEF IInv, TypeOK
<1>3. CommandOK' /\ PendingOK' /\ ExecutionOK' /\ DestroyedOK' /\ UpdatedOK' /\ AppliedOK'
  BY <1>1 DEF IInv, TypeOK, CommandOK, PendingOK, ExecutionOK, DestroyedOK,
     UpdatedOK, AppliedOK
<1>4. CurrentCanBeDestroyed'
  BY DEF IInv, CurrentCanBeDestroyed
<1>5. QED BY <1>2, <1>3, <1>4 DEF IInv

LEMMA StatesSavedStep ==
  ASSUME IInv, StatesSaved
  PROVE  IInv'
<1> USE DEF StatesSaved, Step, disk, locals, execution, NoFault, history
<1>1. UNCHANGED <<Old, ToDestroy, ToApply, ToUpdate>>
  BY SameDiff
<1>2. TypeOK'
  BY DEF IInv, TypeOK, PC
<1>3. CommandOK' /\ PendingOK' /\ ExecutionOK' /\ DestroyedOK' /\ UpdatedOK' /\ AppliedOK'
  BY <1>1 DEF IInv, TypeOK, CommandOK, PendingOK, ExecutionOK, DestroyedOK,
     UpdatedOK, AppliedOK
<1>4. CurrentCanBeDestroyed'
  BY DEF IInv, CurrentCanBeDestroyed
<1>5. QED BY <1>2, <1>3, <1>4 DEF IInv

LEMMA RemoveStateStep ==
  ASSUME IInv, NEW x \in Bind, RemoveState(x)
  PROVE  IInv'
<1> USE DEF RemoveState, disk, locals, execution, NoFault, history
<1>1. UNCHANGED <<Old, ToDestroy, ToApply, ToUpdate>>
  BY SameDiff
<1>2. /\ Old \subseteq Node /\ ToDestroy \subseteq Old \cap Bind
      /\ ToApply \subseteq desired \cap Bind
      /\ ToUpdate \subseteq (Old \cap Bind) \X (desired \cap Bind)
  BY Configured DEF IInv
<1>3. ToDestroy \subseteq Old /\ ToApply \cap Old = {} /\ \A p \in ToUpdate : p[2] \notin Old
  BY Configured, ChangesAreApart DEF IInv, ToUpdate, ToApply
<1>4. TypeOK'
  BY DEF IInv, TypeOK
<1>5. CommandOK' /\ PendingOK' /\ ExecutionOK' /\ DestroyedOK' /\ UpdatedOK' /\ AppliedOK'
  BY <1>1, <1>3 DEF IInv, TypeOK, CommandOK, PendingOK, ExecutionOK,
     DestroyedOK, UpdatedOK, AppliedOK
<1>6. CurrentCanBeDestroyed'
  BY DEF IInv, CurrentCanBeDestroyed, PendingOK, DestroyedOK
<1>7. QED BY <1>4, <1>5, <1>6 DEF IInv

LEMMA CleanupDoneStep ==
  ASSUME IInv, CleanupDone
  PROVE  IInv'
<1> USE DEF CleanupDone, Step, disk, locals, execution, NoFault, history
<1>1. UNCHANGED <<Old, ToDestroy, ToApply, ToUpdate>>
  BY SameDiff
<1>2. TypeOK'
  BY DEF IInv, TypeOK, PC
<1>3. CommandOK' /\ PendingOK' /\ ExecutionOK' /\ DestroyedOK' /\ UpdatedOK' /\ AppliedOK'
  BY <1>1 DEF IInv, TypeOK, CommandOK, PendingOK, ExecutionOK, DestroyedOK,
     UpdatedOK, AppliedOK
<1>4. CurrentCanBeDestroyed'
  BY DEF IInv, CurrentCanBeDestroyed
<1>5. QED BY <1>2, <1>3, <1>4 DEF IInv

LEMMA CheckStep ==
  ASSUME IInv, Check
  PROVE  IInv'
<1> USE DEF Check, disk, locals, execution, NoFault, history
<1>1. UNCHANGED <<Old, ToDestroy, ToApply, ToUpdate>>
  BY SameDiff
<1>2. Drifted \subseteq bindState \cap binds_unchanged(desired, Old)
  BY DEF Drifted, Old
<1>3. TypeOK'
  BY <1>2 DEF IInv, TypeOK, PC
<1>4. CommandOK' /\ PendingOK' /\ ExecutionOK' /\ DestroyedOK' /\ UpdatedOK' /\ AppliedOK'
  BY <1>1, <1>2 DEF IInv, TypeOK, CommandOK, PendingOK, ExecutionOK,
     DestroyedOK, UpdatedOK, AppliedOK
<1>5. CurrentCanBeDestroyed'
  BY DEF IInv, CurrentCanBeDestroyed
<1>6. QED BY <1>3, <1>4, <1>5 DEF IInv

LEMMA RepairDoneStep ==
  ASSUME IInv, RepairDone
  PROVE  IInv'
<1> USE DEF RepairDone, Step, disk, locals, execution, NoFault, history
<1>1. UNCHANGED <<Old, ToDestroy, ToApply, ToUpdate>>
  BY SameDiff
<1>2. TypeOK'
  BY DEF IInv, TypeOK, PC
<1>3. CommandOK' /\ PendingOK' /\ ExecutionOK' /\ DestroyedOK' /\ UpdatedOK' /\ AppliedOK'
  BY <1>1 DEF IInv, TypeOK, CommandOK, PendingOK, ExecutionOK, DestroyedOK,
     UpdatedOK, AppliedOK
<1>4. CurrentCanBeDestroyed'
  BY DEF IInv, CurrentCanBeDestroyed
<1>5. QED BY <1>2, <1>3, <1>4 DEF IInv

LEMMA DestroyBindStep ==
  ASSUME IInv, NEW x \in Bind, DestroyBind(x)
  PROVE  IInv' /\ Kept
<1> USE DEF DestroyBind, disk, locals, execution, NoFault, history
<1>1. UNCHANGED <<Old, ToDestroy, ToApply, ToUpdate>>
  BY SameDiff
<1>2. /\ Old \subseteq Node /\ ToDestroy \subseteq Old \cap Bind
      /\ ToApply \subseteq desired \cap Bind
      /\ ToUpdate \subseteq (Old \cap Bind) \X (desired \cap Bind)
  BY Configured DEF IInv
<1>3. /\ \A y \in Old \cap desired \cap Bind :
           /\ y \notin ToDestroy /\ y \notin ToApply
           /\ \A p \in ToUpdate : p[1] # y /\ p[2] # y
      /\ ToApply \cap Old = {}
      /\ \A p \in ToUpdate : p[2] \notin Old /\ p[1] \notin ToDestroy
  BY ChangedOnly
<1>4. TypeOK'
  BY DEF IInv, TypeOK, Effect
<1>5. CommandOK' /\ PendingOK' /\ ExecutionOK' /\ DestroyedOK' /\ UpdatedOK' /\ AppliedOK'
  BY <1>1, <1>2 DEF IInv, TypeOK, CommandOK, PendingOK, ExecutionOK,
     DestroyedOK, UpdatedOK, AppliedOK
<1>6. CurrentCanBeDestroyed'
  BY DEF IInv, CurrentCanBeDestroyed
<1>7. Kept
  BY <1>3, <1>2 DEF IInv, Kept, CommandOK, PendingOK
<1>8. QED BY <1>4, <1>5, <1>6, <1>7 DEF IInv

LEMMA RestoreBindStep ==
  ASSUME IInv, NEW x \in Bind, RestoreBind(x)
  PROVE  IInv' /\ Kept
<1> USE DEF RestoreBind, Restoring, WaveToRestore, disk, locals, execution,
      NoFault, history
<1>1. UNCHANGED <<Old, ToDestroy, ToApply, ToUpdate>>
  BY SameDiff
<1>2. /\ Old \subseteq Node /\ ToDestroy \subseteq Old \cap Bind
      /\ ToApply \subseteq desired \cap Bind
      /\ ToUpdate \subseteq (Old \cap Bind) \X (desired \cap Bind)
  BY Configured DEF IInv
<1>3. /\ \A y \in Old \cap desired \cap Bind :
           /\ y \notin ToDestroy /\ y \notin ToApply
           /\ \A p \in ToUpdate : p[1] # y /\ p[2] # y
      /\ ToApply \cap Old = {}
      /\ \A p \in ToUpdate : p[2] \notin Old /\ p[1] \notin ToDestroy
  BY ChangedOnly
<1>4. TypeOK'
  BY DEF IInv, TypeOK, Effect
<1>5. CommandOK' /\ PendingOK' /\ ExecutionOK' /\ DestroyedOK' /\ UpdatedOK' /\ AppliedOK'
  BY <1>1, <1>2 DEF IInv, TypeOK, CommandOK, PendingOK, ExecutionOK,
     DestroyedOK, UpdatedOK, AppliedOK
<1>6. CurrentCanBeDestroyed'
  BY DEF IInv, CurrentCanBeDestroyed
<1>7. Kept
  BY <1>3, <1>2 DEF IInv, Kept, CommandOK, PendingOK
<1>8. QED BY <1>4, <1>5, <1>6, <1>7 DEF IInv

LEMMA UpdateBindStep ==
  ASSUME IInv, NEW a \in Bind, NEW b \in Bind, UpdateBind(a, b)
  PROVE  IInv' /\ Kept
<1> USE DEF UpdateBind, Step, disk, locals, execution, NoFault, history
<1>1. UNCHANGED <<Old, ToDestroy, ToApply, ToUpdate>>
  BY SameDiff
<1>2. /\ Old \subseteq Node /\ ToDestroy \subseteq Old \cap Bind
      /\ ToApply \subseteq desired \cap Bind
      /\ ToUpdate \subseteq (Old \cap Bind) \X (desired \cap Bind)
  BY Configured DEF IInv
<1>3. /\ \A y \in Old \cap desired \cap Bind :
           /\ y \notin ToDestroy /\ y \notin ToApply
           /\ \A p \in ToUpdate : p[1] # y /\ p[2] # y
      /\ ToApply \cap Old = {}
      /\ \A p \in ToUpdate : p[2] \notin Old /\ p[1] \notin ToDestroy
  BY ChangedOnly
<1>4. <<a, b>> \in ToUpdate /\ b \notin Old /\ a \notin ToDestroy /\ a # b
  BY <1>3, <1>2, UpdatesAreApart DEF IInv, PendingOK
<1>5. /\ world' \in [Bind -> Effect] /\ world'[a] = "absent"
      /\ \A y \in Bind \ {a, b} : world'[y] = world[y]
  BY <1>4 DEF IInv, TypeOK, Effect
<1>6. TypeOK'
  BY <1>4, <1>5 DEF IInv, TypeOK, PC
<1>7. CommandOK' /\ PendingOK' /\ ExecutionOK' /\ DestroyedOK' /\ UpdatedOK' /\ AppliedOK'
  BY <1>1, <1>4, <1>2, <1>5 DEF IInv, TypeOK, CommandOK, PendingOK,
     ExecutionOK, DestroyedOK, UpdatedOK, AppliedOK
<1>8. CurrentCanBeDestroyed'
  BY <1>4, <1>5 DEF IInv, CurrentCanBeDestroyed, Old
<1>9. Kept
  BY <1>3, <1>4, <1>5 DEF IInv, Kept, CommandOK, PendingOK
<1>10. QED BY <1>6, <1>7, <1>8, <1>9 DEF IInv

LEMMA CompleteStep ==
  ASSUME IInv, NEW n, CompleteNode(n)
  PROVE  IInv' /\ Kept
<1> USE DEF CompleteNode, InExecution, ME!Complete, ME!MayEnd, disk, locals,
      execution, NoFault, history
<1>1. UNCHANGED <<Old, ToDestroy, ToApply, ToUpdate>>
  BY SameDiff
<1>2. /\ Old \subseteq Node /\ ToDestroy \subseteq Old \cap Bind
      /\ ToApply \subseteq desired \cap Bind
      /\ ToUpdate \subseteq (Old \cap Bind) \X (desired \cap Bind)
  BY Configured DEF IInv
<1>3. /\ \A y \in Old \cap desired \cap Bind :
           /\ y \notin ToDestroy /\ y \notin ToApply
           /\ \A p \in ToUpdate : p[1] # y /\ p[2] # y
      /\ ToApply \cap Old = {}
      /\ \A p \in ToUpdate : p[2] \notin Old /\ p[1] \notin ToDestroy
  BY ChangedOnly
<1>4. n \in Node /\ (n \notin Build => n \in ToApply /\ n \in Bind)
  BY DEF IInv, TypeOK, ExecutionOK, Manifest, Node
<1>5. /\ world' \in [Bind -> Effect]
      /\ \A y \in Bind : world'[y] = world[y] \/ (y = n /\ n \notin Build)
  BY DEF IInv, TypeOK, Effect
<1>6. TypeOK'
  BY <1>4, <1>5 DEF IInv, TypeOK, Manifest
<1>7. CommandOK' /\ PendingOK' /\ ExecutionOK' /\ DestroyedOK' /\ UpdatedOK' /\ AppliedOK'
  BY <1>1, <1>3, <1>2, <1>4, <1>5 DEF IInv, TypeOK, CommandOK, PendingOK,
     ExecutionOK, DestroyedOK, UpdatedOK, AppliedOK
<1>8. CurrentCanBeDestroyed'
  BY <1>4, <1>3, <1>5 DEF IInv, CurrentCanBeDestroyed, Old
<1>9. Kept
  BY <1>3, <1>4, <1>5 DEF IInv, Kept, CommandOK
<1>10. QED BY <1>6, <1>7, <1>8, <1>9 DEF IInv

LEMMA UnresolvedStep ==
  ASSUME IInv, NEW n, NodeUnresolved(n)
  PROVE  IInv' /\ Kept
<1> USE DEF NodeUnresolved, LeftPartial, InExecution, ME!Break, ME!MayEnd,
      disk, locals, execution, NoFault, history
<1>1. UNCHANGED <<Old, ToDestroy, ToApply, ToUpdate>>
  BY SameDiff
<1>2. /\ Old \subseteq Node /\ ToDestroy \subseteq Old \cap Bind
      /\ ToApply \subseteq desired \cap Bind
      /\ ToUpdate \subseteq (Old \cap Bind) \X (desired \cap Bind)
  BY Configured DEF IInv
<1>3. /\ \A y \in Old \cap desired \cap Bind :
           /\ y \notin ToDestroy /\ y \notin ToApply
           /\ \A p \in ToUpdate : p[1] # y /\ p[2] # y
      /\ ToApply \cap Old = {}
      /\ \A p \in ToUpdate : p[2] \notin Old /\ p[1] \notin ToDestroy
  BY ChangedOnly
<1>4. n \in Node /\ (n \notin Build => n \in ToApply /\ n \in Bind)
  BY DEF IInv, TypeOK, ExecutionOK, Manifest, Node
<1>5. /\ world' \in [Bind -> Effect]
      /\ \A y \in Bind : world'[y] = world[y] \/ (y = n /\ n \notin Build)
  BY DamageOnly, DagAssumption DEF IInv, TypeOK
<1>6. TypeOK'
  BY <1>4, <1>5, ApplyFlowAssumption DEF IInv, TypeOK, Manifest
<1>7. CommandOK' /\ PendingOK' /\ ExecutionOK' /\ DestroyedOK' /\ UpdatedOK' /\ AppliedOK'
  BY <1>1, <1>3, <1>4, <1>2, <1>5 DEF IInv, TypeOK, CommandOK, PendingOK,
     ExecutionOK, DestroyedOK, UpdatedOK, AppliedOK
<1>8. CurrentCanBeDestroyed'
  BY <1>4, <1>3, <1>5 DEF IInv, CurrentCanBeDestroyed, Old
<1>9. Kept
  BY <1>3, <1>4, <1>5 DEF IInv, Kept, CommandOK
<1>10. QED BY <1>6, <1>7, <1>8, <1>9 DEF IInv

LEMMA HitUnresolvedStep ==
  ASSUME IInv, NEW n, HitUnresolved(n)
  PROVE  IInv' /\ UNCHANGED world
<1> USE DEF HitUnresolved, InExecution, ME!Break, ME!MayEnd, disk, locals,
      NoFault, history
<1>1. UNCHANGED <<Old, ToDestroy, ToApply, ToUpdate>>
  BY SameDiff
<1>2. TypeOK'
  BY DEF IInv, TypeOK
<1>3. CommandOK' /\ PendingOK' /\ ExecutionOK' /\ DestroyedOK' /\ UpdatedOK' /\ AppliedOK'
  BY <1>1 DEF IInv, TypeOK, CommandOK, PendingOK, ExecutionOK, DestroyedOK,
     UpdatedOK, AppliedOK
<1>4. CurrentCanBeDestroyed'
  BY DEF IInv, CurrentCanBeDestroyed
<1>5. QED BY <1>2, <1>3, <1>4 DEF IInv

LEMMA BreakBuildStep ==
  ASSUME IInv, NEW n, BreakBuild(n)
  PROVE  IInv' /\ Kept
<1> USE DEF BreakBuild, LeftPartial, Fault, InExecution, ME!Break,
      ME!MayEnd, disk, locals, execution, NoFault, history
<1>1. UNCHANGED <<Old, ToDestroy, ToApply, ToUpdate>>
  BY SameDiff
<1>2. /\ Old \subseteq Node /\ ToDestroy \subseteq Old \cap Bind
      /\ ToApply \subseteq desired \cap Bind
      /\ ToUpdate \subseteq (Old \cap Bind) \X (desired \cap Bind)
  BY Configured DEF IInv
<1>3. /\ \A y \in Old \cap desired \cap Bind :
           /\ y \notin ToDestroy /\ y \notin ToApply
           /\ \A p \in ToUpdate : p[1] # y /\ p[2] # y
      /\ ToApply \cap Old = {}
      /\ \A p \in ToUpdate : p[2] \notin Old /\ p[1] \notin ToDestroy
  BY ChangedOnly
<1>4. n \in Node /\ (n \notin Build => n \in ToApply /\ n \in Bind)
  BY DEF IInv, TypeOK, ExecutionOK, Manifest, Node
<1>5. /\ world' \in [Bind -> Effect]
      /\ \A y \in Bind : world'[y] = world[y] \/ (y = n /\ n \notin Build)
  BY DamageOnly, DagAssumption DEF IInv, TypeOK
<1>6. TypeOK'
  BY <1>4, <1>5, ApplyFlowAssumption DEF IInv, TypeOK, Manifest
<1>7. CommandOK' /\ PendingOK' /\ ExecutionOK' /\ DestroyedOK' /\ UpdatedOK' /\ AppliedOK'
  BY <1>1, <1>3, <1>4, <1>2, <1>5 DEF IInv, TypeOK, CommandOK, PendingOK,
     ExecutionOK, DestroyedOK, UpdatedOK, AppliedOK
<1>8. CurrentCanBeDestroyed'
  BY <1>4, <1>3, <1>5 DEF IInv, CurrentCanBeDestroyed, Old
<1>9. Kept
  BY <1>3, <1>4, <1>5 DEF IInv, Kept, CommandOK
<1>10. QED BY <1>6, <1>7, <1>8, <1>9 DEF IInv

LEMMA BreakBindStep ==
  ASSUME IInv, NEW n, BreakBind(n)
  PROVE  IInv' /\ Kept
<1> USE DEF BreakBind, Fault, InExecution, ME!Break, ME!MayEnd, disk,
      locals, execution, NoFault, history
<1>1. UNCHANGED <<Old, ToDestroy, ToApply, ToUpdate>>
  BY SameDiff
<1>2. /\ Old \subseteq Node /\ ToDestroy \subseteq Old \cap Bind
      /\ ToApply \subseteq desired \cap Bind
      /\ ToUpdate \subseteq (Old \cap Bind) \X (desired \cap Bind)
  BY Configured DEF IInv
<1>3. /\ \A y \in Old \cap desired \cap Bind :
           /\ y \notin ToDestroy /\ y \notin ToApply
           /\ \A p \in ToUpdate : p[1] # y /\ p[2] # y
      /\ ToApply \cap Old = {}
      /\ \A p \in ToUpdate : p[2] \notin Old /\ p[1] \notin ToDestroy
  BY ChangedOnly
<1>4. n \in Node /\ (n \notin Build => n \in ToApply /\ n \in Bind)
  BY DEF IInv, TypeOK, ExecutionOK, Manifest, Node
<1>5. /\ world' \in [Bind -> Effect]
      /\ \A y \in Bind : world'[y] = world[y] \/ (y = n /\ n \notin Build)
  BY DamageOnly, DagAssumption DEF IInv, TypeOK
<1>6. TypeOK'
  BY <1>4, <1>5, ApplyFlowAssumption DEF IInv, TypeOK, Manifest
<1>7. CommandOK' /\ PendingOK' /\ ExecutionOK' /\ DestroyedOK' /\ UpdatedOK' /\ AppliedOK'
  BY <1>1, <1>3, <1>4, <1>2, <1>5 DEF IInv, TypeOK, CommandOK, PendingOK,
     ExecutionOK, DestroyedOK, UpdatedOK, AppliedOK
<1>8. CurrentCanBeDestroyed'
  BY <1>4, <1>3, <1>5 DEF IInv, CurrentCanBeDestroyed, Old
<1>9. Kept
  BY <1>3, <1>4, <1>5 DEF IInv, Kept, CommandOK
<1>10. QED BY <1>6, <1>7, <1>8, <1>9 DEF IInv

LEMMA UndoStep ==
  ASSUME IInv, NEW n \in Bind, UndoBind(n)
  PROVE  IInv' /\ Kept
<1> USE DEF UndoBind, InExecution, ME!Undo, disk, locals, execution,
      NoFault, history
<1>1. UNCHANGED <<Old, ToDestroy, ToApply, ToUpdate>>
  BY SameDiff
<1>2. /\ Old \subseteq Node /\ ToDestroy \subseteq Old \cap Bind
      /\ ToApply \subseteq desired \cap Bind
      /\ ToUpdate \subseteq (Old \cap Bind) \X (desired \cap Bind)
  BY Configured DEF IInv
<1>3. /\ \A y \in Old \cap desired \cap Bind :
           /\ y \notin ToDestroy /\ y \notin ToApply
           /\ \A p \in ToUpdate : p[1] # y /\ p[2] # y
      /\ ToApply \cap Old = {}
      /\ \A p \in ToUpdate : p[2] \notin Old /\ p[1] \notin ToDestroy
  BY ChangedOnly
<1>4. n \in ToApply
  BY <1>2 DEF IInv, TypeOK, ExecutionOK, Manifest, Node
<1>5. TypeOK'
  BY DEF IInv, TypeOK, Effect, Manifest
<1>6. CommandOK' /\ PendingOK' /\ ExecutionOK' /\ DestroyedOK' /\ UpdatedOK' /\ AppliedOK'
  BY <1>1, <1>3, <1>4 DEF IInv, TypeOK, CommandOK, PendingOK, ExecutionOK,
     DestroyedOK, UpdatedOK, AppliedOK
<1>7. CurrentCanBeDestroyed'
  BY <1>4, <1>3 DEF IInv, CurrentCanBeDestroyed, Old
<1>8. Kept
  BY <1>3, <1>4 DEF IInv, Kept, CommandOK
<1>9. QED BY <1>5, <1>6, <1>7, <1>8 DEF IInv

LEMMA UndoFailsStep ==
  ASSUME IInv, NEW n \in Bind, UndoFails(n) \/ UndoUnresolved(n)
  PROVE  IInv' /\ Kept
<1> USE DEF UndoFails, UndoUnresolved, Fault, InExecution, ME!Undo, disk, locals,
      execution, NoFault, history
<1>1. UNCHANGED <<Old, ToDestroy, ToApply, ToUpdate>>
  BY SameDiff
<1>2. /\ Old \subseteq Node /\ ToDestroy \subseteq Old \cap Bind
      /\ ToApply \subseteq desired \cap Bind
      /\ ToUpdate \subseteq (Old \cap Bind) \X (desired \cap Bind)
  BY Configured DEF IInv
<1>3. /\ \A y \in Old \cap desired \cap Bind :
           /\ y \notin ToDestroy /\ y \notin ToApply
           /\ \A p \in ToUpdate : p[1] # y /\ p[2] # y
      /\ ToApply \cap Old = {}
      /\ \A p \in ToUpdate : p[2] \notin Old /\ p[1] \notin ToDestroy
  BY ChangedOnly
<1>4. n \in ToApply
  BY <1>2 DEF IInv, TypeOK, ExecutionOK, Manifest, Node
<1>5. /\ world' \in [Bind -> Effect]
      /\ \A y \in Bind : world'[y] = world[y] \/ y = n
  BY DamageOnly DEF IInv
<1>6. TypeOK'
  BY <1>5, ApplyFlowAssumption DEF IInv, TypeOK, Manifest
<1>7. CommandOK' /\ PendingOK' /\ ExecutionOK' /\ DestroyedOK' /\ UpdatedOK' /\ AppliedOK'
  BY <1>1, <1>3, <1>2, <1>4, <1>5 DEF IInv, TypeOK, CommandOK, PendingOK,
     ExecutionOK, DestroyedOK, UpdatedOK, AppliedOK
<1>8. CurrentCanBeDestroyed'
  BY <1>4, <1>3, <1>5 DEF IInv, CurrentCanBeDestroyed, Old
<1>9. Kept
  BY <1>3, <1>4, <1>5 DEF IInv, Kept, CommandOK
<1>10. QED BY <1>6, <1>7, <1>8, <1>9 DEF IInv

LEMMA RepairBindStep ==
  ASSUME IInv, NEW x \in Bind, RepairBind(x)
  PROVE  IInv' /\ Kept
<1> USE DEF RepairBind, disk, locals, execution, NoFault, history
<1>1. UNCHANGED <<Old, ToDestroy, ToApply, ToUpdate>>
  BY SameDiff
<1>2. /\ Old \subseteq Node /\ ToDestroy \subseteq Old \cap Bind
      /\ ToApply \subseteq desired \cap Bind
      /\ ToUpdate \subseteq (Old \cap Bind) \X (desired \cap Bind)
  BY Configured DEF IInv
<1>3. TypeOK'
  BY DEF IInv, TypeOK, Effect
<1>4. CommandOK' /\ PendingOK' /\ ExecutionOK' /\ DestroyedOK' /\ UpdatedOK' /\ AppliedOK'
  BY <1>1, <1>2 DEF IInv, TypeOK, CommandOK, PendingOK, ExecutionOK,
     DestroyedOK, UpdatedOK, AppliedOK
<1>5. CurrentCanBeDestroyed'
  BY DEF IInv, CurrentCanBeDestroyed
<1>6. Kept
  BY DEF IInv, Kept, CommandOK
<1>7. QED BY <1>3, <1>4, <1>5, <1>6 DEF IInv

LEMMA DriftStep ==
  ASSUME IInv, NEW x \in Bind, Drift(x)
  PROVE  IInv' /\ Kept
<1> USE DEF Drift, InPlace, disk, locals, execution, NoFault, history
<1>1. UNCHANGED <<Old, ToDestroy, ToApply, ToUpdate>>
  BY SameDiff
<1>2. /\ Old \subseteq Node /\ ToDestroy \subseteq Old \cap Bind
      /\ ToApply \subseteq desired \cap Bind
      /\ ToUpdate \subseteq (Old \cap Bind) \X (desired \cap Bind)
  BY Configured DEF IInv
<1>3. TypeOK'
  BY DEF IInv, TypeOK, Effect
<1>4. CommandOK' /\ PendingOK' /\ ExecutionOK' /\ DestroyedOK' /\ UpdatedOK' /\ AppliedOK'
  BY <1>1 DEF IInv, TypeOK, CommandOK, PendingOK, ExecutionOK, DestroyedOK,
     UpdatedOK, AppliedOK
<1>5. CurrentCanBeDestroyed'
  BY DEF IInv, CurrentCanBeDestroyed
<1>6. Kept
  BY DEF IInv, Kept, CommandOK
<1>7. QED BY <1>3, <1>4, <1>5, <1>6 DEF IInv

LEMMA ApplyStep ==
  ASSUME IInv, NEW c \in Configs, NEW r \in BOOLEAN, Apply(c, r)
  PROVE  IInv'
<1> USE DEF Apply, disk, execution
<1>1. /\ desired' = c /\ current' = current
      /\ Old' = Old /\ NodesOf(current) = Old /\ Configuration(c) /\ Configuration(Old)
  BY Configured, ApplyFlowAssumption DEF IInv, Configuration, Old
<1>2. /\ pc' = "check" =>
           /\ pending' = {} /\ binds_to_apply(c, Old) = {} /\ binds_to_update(c, Old) = {}
      /\ pc' = "destroying" => pending' = binds_to_destroy(c, Old)
      /\ pc' \in {"check", "destroying"} /\ pending' \subseteq Bind
  BY <1>1, DiffTypes DEF DiffIsEmpty
<1>3. /\ ToDestroy' = binds_to_destroy(c, Old) /\ ToApply' = binds_to_apply(c, Old)
      /\ ToUpdate' = binds_to_update(c, Old)
  BY <1>1 DEF ToDestroy, ToApply, ToUpdate
<1>4. TypeOK'
  BY <1>2, ApplyFlowAssumption DEF IInv, TypeOK, PC
<1>5. CommandOK' /\ PendingOK' /\ ExecutionOK' /\ DestroyedOK' /\ UpdatedOK' /\ AppliedOK'
  BY <1>1, <1>2, <1>3 DEF IInv, TypeOK, CommandOK, PendingOK, ExecutionOK,
     DestroyedOK, UpdatedOK, AppliedOK
<1>6. CurrentCanBeDestroyed'
  BY DEF IInv, CurrentCanBeDestroyed
<1>7. QED BY <1>4, <1>5, <1>6 DEF IInv

LEMMA DestroyStep ==
  ASSUME IInv, Destroy
  PROVE  IInv'
<1> USE DEF Destroy, disk, execution
<1>1. UNCHANGED <<Old, ToDestroy, ToApply, ToUpdate>>
  BY SameDiff
<1>2. /\ current = Old /\ Old \cap Bind = binds_to_destroy({}, Old)
      /\ desired = {} /\ destroyed = {} /\ binds_to_destroy({}, Old) = ToDestroy
  BY Configured, DiffWithNothing DEF IInv, CommandOK, Old, NodesOf, ToDestroy
<1>3. TypeOK'
  <2>1. pc' \in PC /\ pending' \subseteq Bind
    BY DEF PC
  <2>2. QED BY <2>1, ApplyFlowAssumption DEF IInv, TypeOK
<1>4. CommandOK' /\ PendingOK' /\ ExecutionOK' /\ DestroyedOK' /\ UpdatedOK' /\ AppliedOK'
  BY <1>1, <1>2 DEF IInv, TypeOK, CommandOK, PendingOK, ExecutionOK,
     DestroyedOK, UpdatedOK, AppliedOK
<1>5. CurrentCanBeDestroyed'
  BY DEF IInv, CurrentCanBeDestroyed
<1>6. QED BY <1>3, <1>4, <1>5 DEF IInv

-----------------------------------------------------------------------------
(* The steps that may end the command.                                     *)

\* What a command leaves when it returns: nothing of the invariant but what
\* the disk and the world must satisfy.
LEMMA Returned ==
  ASSUME NEW result \in {"ok", "error"}, Return(result), IInv,
         faults' \in 0 .. MaxFaults,
         current' \in Configs \cup {NoConfig}, bindState' \subseteq Bind,
         store' \in [Build -> {"absent", "partial", "complete"}],
         world' \in [Bind -> Effect], CurrentCanBeDestroyed'
  PROVE  IInv'
<1> USE DEF Return, ResetLocals, DiscardExecution
<1>1. manifest' \in Manifest /\ manifest'.nodes = {}
  BY ManifestOfTyped DEF NoManifest
<1>2. TypeOK'
  BY <1>1 DEF IInv, TypeOK, PC, InPlace
<1>3. CommandOK' /\ PendingOK' /\ ExecutionOK' /\ DestroyedOK' /\ UpdatedOK' /\ AppliedOK'
  BY <1>1 DEF CommandOK, PendingOK, ExecutionOK, DestroyedOK, UpdatedOK, AppliedOK
<1>4. QED BY <1>2, <1>3 DEF IInv

\* The same for a command that leaves the files alone and damages nothing of
\* the current snapshot that could not be destroyed any more.
LEMMA ReturnedUnsaved ==
  ASSUME NEW result \in {"ok", "error"}, Return(result), IInv,
         \/ UNCHANGED faults
         \/ faults < MaxFaults /\ faults' = faults + 1,
         UNCHANGED <<current, bindState>>,
         store' \in [Build -> {"absent", "partial", "complete"}],
         world' \in [Bind -> Effect],
         \A x \in Old \cap Bind : world'[x] = world[x] \/ x \in bindState
  PROVE  IInv'
<1>1. faults' \in 0 .. MaxFaults
  BY ApplyFlowAssumption DEF IInv, TypeOK
<1>2. CurrentCanBeDestroyed'
  BY DEF IInv, CurrentCanBeDestroyed, Old
<1>3. current' \in Configs \cup {NoConfig} /\ bindState' \subseteq Bind
  BY DEF IInv, TypeOK
<1>4. QED BY <1>1, <1>2, <1>3, Returned

LEMMA DestroyFailsStep ==
  ASSUME IInv, NEW x \in Bind, DestroyFails(x) \/ DestroyUnresolved(x)
  PROVE  IInv' /\ Kept
<1> USE DEF DestroyFails, DestroyUnresolved, LeaveDestroy, disk
<1>1. /\ world' \in [Bind -> Effect]
      /\ \A y \in Bind : world'[y] = world[y] \/ y = x
  BY DamageOnly DEF IInv
<1>2. Kept
  BY <1>1, ChangedOnly DEF IInv, PendingOK, Kept
<1>3. CASE destroyed = {}
  <2>1. /\ Return("error")
        /\ UNCHANGED faults \/ (faults < MaxFaults /\ faults' = faults + 1)
    BY <1>3 DEF ReturnWith
  <2>2. QED BY <1>1, <1>2, <2>1, ReturnedUnsaved DEF IInv, TypeOK
<1>4. CASE destroyed # {}
  <2> USE DEF Fault, NoFault, history, StartRestore, LoadKnown, SameLocals, ToCleanUp,
        locals, execution
  <2>1. UNCHANGED <<Old, ToDestroy, ToApply, ToUpdate>>
    BY <1>4, SameDiff
  <2>2. TypeOK'
    BY <1>1, <1>4, ApplyFlowAssumption DEF IInv, TypeOK, PC
  <2>3. CommandOK' /\ PendingOK' /\ ExecutionOK' /\ DestroyedOK' /\ UpdatedOK' /\ AppliedOK'
    BY <1>1, <1>4, <2>1, Configured DEF IInv, CommandOK, PendingOK, ExecutionOK,
       DestroyedOK, UpdatedOK, AppliedOK
  <2>4. CurrentCanBeDestroyed'
    BY <1>1, <1>4 DEF IInv, CurrentCanBeDestroyed
  <2>5. QED BY <1>2, <2>2, <2>3, <2>4 DEF IInv
<1>5. QED BY <1>3, <1>4

LEMMA RestoreEndsStep ==
  ASSUME IInv, RestoreFails \/ RestoreUnresolved
  PROVE  IInv' /\ Kept
<1> USE DEF RestoreFails, RestoreUnresolved, disk
<1>1. /\ world' \in [Bind -> Effect]
      /\ \A y \in Bind : world'[y] = world[y] \/ y \in pending
      /\ UNCHANGED <<current, bindState, store>> /\ Restoring
  BY DamageOnly DEF IInv, WaveToRestore
<1>2. pending \subseteq ToDestroy /\ pending \subseteq bindState
  BY <1>1 DEF IInv, Restoring, PendingOK, DestroyedOK
<1>3. Kept
  BY <1>1, <1>2, ChangedOnly DEF Kept
<1>4. CASE pc = "restoreAndFail"
  <2>1. /\ Return("error")
        /\ UNCHANGED faults \/ (faults < MaxFaults /\ faults' = faults + 1)
    BY <1>4 DEF LeaveRestore, ReturnWith
  <2>2. QED BY <1>1, <1>2, <1>3, <2>1, ReturnedUnsaved DEF IInv, TypeOK
<1>5. CASE pc = "restoreAndReset"
  <2>1. /\ pc' = "clearCurrent"
        /\ UNCHANGED <<pending, pair, locals, execution, outcome, settled>>
        /\ UNCHANGED faults \/ (faults < MaxFaults /\ faults' = faults + 1)
    BY <1>5 DEF LeaveRestore, Fault, NoFault, history
  <2> USE DEF locals, execution
  <2>2. UNCHANGED <<Old, ToDestroy, ToApply, ToUpdate>>
    BY <1>1, <2>1, SameDiff
  <2>3. TypeOK'
    BY <1>1, <2>1, ApplyFlowAssumption DEF IInv, TypeOK, PC
  <2>4. CommandOK' /\ PendingOK' /\ ExecutionOK' /\ DestroyedOK' /\ UpdatedOK' /\ AppliedOK'
    BY <1>1, <2>1, <2>2 DEF IInv, CommandOK, PendingOK, ExecutionOK,
       DestroyedOK, UpdatedOK, AppliedOK
  <2>5. CurrentCanBeDestroyed'
    BY <1>1, <1>2, <2>1 DEF IInv, CurrentCanBeDestroyed
  <2>6. QED BY <1>3, <2>3, <2>4, <2>5 DEF IInv
<1>6. QED BY <1>1, <1>4, <1>5 DEF Restoring

LEMMA FailedUpdateStep ==
  ASSUME IInv, NEW a \in Bind, NEW b \in Bind, UpdateFails(a, b) \/ CannotUpdate(a, b)
  PROVE  IInv' /\ Kept
<1> USE DEF UpdateFails, CannotUpdate, disk
<1>1. /\ world' \in [Bind -> Effect]
      /\ \A y \in Bind : world'[y] = world[y] \/ (a \in bindState /\ y \in {a, b})
      /\ <<a, b>> \in pending /\ pc = "update"
      /\ UNCHANGED <<current, bindState, store>>
  BY DamageOnly DEF IInv, TypeOK
<1>2. <<a, b>> \in ToUpdate
  BY <1>1 DEF IInv, PendingOK
<1>3. Kept /\ b \notin Old
  BY <1>1, <1>2, ChangedOnly DEF Kept
<1>4. /\ Return("error")
      /\ UNCHANGED faults \/ (faults < MaxFaults /\ faults' = faults + 1)
  BY DEF ReturnWith
<1>5. QED BY <1>1, <1>3, <1>4, ReturnedUnsaved DEF IInv, TypeOK

LEMMA FailedRepairStep ==
  ASSUME IInv, RepairFails \/ RepairUnresolved
  PROVE  IInv' /\ Kept
<1> USE DEF RepairFails, RepairUnresolved, disk
<1>1. /\ world' \in [Bind -> Effect]
      /\ \A y \in Bind : world'[y] = world[y] \/ y \in pending
      /\ pc = "repairing" /\ UNCHANGED <<current, bindState, store>>
  BY DamageOnly DEF IInv, TypeOK
<1>2. pending \subseteq bindState
  BY <1>1 DEF IInv, PendingOK
<1>3. /\ Return("error")
      /\ UNCHANGED faults \/ (faults < MaxFaults /\ faults' = faults + 1)
  BY DEF ReturnWith
<1>4. Kept
  BY <1>1 DEF Kept
<1>5. QED BY <1>1, <1>2, <1>3, <1>4, ReturnedUnsaved DEF IInv, TypeOK

LEMMA PlainReturnStep ==
  ASSUME IInv, RestoreDone \/ RejectManifest \/ PartialCleanupDone
  PROVE  IInv' /\ Kept
<1>1. Return("error") /\ UNCHANGED <<disk, world, faults>>
  BY DEF RestoreDone, RejectManifest, PartialCleanupDone
<1>2. IInv'
  BY <1>1, ReturnedUnsaved DEF IInv, TypeOK, disk
<1>3. QED BY <1>1, <1>2 DEF Kept

LEMMA ExecutionFailedStep ==
  ASSUME IInv, ExecutionFailed
  PROVE  IInv' /\ Kept
<1> USE DEF ExecutionFailed, disk
<1>1. Kept
  BY DEF Kept
<1>2. CASE ToRestore = {}
  BY <1>1, <1>2, ReturnedUnsaved DEF IInv, TypeOK
<1>3. CASE ToRestore # {}
  <2> USE DEF ME!Fail, StartRestore, LoadKnown, NoFault, history
  <2>1. UNCHANGED <<Old, ToDestroy, ToApply, ToUpdate>>
    BY <1>3, SameDiff
  <2>2. TypeOK'
    BY <1>3 DEF IInv, TypeOK, PC
  <2>3. CommandOK' /\ PendingOK' /\ ExecutionOK' /\ DestroyedOK' /\ UpdatedOK' /\ AppliedOK'
    BY <1>3, <2>1 DEF IInv, CommandOK, PendingOK, ExecutionOK,
       DestroyedOK, UpdatedOK, AppliedOK
  <2>4. CurrentCanBeDestroyed'
    BY <1>3 DEF IInv, CurrentCanBeDestroyed
  <2>5. QED BY <1>1, <2>2, <2>3, <2>4 DEF IInv
<1>4. QED BY <1>2, <1>3

LEMMA ClearStep ==
  ASSUME IInv, ClearCurrent
  PROVE  IInv' /\ Kept
<1> USE DEF ClearCurrent
<1>1. PICK result \in {"ok", "error"} : Return(result)
  OBVIOUS
<1>2. CurrentCanBeDestroyed'
  BY DEF CurrentCanBeDestroyed, NodesOf
<1>3. IInv'
  BY <1>1, <1>2, Returned DEF IInv, TypeOK
<1>4. QED BY <1>3 DEF Kept

\* The snapshot becomes the configuration applied: each of its binds was there
\* before, or has been created or updated to, and then has its state file.
LEMMA PublishStep ==
  ASSUME IInv, Publish
  PROVE  IInv' /\ Kept
<1> USE DEF Publish, Snapshot
<1>1. CurrentCanBeDestroyed'
  <2> SUFFICES ASSUME NEW x \in NodesOf(desired) \cap Bind, world[x] # "absent"
               PROVE  x \in bindState
    BY DEF CurrentCanBeDestroyed
  <2>1. NodesOf(desired) \subseteq desired /\ Configuration(desired) /\ Configuration(Old)
    BY Configured DEF IInv, NodesOf
  <2>2. CASE x \in Old
    BY <2>2 DEF IInv, CurrentCanBeDestroyed, Old
  <2>3. CASE x \in ToApply
    BY <2>3 DEF IInv, AppliedOK
  <2>4. CASE \E p \in ToUpdate : p[2] = x
    BY <2>4 DEF IInv, UpdatedOK
  <2>5. QED
    BY <2>1, <2>2, <2>3, <2>4, NothingForgotten DEF ToApply, ToUpdate
<1>2. desired \in Configs \cup {NoConfig}
  BY DEF IInv, CommandOK
<1>3. IInv'
  BY <1>1, <1>2, Returned DEF IInv, TypeOK
<1>4. QED BY <1>3 DEF Kept

LEMMA CrashStep ==
  ASSUME IInv, Crash
  PROVE  IInv' /\ Kept
<1> USE DEF Crash
<1>1. /\ Return("error") /\ faults < MaxFaults /\ faults' = faults + 1
      /\ UNCHANGED <<current, bindState>>
  BY DEF ReturnWith
<1>2. store' \in [Build -> {"absent", "partial", "complete"}]
  BY DEF IInv, TypeOK
<1>3. /\ Old \subseteq Node /\ ToDestroy \subseteq Old \cap Bind
      /\ ToUpdate \subseteq (Old \cap Bind) \X (desired \cap Bind)
      /\ TypeOK
  BY Configured DEF IInv
<1>4. /\ world' \in [Bind -> Effect]
      /\ \A x \in Old \cap Bind : world'[x] = world[x] \/ x \in bindState
      /\ Kept
  <2>1. CASE Damage({})
    BY <1>3, <2>1, DamageOnly DEF Kept
  <2>2. CASE pc = "destroying" /\ \E x \in pending \cap bindState : Damage({x})
    <3>1. PICK x \in pending \cap bindState : Damage({x})
      BY <2>2
    <3>2. /\ world' \in [Bind -> Effect]
          /\ \A y \in Bind : world'[y] = world[y] \/ y = x
      BY <1>3, <3>1, DamageOnly
    <3>3. x \in ToDestroy
      BY <2>2 DEF IInv, PendingOK
    <3>4. QED BY <3>2, <3>3, ChangedOnly DEF Kept
  <2>3. CASE Restoring /\ Damage(WaveToRestore)
    <3>1. /\ world' \in [Bind -> Effect]
          /\ \A y \in Bind : world'[y] = world[y] \/ y \in pending
      BY <1>3, <2>3, DamageOnly DEF WaveToRestore
    <3>2. pending \subseteq ToDestroy /\ pending \subseteq bindState
      BY <2>3 DEF IInv, Restoring, PendingOK, DestroyedOK
    <3>3. QED BY <3>1, <3>2, ChangedOnly DEF Kept
  <2>4. CASE pc = "update" /\ \E p \in pending : p[1] \in bindState /\ Damage({p[1], p[2]})
    <3>1. PICK p \in pending : p[1] \in bindState /\ Damage({p[1], p[2]})
      BY <2>4
    <3>2. /\ world' \in [Bind -> Effect]
          /\ \A y \in Bind : world'[y] = world[y] \/ y \in {p[1], p[2]}
      BY <1>3, <3>1, DamageOnly
    <3>3. p \in ToUpdate
      BY <2>4 DEF IInv, PendingOK
    <3>4. QED BY <3>1, <3>2, <3>3, ChangedOnly DEF Kept
  <2>5. CASE pc = "repairing" /\ Damage(pending)
    <3>1. /\ world' \in [Bind -> Effect]
          /\ \A y \in Bind : world'[y] = world[y] \/ y \in pending
      BY <1>3, <2>5, DamageOnly
    <3>2. pending \subseteq bindState
      BY <2>5 DEF IInv, PendingOK
    <3>3. QED BY <2>5, <3>1, <3>2 DEF Kept
  <2>6. CASE /\ pc = "running"
             /\ \/ phase = "running" /\ Damage({x \in Bind : ME!MayEnd(x)})
                \/ phase = "undoing" /\ \E x \in toUndo : Damage({x})
    <3>1. PICK binds : /\ Damage(binds)
                       /\ binds \cap Bind \subseteq manifest.nodes
      <4>1. CASE phase = "running" /\ Damage({x \in Bind : ME!MayEnd(x)})
        <5>1. {x \in Bind : ME!MayEnd(x)} \subseteq manifest.nodes
          BY DEF ME!MayEnd
        <5>2. QED BY <4>1, <5>1
      <4>2. CASE phase = "undoing" /\ \E x \in toUndo : Damage({x})
        BY <1>3, <4>2 DEF TypeOK
      <4>3. QED BY <2>6, <4>1, <4>2
    <3>2. /\ world' \in [Bind -> Effect]
          /\ \A y \in Bind : world'[y] = world[y] \/ y \in binds
      BY <1>3, <3>1, DamageOnly
    <3>3. binds \cap Bind \subseteq ToApply
      BY <2>6, <3>1 DEF IInv, ExecutionOK
    <3>4. QED BY <3>2, <3>3, ChangedOnly DEF Kept
  <2>7. QED
    BY <2>1, <2>2, <2>3, <2>4, <2>5, <2>6 DEF Interrupt
<1>5. QED BY <1>1, <1>2, <1>4, ReturnedUnsaved

-----------------------------------------------------------------------------

LEMMA Initially == Init => IInv
<1> SUFFICES ASSUME Init PROVE IInv
  OBVIOUS
<1> USE DEF Init
<1>1. manifest \in Manifest /\ manifest.nodes = {}
  BY ManifestOfTyped DEF NoManifest
<1>2. TypeOK
  <2>1. /\ store \in [Build -> {"absent", "partial", "complete"}]
        /\ world \in [Bind -> Effect]
        /\ pc \in PC /\ faults \in 0 .. MaxFaults
    BY ApplyFlowAssumption DEF PC, Effect
  <2>2. QED BY <1>1, <2>1 DEF TypeOK
<1>3. QED
  BY <1>2 DEF IInv, CommandOK, PendingOK, ExecutionOK, DestroyedOK, UpdatedOK,
     AppliedOK, CurrentCanBeDestroyed, NodesOf

LEMMA WorkStep ==
  ASSUME IInv, Work
  PROVE  IInv' /\ Kept
<1>1. ASSUME NEW x \in pending \cap Bind,
             \/ SkipDestroy(x) \/ DestroyBind(x) \/ DestroyFails(x) \/ DestroyUnresolved(x)
             \/ RestoreBind(x) \/ SaveState(x) \/ RemoveState(x) \/ RepairBind(x)
      PROVE  IInv' /\ Kept
  <2>1. CASE SkipDestroy(x) \/ SaveState(x) \/ RemoveState(x)
    <3>1. world' = world
      BY <2>1 DEF SkipDestroy, SaveState, RemoveState
    <3>2. QED
      BY <2>1, <3>1, SkipDestroyStep, SaveStateStep, RemoveStateStep DEF Kept
  <2>2. CASE \/ DestroyBind(x) \/ DestroyFails(x) \/ DestroyUnresolved(x)
             \/ RestoreBind(x) \/ RepairBind(x)
    BY <2>2, DestroyBindStep, DestroyFailsStep, RestoreBindStep, RepairBindStep
  <2>3. QED BY <1>1, <2>1, <2>2
<1>2. ASSUME NEW p \in pending \cap (Bind \X Bind),
             \/ UpdateFails(p[1], p[2]) \/ CannotUpdate(p[1], p[2])
             \/ UpdateBind(p[1], p[2])
      PROVE  IInv' /\ Kept
  <2>1. p[1] \in Bind /\ p[2] \in Bind
    BY <1>2
  <2>2. QED BY <1>2, <2>1, FailedUpdateStep, UpdateBindStep
<1>3. ASSUME NEW n \in manifest.nodes,
             \/ CompleteNode(n) \/ NodeUnresolved(n) \/ HitUnresolved(n) \/ BreakBuild(n)
             \/ BreakBind(n) \/ UndoBind(n) \/ UndoFails(n) \/ UndoUnresolved(n)
      PROVE  IInv' /\ Kept
  <2>1. CASE CompleteNode(n) \/ NodeUnresolved(n) \/ BreakBuild(n) \/ BreakBind(n)
    BY <2>1, CompleteStep, UnresolvedStep, BreakBuildStep, BreakBindStep
  <2>2. CASE UndoBind(n) \/ UndoFails(n) \/ UndoUnresolved(n)
    <3>1. n \in ToApply /\ ToApply \subseteq Bind
      BY <2>2, Configured DEF IInv, TypeOK, ExecutionOK, UndoBind, UndoFails,
         UndoUnresolved, ME!Undo
    <3>2. QED BY <2>2, <3>1, UndoStep, UndoFailsStep
  <2>3. CASE HitUnresolved(n)
    BY <2>3, HitUnresolvedStep DEF Kept
  <2>4. QED BY <1>3, <2>1, <2>2, <2>3
<1>4. CASE \/ DestroyPhaseDone \/ SaveUpdatedState \/ RemoveOldState
           \/ UpdatePhaseDone \/ StartExecution \/ GiveUp \/ ExecutionSucceeded
           \/ StatesSaved \/ CleanupDone \/ Check \/ RepairDone
  <2>1. world' = world
    BY <1>4 DEF DestroyPhaseDone, SaveUpdatedState, RemoveOldState, UpdatePhaseDone,
       StartExecution, GiveUp, ExecutionSucceeded, StatesSaved, CleanupDone, Check,
       RepairDone
  <2>2. QED
    BY <1>4, <2>1, DestroyDoneStep, SaveUpdatedStep, RemoveOldStep, UpdateDoneStep,
       StartStep, GiveUpStep, SucceedStep, StatesSavedStep, CleanupDoneStep, CheckStep,
       RepairDoneStep DEF Kept
<1>5. CASE \/ RestoreFails \/ RestoreUnresolved \/ RestoreDone \/ ClearCurrent
           \/ RejectManifest \/ ExecutionFailed \/ PartialCleanupDone
           \/ RepairFails \/ RepairUnresolved \/ Publish
  BY <1>5, RestoreEndsStep, PlainReturnStep, ClearStep, ExecutionFailedStep,
     FailedRepairStep, PublishStep
<1>6. QED BY <1>1, <1>2, <1>3, <1>4, <1>5 DEF Work

LEMMA NextStep ==
  ASSUME IInv, [Next]_vars
  PROVE  IInv' /\ (Kept \/ UNCHANGED world)
<1>1. ASSUME Command PROVE IInv' /\ UNCHANGED world
  <2>1. UNCHANGED world
    BY <1>1 DEF Command, Apply, Destroy
  <2>2. QED BY <1>1, <2>1, ApplyStep, DestroyStep DEF Command
<1>2. ASSUME Environment PROVE IInv' /\ Kept
  BY <1>2, CrashStep, DriftStep DEF Environment
<1>3. CASE UNCHANGED vars
  <2>1. IInv'
    BY <1>3 DEF vars, disk, locals, execution, history, IInv, TypeOK, CommandOK,
       PendingOK, ExecutionOK, DestroyedOK, UpdatedOK, AppliedOK, CurrentCanBeDestroyed,
       ToDestroy, ToApply, ToUpdate, Old
  <2>2. QED BY <1>3, <2>1 DEF vars
<1>4. QED BY <1>1, <1>2, <1>3, WorkStep DEF Next

THEOREM Invariance == Spec => []IInv
<1>1. Init => IInv
  BY Initially
<1>2. IInv /\ [Next]_vars => IInv'
  BY NextStep
<1>3. QED BY <1>1, <1>2, PTL DEF Spec

\* Every variable of the flow stays in its range.
THEOREM TypeCorrect == Spec => []TypeOK
<1>1. IInv => TypeOK
  BY DEF IInv
<1>2. QED BY <1>1, Invariance, PTL

\* At every moment, also after a crash between any two writes, a bind of the
\* current snapshot that is in place, or half in place, has the state file that
\* sys destroy needs to undo it: cleanup_destroyed_bind_states runs after the
\* actions, save_bind_state before the pointer is moved.
THEOREM WhatIsThereCanBeDestroyed == Spec => []CurrentCanBeDestroyed
<1>1. IInv => CurrentCanBeDestroyed
  BY DEF IInv
<1>2. QED BY <1>1, Invariance, PTL

\* A bind of both the current snapshot and the configuration applied is touched
\* by no phase of sys apply but the repair, whatever fails in it.
THEOREM ApplySparesKeptBinds == Spec => KeptBindsUntouched
<1>1. IInv /\ [Next]_vars =>
        [\A x \in NodesOf(current) \cap desired \cap Bind :
           cmd = "apply" /\ pc # "repairing" => world'[x] = world[x]]_vars
  BY NextStep DEF Kept, Old
<1>2. QED BY <1>1, Invariance, PTL DEF Spec, KeptBindsUntouched

-----------------------------------------------------------------------------
(* When nothing fails but the execution, its rollback and the restore, and *)
(* the configurations are recoverable, what the current snapshot says is   *)
(* there at every return.                                                  *)

Stands(x) == world[x] = "present" /\ x \in bindState

\* The phases a command never reaches, and the order of what is taken away
\* and brought back: every bind to destroy is waiting, destroyed, or restored.
PlaceInv ==
  /\ pc \notin {"restoreAndFail", "cleanupPartial", "repairing", "saveUpdated",
                "removeUpdated"}
  /\ pc = "update" => pending = {}
  /\ \A b \in Old \cap Build : store[b] = "complete"
  /\ \A x \in (Old \cap Bind) \ ToDestroy : Stands(x)
  /\ pc = "idle" => \A x \in Old \cap Bind : Stands(x)
  /\ pc = "destroying" =>
       ToDestroy \subseteq pending \cup destroyed /\ \A x \in pending : Stands(x)
  /\ pc \in {"update", "execute", "running", "restoreAndReset"} => ToDestroy \subseteq destroyed
  /\ pc = "restoreAndReset" => \A x \in ToDestroy \ pending : Stands(x)
  /\ pc = "running" =>
       /\ manifest = ExecutionOf(desired, Old)
       /\ \A b \in completed \cap Build : store[b] = "complete"
       /\ phase = "running" => \A x \in completed \cap Bind : world[x] = "present"
  /\ pc \in {"saveStates"} \cup Executed =>
       /\ \A b \in desired \cap Build : store[b] = "complete"
       /\ \A x \in ToApply : world[x] = "present"

\* What is not gone from a configuration stays or is destroyed or updated.
LEMMA NothingLeftOver ==
  ASSUME NEW new, NEW old, Configuration(new), Configuration(old),
         NEW x \in old \cap Bind, x \notin new
  PROVE  \/ x \in binds_to_destroy(new, old)
         \/ \E p \in binds_to_update(new, old) : p[1] = x
<1>1. CASE Id[x] = NoId
  BY <1>1 DEF binds_to_destroy, WithId, WithoutId
<1>2. CASE Id[x] # NoId /\ ~HasIdIn(x, new)
  BY <1>2 DEF binds_to_destroy, WithId
<1>3. CASE Id[x] # NoId /\ HasIdIn(x, new)
  <2>1. PICK y \in WithId(new) : Id[y] = Id[x]
    BY <1>3 DEF HasIdIn
  <2>2. x \in WithId(old) /\ y # x
    BY <1>3, <2>1 DEF WithId
  <2>3. CASE y \in Updatable
    <3>1. <<x, y>> \in binds_to_update(new, old)
      BY <2>1, <2>2, <2>3 DEF binds_to_update
    <3>2. QED BY <3>1
  <2>4. CASE y \notin Updatable
    <3>1. <<x, y>> \in Recreated(new, old)
      BY <2>1, <2>2, <2>4 DEF Recreated
    <3>2. x \in {p[1] : p \in Recreated(new, old)}
      BY <3>1
    <3>3. QED BY <3>2 DEF binds_to_destroy
  <2>5. QED BY <2>3, <2>4
<1>4. QED BY <1>1, <1>2, <1>3

\* An empty diff between recoverable configurations means they are the same.
LEMMA EmptyDiffIsSame ==
  ASSUME BuildsFollowBinds, NEW new \in Sides, NEW old \in Sides, NEW onDisk,
         DiffIsEmpty(new, old, onDisk)
  PROVE  new = old
<1>1. Configuration(new) /\ Configuration(old)
  BY ApplyFlowAssumption DEF Sides, Configuration, UniqueIds
<1>2. new \cap Bind \subseteq old
  BY <1>1, NothingForgotten DEF DiffIsEmpty
<1>3. old \cap Bind \subseteq new
  BY <1>1, NothingLeftOver DEF DiffIsEmpty
<1>4. QED BY <1>2, <1>3 DEF BuildsFollowBinds

\* A part of a valid manifest is valid.
LEMMA PartIsValid ==
  ASSUME NEW c, NEW nodes \in SUBSET c, ValidManifest(ManifestOf(c))
  PROVE  ValidManifest(ManifestOf(nodes))
<1> DEFINE m == ManifestOf(c)
           k == ManifestOf(nodes)
<1>1. m.nodes = c /\ k.nodes = nodes /\ k.refs \subseteq m.refs
  BY DEF ManifestOf
<1>2. ~BuildMentionsBind(k)
  BY <1>1 DEF ValidManifest, BuildMentionsBind
<1>3. \A n : Deps(k, n) \subseteq Deps(m, n)
  BY <1>1 DEF Deps, Incoming, Edges
<1>4. Acyclic(k)
  BY <1>1, <1>3 DEF ValidManifest, Acyclic
<1>5. QED BY <1>2, <1>4 DEF ValidManifest

\* The execution that an apply starts: every build and the binds to apply.
LEMMA ExecutionNodes ==
  ASSUME TypeOK
  PROVE  /\ ExecutionManifest = ExecutionOf(desired, Old)
         /\ ExecutionOf(desired, Old).nodes = (desired \cap Build) \cup ToApply
         /\ ExecutionOf(desired, Old).nodes \subseteq desired
  BY Configured, ManifestOfTyped DEF ExecutionManifest, ExecutionOf, Old, ToApply,
     Configuration

LEMMA NoneUpdated ==
  ASSUME TypeOK, NothingUpdated
  PROVE  ToUpdate = {}
<1>1. desired \in Sides /\ Old \in Sides
  BY DEF TypeOK, Sides, Old, NodesOf
<1>2. QED BY <1>1 DEF NothingUpdated, ToUpdate

\* A command that returns leaves the snapshot in place if what it names is.
LEMMA ReturnedInPlace ==
  ASSUME NEW result, Return(result),
         \A b \in Old' \cap Build : store'[b] = "complete",
         \A x \in Old' \cap Bind : Stands(x)'
  PROVE  PlaceInv'
  BY DEF Return, ResetLocals, DiscardExecution, PlaceInv

LEMMA PlaceSkip ==
  ASSUME IInv, PlaceInv, NEW x \in Bind, SkipDestroy(x)
  PROVE  PlaceInv'
<1> USE DEF SkipDestroy, LeftInList, disk, locals, execution, NoFault,
      history
<1>1. UNCHANGED <<Old, ToDestroy, ToApply>>
  BY SameDiff
<1>2. /\ ToDestroy \subseteq Old \cap Bind
      /\ ToApply \subseteq desired \cap Bind /\ ToApply \cap Old = {}
  BY Configured, ChangedOnly DEF IInv
<1>3. QED
  BY <1>1, <1>2 DEF IInv, TypeOK, PlaceInv, Stands

LEMMA PlaceDestroyBind ==
  ASSUME IInv, PlaceInv, NEW x \in Bind, DestroyBind(x)
  PROVE  PlaceInv'
<1> USE DEF DestroyBind, disk, locals, execution, NoFault, history
<1>1. UNCHANGED <<Old, ToDestroy, ToApply>>
  BY SameDiff
<1>2. /\ ToDestroy \subseteq Old \cap Bind
      /\ ToApply \subseteq desired \cap Bind /\ ToApply \cap Old = {}
  BY Configured, ChangedOnly DEF IInv
<1>3. QED
  BY <1>1, <1>2 DEF IInv, TypeOK, PlaceInv, Stands, PendingOK

LEMMA PlaceRestoreBind ==
  ASSUME IInv, PlaceInv, NEW x \in Bind, RestoreBind(x)
  PROVE  PlaceInv'
<1> USE DEF RestoreBind, Restoring, WaveToRestore, disk, locals, execution,
      NoFault, history
<1>1. UNCHANGED <<Old, ToDestroy, ToApply>>
  BY SameDiff
<1>2. /\ ToDestroy \subseteq Old \cap Bind
      /\ ToApply \subseteq desired \cap Bind /\ ToApply \cap Old = {}
  BY Configured, ChangedOnly DEF IInv
<1>3. QED
  BY <1>1, <1>2 DEF IInv, TypeOK, PlaceInv, Stands, PendingOK

LEMMA PlaceSaveState ==
  ASSUME IInv, PlaceInv, NEW x \in Bind, SaveState(x)
  PROVE  PlaceInv'
<1> USE DEF SaveState, disk, locals, execution, NoFault, history
<1>1. UNCHANGED <<Old, ToDestroy, ToApply>>
  BY SameDiff
<1>2. /\ ToDestroy \subseteq Old \cap Bind
      /\ ToApply \subseteq desired \cap Bind /\ ToApply \cap Old = {}
  BY Configured, ChangedOnly DEF IInv
<1>3. QED
  BY <1>1, <1>2 DEF IInv, TypeOK, PlaceInv, Stands

LEMMA PlaceRemoveState ==
  ASSUME IInv, PlaceInv, NEW x \in Bind, RemoveState(x)
  PROVE  PlaceInv'
<1> USE DEF RemoveState, disk, locals, execution, NoFault, history
<1>1. UNCHANGED <<Old, ToDestroy, ToApply>>
  BY SameDiff
<1>2. /\ ToDestroy \subseteq Old \cap Bind
      /\ ToApply \subseteq desired \cap Bind /\ ToApply \cap Old = {}
  BY Configured, ChangedOnly DEF IInv
<1>3. QED
  BY <1>1, <1>2 DEF IInv, TypeOK, PlaceInv, Stands, PendingOK

LEMMA PlaceDestroyDone ==
  ASSUME IInv, PlaceInv, NothingUpdated, DestroyPhaseDone
  PROVE  PlaceInv'
<1> USE DEF DestroyPhaseDone, LoadKnown, SameLocals, disk, locals,
      execution, NoFault, history
<1>1. UNCHANGED <<Old, ToDestroy, ToApply>>
  BY SameDiff
<1>2. /\ ToDestroy \subseteq Old \cap Bind
      /\ ToApply \subseteq desired \cap Bind /\ ToApply \cap Old = {}
  BY Configured, ChangedOnly DEF IInv
<1>3. binds_to_update(desired, NodesOf(current)) = {}
  BY NoneUpdated DEF IInv, ToUpdate, Old
<1>4. cmd # "apply" => desired = {} /\ ToApply = {}
  BY <1>2 DEF IInv, CommandOK
<1>5. QED
  BY <1>1, <1>2, <1>3, <1>4 DEF IInv, TypeOK, PlaceInv, Stands

LEMMA PlaceUpdateDone ==
  ASSUME IInv, PlaceInv, UpdatePhaseDone
  PROVE  PlaceInv'
<1> USE DEF UpdatePhaseDone, Step, disk, locals, execution, NoFault, history
<1>1. UNCHANGED <<Old, ToDestroy, ToApply>>
  BY SameDiff
<1>2. /\ ToDestroy \subseteq Old \cap Bind
      /\ ToApply \subseteq desired \cap Bind /\ ToApply \cap Old = {}
  BY Configured, ChangedOnly DEF IInv
<1>3. QED
  BY <1>1, <1>2 DEF IInv, TypeOK, PlaceInv, Stands

LEMMA PlaceStart ==
  ASSUME IInv, PlaceInv, StartExecution
  PROVE  PlaceInv'
<1> USE DEF StartExecution, Step, ME!Start, disk, locals, execution,
      NoFault, history
<1>1. UNCHANGED <<Old, ToDestroy, ToApply>>
  BY SameDiff
<1>2. /\ ToDestroy \subseteq Old \cap Bind
      /\ ToApply \subseteq desired \cap Bind /\ ToApply \cap Old = {}
  BY Configured, ChangedOnly DEF IInv
<1>3. ExecutionManifest = ExecutionOf(desired, Old)
  BY ExecutionNodes DEF IInv
<1>4. QED
  BY <1>1, <1>2, <1>3 DEF IInv, TypeOK, PlaceInv, Stands

LEMMA PlaceComplete ==
  ASSUME IInv, PlaceInv, NEW n \in manifest.nodes, CompleteNode(n)
  PROVE  PlaceInv'
<1> USE DEF CompleteNode, InExecution, ME!Complete, ME!MayEnd, disk, locals,
      execution, NoFault, history
<1>1. UNCHANGED <<Old, ToDestroy, ToApply>>
  BY SameDiff
<1>2. /\ ToDestroy \subseteq Old \cap Bind
      /\ ToApply \subseteq desired \cap Bind /\ ToApply \cap Old = {}
  BY Configured, ChangedOnly DEF IInv
<1>3. n \in Node /\ (n \notin Build => n \in ToApply /\ n \in Bind)
  BY DEF IInv, TypeOK, ExecutionOK, Manifest, Node
<1>4. /\ \A b \in Build : store'[b] = store[b] \/ (b = n /\ store'[b] = "complete")
      /\ n \in Build => store'[n] = "complete"
  BY DEF IInv, TypeOK, CacheHit
<1>5. /\ \A y \in Bind : world'[y] = world[y] \/ (y = n /\ world'[y] = "present")
      /\ n \notin Build => world'[n] = "present"
  BY <1>3 DEF IInv, TypeOK
<1>6. QED
  BY <1>1, <1>2, <1>3, <1>4, <1>5, DagAssumption DEF IInv, TypeOK, PlaceInv,
     Stands, ME!Over

LEMMA PlaceUnresolved ==
  ASSUME IInv, PlaceInv, NEW n \in manifest.nodes, NodeUnresolved(n)
  PROVE  PlaceInv'
<1> USE DEF NodeUnresolved, InExecution, ME!Break, ME!MayEnd, disk, locals,
      execution, NoFault, history
<1>1. UNCHANGED <<Old, ToDestroy, ToApply>>
  BY SameDiff
<1>2. /\ ToDestroy \subseteq Old \cap Bind
      /\ ToApply \subseteq desired \cap Bind /\ ToApply \cap Old = {}
  BY Configured, ChangedOnly DEF IInv
<1>3. n \in Node /\ (n \notin Build => n \in ToApply /\ n \in Bind)
  BY DEF IInv, TypeOK, ExecutionOK, Manifest, Node
<1>4. \A b \in Build : store'[b] = store[b] \/ (b = n /\ store[b] # "complete")
  BY DagAssumption DEF IInv, TypeOK, CacheHit, LeftPartial
<1>5. \A y \in Bind : world'[y] = world[y] \/ (y = n /\ n \notin Build)
  BY DamageOnly, DagAssumption DEF IInv, TypeOK
<1>6. n \notin completed
  BY DEF ME!Over
<1>7. QED
  BY <1>1, <1>2, <1>3, <1>4, <1>5, <1>6, DagAssumption DEF IInv, TypeOK,
     PlaceInv, Stands

LEMMA PlaceHitUnresolved ==
  ASSUME IInv, PlaceInv, NEW n \in manifest.nodes, HitUnresolved(n)
  PROVE  PlaceInv'
<1> USE DEF HitUnresolved, InExecution, ME!Break, ME!MayEnd, disk, locals, NoFault,
      history
<1>1. UNCHANGED <<Old, ToDestroy, ToApply>>
  BY SameDiff
<1>2. QED
  BY <1>1 DEF IInv, TypeOK, PlaceInv, Stands

LEMMA PlaceBreakBuild ==
  ASSUME IInv, PlaceInv, NEW n \in manifest.nodes, BreakBuild(n)
  PROVE  PlaceInv'
<1> USE DEF BreakBuild, Fault, InExecution, ME!Break, ME!MayEnd, disk,
      locals, execution, NoFault, history
<1>1. UNCHANGED <<Old, ToDestroy, ToApply>>
  BY SameDiff
<1>2. /\ ToDestroy \subseteq Old \cap Bind
      /\ ToApply \subseteq desired \cap Bind /\ ToApply \cap Old = {}
  BY Configured, ChangedOnly DEF IInv
<1>3. n \in Node /\ (n \notin Build => n \in ToApply /\ n \in Bind)
  BY DEF IInv, TypeOK, ExecutionOK, Manifest, Node
<1>4. \A b \in Build : store'[b] = store[b] \/ (b = n /\ store[b] # "complete")
  BY DagAssumption DEF IInv, TypeOK, CacheHit, LeftPartial
<1>5. \A y \in Bind : world'[y] = world[y] \/ (y = n /\ n \notin Build)
  BY DamageOnly, DagAssumption DEF IInv, TypeOK
<1>6. n \notin completed
  BY DEF ME!Over
<1>7. QED
  BY <1>1, <1>2, <1>3, <1>4, <1>5, <1>6, DagAssumption DEF IInv, TypeOK,
     PlaceInv, Stands

LEMMA PlaceBreakBind ==
  ASSUME IInv, PlaceInv, NEW n \in manifest.nodes, BreakBind(n)
  PROVE  PlaceInv'
<1> USE DEF BreakBind, Fault, InExecution, ME!Break, ME!MayEnd, disk,
      locals, execution, NoFault, history
<1>1. UNCHANGED <<Old, ToDestroy, ToApply>>
  BY SameDiff
<1>2. /\ ToDestroy \subseteq Old \cap Bind
      /\ ToApply \subseteq desired \cap Bind /\ ToApply \cap Old = {}
  BY Configured, ChangedOnly DEF IInv
<1>3. n \in Node /\ (n \notin Build => n \in ToApply /\ n \in Bind)
  BY DEF IInv, TypeOK, ExecutionOK, Manifest, Node
<1>4. \A b \in Build : store'[b] = store[b] \/ (b = n /\ store[b] # "complete")
  BY DagAssumption DEF IInv, TypeOK, CacheHit, LeftPartial
<1>5. \A y \in Bind : world'[y] = world[y] \/ (y = n /\ n \notin Build)
  BY DamageOnly, DagAssumption DEF IInv, TypeOK
<1>6. n \notin completed
  BY DEF ME!Over
<1>7. QED
  BY <1>1, <1>2, <1>3, <1>4, <1>5, <1>6, DagAssumption DEF IInv, TypeOK,
     PlaceInv, Stands

LEMMA PlaceUndo ==
  ASSUME IInv, PlaceInv, NEW n \in Bind, UndoBind(n)
  PROVE  PlaceInv'
<1> USE DEF UndoBind, InExecution, ME!Undo, disk, locals, execution,
      NoFault, history
<1>1. UNCHANGED <<Old, ToDestroy, ToApply>>
  BY SameDiff
<1>2. /\ ToDestroy \subseteq Old \cap Bind
      /\ ToApply \subseteq desired \cap Bind /\ ToApply \cap Old = {}
  BY Configured, ChangedOnly DEF IInv
<1>3. n \in ToApply
  BY DEF IInv, TypeOK, ExecutionOK
<1>4. QED
  BY <1>1, <1>2, <1>3 DEF IInv, TypeOK, PlaceInv, Stands

LEMMA PlaceUndoFails ==
  ASSUME IInv, PlaceInv, NEW n \in Bind, UndoFails(n) \/ UndoUnresolved(n)
  PROVE  PlaceInv'
<1> USE DEF UndoFails, UndoUnresolved, Fault, InExecution, ME!Undo, disk, locals,
      execution, NoFault, history
<1>1. UNCHANGED <<Old, ToDestroy, ToApply>>
  BY SameDiff
<1>2. /\ ToDestroy \subseteq Old \cap Bind
      /\ ToApply \subseteq desired \cap Bind /\ ToApply \cap Old = {}
  BY Configured, ChangedOnly DEF IInv
<1>3. n \in ToApply
  BY DEF IInv, TypeOK, ExecutionOK
<1>4. \A y \in Bind : world'[y] = world[y] \/ y = n
  BY DamageOnly DEF IInv, TypeOK
<1>5. QED
  BY <1>1, <1>2, <1>3, <1>4 DEF IInv, TypeOK, PlaceInv, Stands

LEMMA PlaceGiveUp ==
  ASSUME IInv, PlaceInv, GiveUp
  PROVE  PlaceInv'
<1> USE DEF GiveUp, InExecution, ME!GiveUp, disk, locals, execution,
      NoFault, history
<1>1. UNCHANGED <<Old, ToDestroy, ToApply>>
  BY SameDiff
<1>2. /\ ToDestroy \subseteq Old \cap Bind
      /\ ToApply \subseteq desired \cap Bind /\ ToApply \cap Old = {}
  BY Configured, ChangedOnly DEF IInv
<1>3. QED
  BY <1>1, <1>2 DEF IInv, TypeOK, PlaceInv, Stands

LEMMA PlaceSucceed ==
  ASSUME IInv, PlaceInv, ExecutionSucceeded
  PROVE  PlaceInv'
<1> USE DEF ExecutionSucceeded, Step, ME!Succeed, disk, locals, execution,
      NoFault, history
<1>1. UNCHANGED <<Old, ToDestroy, ToApply>>
  BY SameDiff
<1>2. /\ ToDestroy \subseteq Old \cap Bind
      /\ ToApply \subseteq desired \cap Bind /\ ToApply \cap Old = {}
  BY Configured, ChangedOnly DEF IInv
<1>3. completed = (desired \cap Build) \cup ToApply
  BY ExecutionNodes DEF IInv, PlaceInv, ExecutionOK, ME!Over
<1>4. QED
  BY <1>1, <1>2, <1>3, DagAssumption DEF IInv, TypeOK, PlaceInv, Stands,
     ME!Over

LEMMA PlaceStatesSaved ==
  ASSUME IInv, PlaceInv, StatesSaved
  PROVE  PlaceInv'
<1> USE DEF StatesSaved, Step, disk, locals, execution, NoFault, history
<1>1. UNCHANGED <<Old, ToDestroy, ToApply>>
  BY SameDiff
<1>2. /\ ToDestroy \subseteq Old \cap Bind
      /\ ToApply \subseteq desired \cap Bind /\ ToApply \cap Old = {}
  BY Configured, ChangedOnly DEF IInv
<1>3. QED
  BY <1>1, <1>2 DEF IInv, TypeOK, PlaceInv, Stands

LEMMA PlaceCleanupDone ==
  ASSUME IInv, PlaceInv, CleanupDone
  PROVE  PlaceInv'
<1> USE DEF CleanupDone, Step, disk, locals, execution, NoFault, history
<1>1. UNCHANGED <<Old, ToDestroy, ToApply>>
  BY SameDiff
<1>2. /\ ToDestroy \subseteq Old \cap Bind
      /\ ToApply \subseteq desired \cap Bind /\ ToApply \cap Old = {}
  BY Configured, ChangedOnly DEF IInv
<1>3. QED
  BY <1>1, <1>2 DEF IInv, TypeOK, PlaceInv, Stands

LEMMA PlaceCheck ==
  ASSUME IInv, PlaceInv, Check
  PROVE  PlaceInv'
<1> USE DEF Check, disk, locals, execution, NoFault, history
<1>1. UNCHANGED <<Old, ToDestroy, ToApply>>
  BY SameDiff
<1>2. /\ ToDestroy \subseteq Old \cap Bind
      /\ ToApply \subseteq desired \cap Bind /\ ToApply \cap Old = {}
  BY Configured, ChangedOnly DEF IInv
<1>3. Drifted = {}
  BY Configured, DiffTypes, KeptIsUnchanged DEF IInv, Drifted, PlaceInv,
     Stands, ToDestroy, Old
<1>4. QED
  BY <1>1, <1>2, <1>3 DEF IInv, TypeOK, PlaceInv, Stands

LEMMA PlaceApply ==
  ASSUME IInv, PlaceInv, BuildsFollowBinds, NEW c \in Configs, NEW r \in BOOLEAN, Apply(c, r)
  PROVE  PlaceInv'
<1> USE DEF Apply, disk, execution
<1>1. /\ desired' = c /\ current' = current /\ pc = "idle"
      /\ Old' = Old /\ NodesOf(current) = Old /\ Old \in Sides /\ c \in Sides
      /\ Configuration(c) /\ Configuration(Old)
  BY Configured, ApplyFlowAssumption DEF IInv, TypeOK, Configuration, Sides, Old, NodesOf
<1>2. /\ ToDestroy' = binds_to_destroy(c, Old) /\ ToApply' = binds_to_apply(c, Old)
      /\ ToDestroy' \subseteq Old \cap Bind
  BY <1>1, DiffTypes DEF ToDestroy, ToApply
<1>3. CASE pc' = "check"
  <2>1. c = Old /\ ToApply' = {}
    BY <1>1, <1>2, <1>3, EmptyDiffIsSame DEF DiffIsEmpty
  <2>2. QED BY <1>1, <1>3, <2>1 DEF PlaceInv, Stands
<1>4. CASE pc' = "destroying"
  <2>1. pending' = ToDestroy'
    BY <1>1, <1>2, <1>4
  <2>2. QED BY <1>1, <1>2, <1>4, <2>1 DEF PlaceInv, Stands
<1>5. QED BY <1>3, <1>4

LEMMA PlaceDestroy ==
  ASSUME IInv, PlaceInv, Destroy
  PROVE  PlaceInv'
<1> USE DEF Destroy, disk, execution
<1>1. UNCHANGED <<Old, ToDestroy>>
  BY SameDiff
<1>2. /\ current = Old /\ ToDestroy = Old \cap Bind
  BY Configured, DiffWithNothing DEF IInv, CommandOK, Old, NodesOf, ToDestroy
<1>3. QED BY <1>1, <1>2 DEF PlaceInv, Stands

LEMMA PlaceExecutionFailed ==
  ASSUME IInv, PlaceInv, ExecutionFailed
  PROVE  PlaceInv'
<1> USE DEF ExecutionFailed, disk, ToRestore
<1>1. CASE destroyed = {}
  <2>1. /\ Return("error") /\ ToDestroy = {} /\ Old' = Old
    BY <1>1 DEF PlaceInv, Old
  <2>2. QED BY <2>1, ReturnedInPlace DEF PlaceInv, Stands
<1>2. CASE destroyed # {}
  <2>1. UNCHANGED <<Old, ToDestroy, ToApply>>
    BY <1>2, SameDiff DEF StartRestore, LoadKnown
  <2>2. QED
    BY <1>2, <2>1 DEF PlaceInv, Stands, StartRestore, LoadKnown
<1>3. QED BY <1>1, <1>2

LEMMA PlaceRestoreDone ==
  ASSUME IInv, PlaceInv, RestoreDone
  PROVE  PlaceInv'
<1>1. /\ Return("error") /\ UNCHANGED <<disk, world>> /\ Old' = Old
      /\ pc = "restoreAndReset" /\ pending = {}
  BY DEF RestoreDone, Restoring, PlaceInv, disk, Old
<1>2. QED BY <1>1, ReturnedInPlace DEF PlaceInv, Stands, disk

LEMMA PlaceRestoreEnds ==
  ASSUME IInv, PlaceInv, RestoreFails \/ RestoreUnresolved
  PROVE  PlaceInv'
<1>1. /\ \A y \in Bind : world'[y] = world[y] \/ y \in pending
      /\ UNCHANGED disk /\ pc = "restoreAndReset"
  BY DamageOnly DEF RestoreFails, RestoreUnresolved, Restoring, PlaceInv, WaveToRestore, IInv
<1>2. pc' = "clearCurrent" /\ UNCHANGED locals
  BY <1>1 DEF RestoreFails, RestoreUnresolved, LeaveRestore
<1>3. UNCHANGED <<Old, ToDestroy>> /\ pending \subseteq ToDestroy
  BY <1>1, <1>2, SameDiff DEF disk, locals, IInv, PendingOK
<1>4. QED BY <1>1, <1>2, <1>3 DEF PlaceInv, Stands, disk

LEMMA PlaceClear ==
  ASSUME IInv, ClearCurrent
  PROVE  PlaceInv'
<1>1. Old' = {} /\ \E result : Return(result)
  BY DEF ClearCurrent, Old, NodesOf
<1>2. QED BY <1>1, ReturnedInPlace

\* The snapshot that is published is in place: kept, created, and every build
\* realized.
LEMMA PlacePublish ==
  ASSUME IInv, PlaceInv, NothingUpdated, Publish
  PROVE  PlaceInv'
<1> USE DEF Publish, Snapshot
<1>1. /\ Return("ok") /\ Old' = NodesOf(desired) /\ Old' \subseteq desired
      /\ UNCHANGED <<bindState, store, world>>
  BY DEF Old, NodesOf
<1>2. ASSUME NEW x \in desired \cap Bind PROVE Stands(x)
  <2>1. CASE x \in Old
    BY <2>1, ChangedOnly DEF PlaceInv, IInv
  <2>2. CASE x \notin Old
    <3>1. x \in ToApply
      BY <2>2, Configured, NothingForgotten, NoneUpdated DEF IInv, ToApply, ToUpdate
    <3>2. QED BY <3>1 DEF IInv, AppliedOK, PlaceInv, Stands
  <2>3. QED BY <2>1, <2>2
<1>3. \A b \in desired \cap Build : store[b] = "complete"
  BY DEF PlaceInv
<1>4. \A x \in Old' \cap Bind : Stands(x)'
  BY <1>1, <1>2 DEF Stands
<1>5. QED BY <1>1, <1>3, <1>4, ReturnedInPlace

\* No manifest is rejected: an execution is a part of its configuration.
LEMMA NoneRejected ==
  ASSUME IInv, AllValid, pc \in {"execute", "running"}
  PROVE  ValidManifest(ExecutionManifest)
<1>1. desired \in Configs
  BY DEF IInv, CommandOK
<1>2. (desired \cap Build) \cup ToApply \subseteq desired
  BY Configured DEF IInv
<1>3. QED
  BY <1>1, <1>2, PartIsValid DEF AllValid, ExecutionManifest, ExecutionOf, ToApply, Old

LEMMA PlaceStep ==
  ASSUME IInv, PlaceInv, Recoverable, OnlyExecutionFails, [Next]_vars
  PROVE  PlaceInv'
<1> USE DEF Recoverable
<1>1. CASE UNCHANGED vars
  BY <1>1 DEF vars, disk, locals, execution, PlaceInv, Stands, Old, ToDestroy, ToApply
<1>2. CASE Command
  BY <1>2, PlaceApply, PlaceDestroy DEF Command
<1>3. ASSUME Environment PROVE FALSE
  BY <1>3 DEF Environment, Crash, ReturnWith, Drift, OnlyExecutionFails
<1>4. ASSUME NEW x \in pending \cap Bind,
             \/ SkipDestroy(x) \/ DestroyBind(x) \/ DestroyFails(x) \/ DestroyUnresolved(x)
             \/ RestoreBind(x) \/ SaveState(x) \/ RemoveState(x) \/ RepairBind(x)
      PROVE  PlaceInv'
  <2>1. ~DestroyFails(x) /\ ~DestroyUnresolved(x) /\ ~RepairBind(x)
    BY DEF DestroyFails, DestroyUnresolved, LeaveDestroy, DestroyResolves,
       DestroysResolve, ReturnWith, Fault, RepairBind, PlaceInv, OnlyExecutionFails
  <2>2. QED
    BY <1>4, <2>1, PlaceSkip, PlaceDestroyBind, PlaceRestoreBind, PlaceSaveState,
       PlaceRemoveState
<1>5. ASSUME NEW p \in pending \cap (Bind \X Bind),
             \/ UpdateFails(p[1], p[2]) \/ CannotUpdate(p[1], p[2])
             \/ UpdateBind(p[1], p[2])
      PROVE  FALSE
  BY <1>5 DEF UpdateFails, CannotUpdate, UpdateBind, Step, PlaceInv
<1>6. ASSUME NEW n \in manifest.nodes,
             \/ CompleteNode(n) \/ NodeUnresolved(n) \/ HitUnresolved(n) \/ BreakBuild(n)
             \/ BreakBind(n) \/ UndoBind(n) \/ UndoFails(n) \/ UndoUnresolved(n)
      PROVE  PlaceInv'
  <2>1. CASE \/ CompleteNode(n) \/ NodeUnresolved(n) \/ HitUnresolved(n)
             \/ BreakBuild(n) \/ BreakBind(n)
    BY <2>1, PlaceComplete, PlaceUnresolved, PlaceHitUnresolved, PlaceBreakBuild,
       PlaceBreakBind
  <2>2. CASE UndoBind(n) \/ UndoFails(n) \/ UndoUnresolved(n)
    <3>1. n \in Bind
      BY <2>2 DEF IInv, ExecutionOK, UndoBind, UndoFails, UndoUnresolved, ME!Undo
    <3>2. QED BY <2>2, <3>1, PlaceUndo, PlaceUndoFails
  <2>3. QED BY <1>6, <2>1, <2>2
<1>7. ASSUME \/ SaveUpdatedState \/ RemoveOldState \/ RejectManifest
             \/ PartialCleanupDone \/ RepairFails \/ RepairUnresolved \/ RepairDone
      PROVE  FALSE
  BY <1>7, NoneRejected DEF SaveUpdatedState, RemoveOldState, RejectManifest,
     PartialCleanupDone, RepairFails, RepairUnresolved, RepairDone, Step, PlaceInv
<1>8. CASE \/ DestroyPhaseDone \/ UpdatePhaseDone \/ StartExecution \/ GiveUp
           \/ ExecutionFailed \/ ExecutionSucceeded \/ StatesSaved \/ CleanupDone \/ Check
  BY <1>8, PlaceDestroyDone, PlaceUpdateDone, PlaceStart, PlaceGiveUp,
     PlaceExecutionFailed, PlaceSucceed, PlaceStatesSaved, PlaceCleanupDone, PlaceCheck
<1>9. CASE \/ RestoreFails \/ RestoreUnresolved \/ RestoreDone \/ ClearCurrent \/ Publish
  BY <1>9, PlaceRestoreEnds, PlaceRestoreDone, PlaceClear, PlacePublish
<1>10. QED BY <1>1, <1>2, <1>3, <1>4, <1>5, <1>6, <1>7, <1>8, <1>9 DEF Next, Work

\* When nothing but the execution, its rollback, the restore and repairs can
\* fail, and the configurations are recoverable, every bind that can be
\* destroyed included, then between commands the
\* current snapshot tells what is there: a failed execution restores what had
\* been destroyed, and what cannot be restored clears the pointer.
THEOREM SnapshotIsInPlace ==
  ASSUME Recoverable, OnlyExecutionFails
  PROVE  Spec => []CurrentIsInPlace
<1>1. Init => PlaceInv
  BY DEF Init, PlaceInv, Old, NodesOf
<1>2. IInv /\ PlaceInv /\ [Next]_vars => PlaceInv'
  BY PlaceStep
<1>3. PlaceInv => CurrentIsInPlace
  BY DEF PlaceInv, CurrentIsInPlace, Idle, Stands, Old
<1>4. QED BY <1>1, <1>2, <1>3, Invariance, PTL DEF Spec

-----------------------------------------------------------------------------
(* When besides every node uses only what its inputs mention, and no       *)
(* output what an action gave, only a fault ends a command with an error.  *)

LevelsRespectDeps ==
  pc = "running" => \A n \in manifest.nodes : \A d \in Deps(manifest, n) : level[d] < level[n]

ErrorInv ==
  /\ outcome = "error" => faults > 0
  /\ pc = "running" /\ (broken # {} \/ phase # "running") => faults > 0
  /\ pc = "restoreAndReset" => faults > 0
  /\ pc = "clearCurrent" /\ cmd = "apply" => faults > 0

\* What a task may use has been completed when the task may end: an earlier
\* level holds it.
LEMMA UsesAreCompleted ==
  ASSUME IInv, PlaceInv, LevelsRespectDeps, AllValid, UsesAreMentioned,
         NEW n \in manifest.nodes, ME!MayEnd(n), pc = "running"
  PROVE  /\ Uses(manifest, n) \subseteq completed
         /\ n \in Build => Uses(manifest, n) \subseteq Build
         /\ Uses(manifest, n) = {d \in Node : <<d, n>> \in AllUses}
<1>1. /\ desired \in Configs /\ Old \in Sides
      /\ manifest = ExecutionOf(desired, Old) /\ ValidManifest(manifest)
  BY NoneRejected, ExecutionNodes DEF IInv, TypeOK, CommandOK, PlaceInv, Sides, Old, NodesOf
<1>2. Uses(manifest, n) \subseteq Deps(manifest, n)
  BY <1>1 DEF UsesAreMentioned
<1>3. Deps(manifest, n) \subseteq completed
  <2>1. \A d \in Deps(manifest, n) : d \in manifest.nodes /\ ME!Before(d, n)
    BY <1>1 DEF Deps, Incoming, Edges, LevelsRespectDeps, ME!Before
  <2>2. QED BY <2>1 DEF ME!MayEnd, IInv, ExecutionOK
<1>4. n \in Build => Deps(manifest, n) \subseteq Build
  BY <1>1 DEF Deps, Incoming, Edges, ValidManifest, BuildMentionsBind, ExecutionOf,
     ManifestOf, IInv, TypeOK, Manifest, Node
<1>5. Uses(manifest, n) = {d \in Node : <<d, n>> \in AllUses}
  BY <1>1 DEF Uses, ExecutionOf, ManifestOf
<1>6. QED BY <1>2, <1>3, <1>4, <1>5

\* So the placeholders of what is executed are always resolved.
LEMMA NeverUnresolved ==
  ASSUME IInv, PlaceInv, LevelsRespectDeps, AllValid, UsesAreMentioned,
         NEW n \in manifest.nodes, NodeUnresolved(n)
  PROVE  FALSE
<1>1. Uses(manifest, n) \subseteq completed
      /\ (n \in Build => Uses(manifest, n) \subseteq Build)
  BY UsesAreCompleted DEF NodeUnresolved, ME!Break
<1>2. Substitutes(manifest, n, completed)
  BY <1>1 DEF Substitutes
<1>3. QED BY <1>2 DEF NodeUnresolved

\* And those of a build in the store, when none is about its own actions.
LEMMA HitsNeverUnresolved ==
  ASSUME IInv, PlaceInv, LevelsRespectDeps, AllValid, UsesAreMentioned, HitsResolve,
         NEW n \in manifest.nodes, HitUnresolved(n)
  PROVE  FALSE
<1>1. /\ Uses(manifest, n) \subseteq completed /\ n \in Build
      /\ Uses(manifest, n) \subseteq Build
      /\ Uses(manifest, n) = {d \in Node : <<d, n>> \in AllUses}
  BY UsesAreCompleted DEF HitUnresolved, ME!Break, CacheHit
<1>2. \A d \in Node : <<d, n>> \in OutputUses => <<d, n>> \in AllUses
  BY <1>1, ApplyFlowAssumption DEF HitsResolve
<1>3. HitResolves(n)
  BY <1>1, <1>2 DEF HitResolves
<1>4. QED BY <1>3 DEF HitUnresolved

LEMMA LevelsStep ==
  ASSUME LevelsRespectDeps, [Next]_vars
  PROVE  LevelsRespectDeps'
<1>1. ASSUME pc' = pc, UNCHANGED <<manifest, level>> PROVE LevelsRespectDeps'
  BY <1>1 DEF LevelsRespectDeps
<1>2. ASSUME pc' # "running" PROVE LevelsRespectDeps'
  BY <1>2 DEF LevelsRespectDeps
<1>3. CASE UNCHANGED vars
  BY <1>1, <1>3 DEF vars, execution
<1>4. CASE Command
  BY <1>2, <1>4 DEF Command, Apply, Destroy
<1>5. CASE Environment
  BY <1>1, <1>2, <1>5 DEF Environment, Crash, ReturnWith, Return, Drift, execution
<1>6. ASSUME NEW x \in pending \cap Bind,
             \/ SkipDestroy(x) \/ DestroyBind(x) \/ DestroyFails(x) \/ DestroyUnresolved(x)
             \/ RestoreBind(x) \/ SaveState(x) \/ RemoveState(x) \/ RepairBind(x)
      PROVE  LevelsRespectDeps'
  <2>1. CASE DestroyFails(x) \/ DestroyUnresolved(x)
    BY <1>2, <2>1 DEF DestroyFails, DestroyUnresolved, LeaveDestroy, ReturnWith, Return,
       StartRestore
  <2>2. QED
    BY <1>1, <1>6, <2>1 DEF SkipDestroy, DestroyBind, RestoreBind, SaveState, RemoveState,
       RepairBind, execution
<1>7. ASSUME NEW p \in pending \cap (Bind \X Bind),
             \/ UpdateFails(p[1], p[2]) \/ CannotUpdate(p[1], p[2])
             \/ UpdateBind(p[1], p[2])
      PROVE  LevelsRespectDeps'
  BY <1>2, <1>7 DEF UpdateFails, CannotUpdate, UpdateBind, Step, ReturnWith, Return
<1>8. ASSUME NEW n \in manifest.nodes,
             \/ CompleteNode(n) \/ NodeUnresolved(n) \/ HitUnresolved(n) \/ BreakBuild(n)
             \/ BreakBind(n) \/ UndoBind(n) \/ UndoFails(n) \/ UndoUnresolved(n)
      PROVE  LevelsRespectDeps'
  BY <1>1, <1>8 DEF CompleteNode, NodeUnresolved, HitUnresolved, BreakBuild, BreakBind,
     UndoBind, UndoFails, UndoUnresolved, ME!Complete, ME!Break, ME!Undo, InExecution
<1>9. CASE StartExecution
  <2>1. level' \in ME!Levels(manifest')
    BY <1>9 DEF StartExecution, ME!Start
  <2>2. QED
    BY <2>1 DEF LevelsRespectDeps, ME!Levels, ME!Deps, ME!Incoming, ME!Edges, Deps,
       Incoming, Edges
<1>10. CASE GiveUp
  BY <1>1, <1>10 DEF GiveUp, ME!GiveUp, InExecution
<1>11. CASE \/ DestroyPhaseDone \/ SaveUpdatedState \/ RemoveOldState \/ UpdatePhaseDone
            \/ ExecutionSucceeded \/ StatesSaved \/ CleanupDone \/ Check \/ RepairDone
  BY <1>2, <1>11 DEF DestroyPhaseDone, SaveUpdatedState, RemoveOldState, UpdatePhaseDone,
     ExecutionSucceeded, StatesSaved, CleanupDone, Check, RepairDone, Step
<1>12. CASE \/ RestoreFails \/ RestoreUnresolved \/ RestoreDone \/ ClearCurrent
            \/ RejectManifest \/ ExecutionFailed \/ PartialCleanupDone
            \/ RepairFails \/ RepairUnresolved \/ Publish
  BY <1>2, <1>12 DEF RestoreFails, RestoreUnresolved, LeaveRestore, RestoreDone,
     ClearCurrent, RejectManifest, ExecutionFailed, StartRestore, PartialCleanupDone,
     RepairFails, RepairUnresolved, Publish, ReturnWith, Return
<1>13. QED
  BY <1>3, <1>4, <1>5, <1>6, <1>7, <1>8, <1>9, <1>10, <1>11, <1>12 DEF Next, Work

LEMMA ErrorStep ==
  ASSUME IInv, PlaceInv, LevelsRespectDeps, ErrorInv, Recoverable, UsesAreMentioned,
         HitsResolve, OnlyExecutionFails, [Next]_vars
  PROVE  ErrorInv'
<1> USE DEF Recoverable, ErrorInv
<1>0. faults \in Nat
  BY ApplyFlowAssumption DEF IInv, TypeOK
<1>1. CASE UNCHANGED vars
  BY <1>1 DEF vars, locals, execution, history
<1>2. CASE Command
  BY <1>2 DEF Command, Apply, Destroy
<1>3. ASSUME Environment PROVE FALSE
  BY <1>3 DEF Environment, Crash, ReturnWith, Drift, OnlyExecutionFails
<1>4. ASSUME NEW x \in pending \cap Bind,
             \/ SkipDestroy(x) \/ DestroyBind(x) \/ DestroyFails(x) \/ DestroyUnresolved(x)
             \/ RestoreBind(x) \/ SaveState(x) \/ RemoveState(x) \/ RepairBind(x)
      PROVE  ErrorInv'
  <2>1. ~DestroyFails(x) /\ ~DestroyUnresolved(x) /\ ~RepairBind(x)
    BY DEF DestroyFails, DestroyUnresolved, LeaveDestroy, DestroyResolves,
       DestroysResolve, ReturnWith, Fault, RepairBind, PlaceInv, OnlyExecutionFails
  <2>2. QED
    BY <1>4, <2>1 DEF SkipDestroy, DestroyBind, RestoreBind, Restoring, SaveState,
       RemoveState, NoFault, history, locals, execution
<1>5. ASSUME NEW p \in pending \cap (Bind \X Bind),
             \/ UpdateFails(p[1], p[2]) \/ CannotUpdate(p[1], p[2])
             \/ UpdateBind(p[1], p[2])
      PROVE  FALSE
  BY <1>5 DEF UpdateFails, CannotUpdate, UpdateBind, Step, PlaceInv
<1>6. ASSUME NEW n \in manifest.nodes,
             \/ CompleteNode(n) \/ NodeUnresolved(n) \/ HitUnresolved(n) \/ BreakBuild(n)
             \/ BreakBind(n) \/ UndoBind(n) \/ UndoFails(n) \/ UndoUnresolved(n)
      PROVE  ErrorInv'
  <2>1. ~NodeUnresolved(n) /\ ~HitUnresolved(n)
    BY <1>6, NeverUnresolved, HitsNeverUnresolved
  <2>2. CASE CompleteNode(n) \/ UndoBind(n) \/ UndoUnresolved(n)
    BY <2>2 DEF CompleteNode, UndoBind, UndoUnresolved, ME!Complete, ME!Undo, InExecution, NoFault,
       history, locals
  <2>3. CASE BreakBuild(n) \/ BreakBind(n) \/ UndoFails(n)
    BY <1>0, <2>3 DEF BreakBuild, BreakBind, UndoFails, ME!Break, ME!Undo, InExecution,
       Fault, locals
  <2>4. QED BY <1>6, <2>1, <2>2, <2>3
<1>7. ASSUME \/ SaveUpdatedState \/ RemoveOldState \/ RejectManifest
             \/ PartialCleanupDone \/ RepairFails \/ RepairUnresolved \/ RepairDone
      PROVE  FALSE
  BY <1>7, NoneRejected DEF SaveUpdatedState, RemoveOldState, RejectManifest,
     PartialCleanupDone, RepairFails, RepairUnresolved, RepairDone, Step, PlaceInv
<1>8. CASE \/ DestroyPhaseDone \/ UpdatePhaseDone \/ StatesSaved \/ CleanupDone \/ Check
  BY <1>8 DEF DestroyPhaseDone, LoadKnown, SameLocals, UpdatePhaseDone, StatesSaved,
     CleanupDone, Check, Step, NoFault, history, locals, execution
<1>9. CASE StartExecution
  BY <1>9 DEF StartExecution, ME!Start, Step, NoFault, history
<1>10. CASE GiveUp \/ ExecutionSucceeded
  BY <1>10 DEF GiveUp, ExecutionSucceeded, ME!GiveUp, ME!Succeed, InExecution, Step,
     NoFault, history, locals
<1>11. CASE ExecutionFailed
  <2>1. faults > 0 /\ faults' = faults
    BY <1>11 DEF ExecutionFailed, RolledBack, NoFault, history
  <2>2. pc' \in {"idle", "restoreAndReset"}
    BY <1>11 DEF ExecutionFailed, Return, StartRestore
  <2>3. QED BY <2>1, <2>2
<1>12. CASE RestoreFails \/ RestoreUnresolved
  <2>1. pc' = "clearCurrent" /\ faults' > 0
    BY <1>0, <1>12 DEF RestoreFails, RestoreUnresolved, LeaveRestore, Restoring,
       PlaceInv, Fault, NoFault, history
  <2>2. QED BY <2>1
<1>13. CASE RestoreDone \/ ClearCurrent \/ Publish
  <2>1. pc' = "idle" /\ faults' = faults
    BY <1>13 DEF RestoreDone, ClearCurrent, Publish, Return
  <2>2. outcome' = "error" => faults > 0
    BY <1>13 DEF RestoreDone, Restoring, ClearCurrent, Publish, Return, PlaceInv
  <2>3. QED BY <2>1, <2>2
<1>14. QED
  BY <1>1, <1>2, <1>3, <1>4, <1>5, <1>6, <1>7, <1>8, <1>9, <1>10, <1>11, <1>12, <1>13
     DEF Next, Work

\* When every destroy action can be resolved without the nodes of a manifest
\* and every output without the results of actions (what the conditions ask
\* besides valid manifests without updates whose nodes use what they mention),
\* a command during which nothing goes wrong does not end with an error,
\* whatever earlier commands have left behind.
THEOREM OnlyFaultsFail ==
  ASSUME Recoverable, UsesAreMentioned, HitsResolve, OnlyExecutionFails
  PROVE  Spec => []FailsOnlyOnFaults
<1> DEFINE Inv == IInv /\ PlaceInv /\ LevelsRespectDeps /\ ErrorInv
<1>1. Init => Inv
  BY Initially DEF Init, PlaceInv, ErrorInv, LevelsRespectDeps, Old, NodesOf
<1>2. Inv /\ [Next]_vars => Inv'
  BY NextStep, PlaceStep, LevelsStep, ErrorStep
<1>3. Inv => FailsOnlyOnFaults
  BY DEF ErrorInv, FailsOnlyOnFaults
<1>4. QED BY <1>1, <1>2, <1>3, PTL DEF Spec

-----------------------------------------------------------------------------
(* When only builds fail, the binds in place are known exactly, and a      *)
(* command takes effect as a whole.                                        *)

Rest == (Old \cap Bind) \ ToDestroy

InPlaceExactly ==
  /\ pc = "idle" => InPlace(world) = Old \cap Bind
  /\ pc = "destroying" => InPlace(world) = (Old \cap Bind) \ destroyed
  /\ pc \in {"update", "execute"} => InPlace(world) = Rest
  /\ pc = "running" /\ phase = "running" => InPlace(world) = Rest \cup (completed \cap Bind)
  /\ pc = "running" /\ phase # "running" => InPlace(world) = Rest \cup toUndo
  /\ pc = "restoreAndReset" => InPlace(world) = (Old \cap Bind) \ pending
  /\ pc \in {"saveStates"} \cup Executed => InPlace(world) = desired \cap Bind
  /\ pc = "clearCurrent" => InPlace(world) = {}

\* Only builds break, after everything their group waits for: so every bind
\* that is completed belongs to an earlier group and is recorded.
GroupsInOrder ==
  pc = "running" =>
    /\ level \in [manifest.nodes -> Int]
    /\ broken \subseteq Build /\ broken \cap completed = {}
    /\ phase = "running" =>
         /\ \A n \in completed, k \in manifest.nodes : ME!Before(k, n) => k \in completed
         /\ \A x \in completed \cap Bind, f \in broken : ME!Before(x, f)

ExactInv ==
  /\ settled = Old \cap Bind
  /\ InPlaceExactly
  /\ GroupsInOrder
  /\ pc = "restoreAndReset" => Old \cap Bind \subseteq known

LEMMA InPlaceAfter ==
  ASSUME TypeOK, NEW x \in Bind
  PROVE  /\ world' = [world EXCEPT ![x] = "present"] => InPlace(world') = InPlace(world) \cup {x}
         /\ world' = [world EXCEPT ![x] = "absent"] => InPlace(world') = InPlace(world) \ {x}
  BY DEF TypeOK, InPlace

\* What is left of the old snapshot and what is created make the new one.
LEMMA RestAndApplied ==
  ASSUME TypeOK, NothingUpdated
  PROVE  Rest \cup ToApply = desired \cap Bind
<1>1. Configuration(desired) /\ Configuration(Old) /\ ToUpdate = {}
      /\ ToApply \subseteq desired \cap Bind
  BY Configured, NoneUpdated
<1>2. \A x \in desired \cap Bind : x \in Old \/ x \in ToApply
  BY <1>1, NothingForgotten DEF ToApply, ToUpdate
<1>3. \A x \in Old \cap Bind : x \in desired \/ x \in ToDestroy
  BY <1>1, NothingLeftOver DEF ToDestroy, ToUpdate
<1>4. \A x \in Old \cap desired \cap Bind : x \notin ToDestroy
  BY <1>1, KeptIsUnchanged DEF ToDestroy
<1>5. QED BY <1>1, <1>2, <1>3, <1>4 DEF Rest

\* Of two nodes of different groups, one is before the other.
LEMMA BindOrBuildFirst ==
  ASSUME TypeOK, level \in [manifest.nodes -> Int],
         NEW x \in manifest.nodes \cap Bind, NEW f \in manifest.nodes \cap Build
  PROVE  ME!Before(f, x) \/ ME!Before(x, f)
<1>1. level[x] \in Int /\ level[f] \in Int
  OBVIOUS
<1>2. level[f] < level[x] \/ level[f] = level[x] \/ level[x] < level[f]
  BY <1>1
<1>3. QED BY <1>2 DEF ME!Before

LEMMA GroupsAfterComplete ==
  ASSUME IInv, GroupsInOrder, NEW n \in manifest.nodes, CompleteNode(n)
  PROVE  GroupsInOrder'
<1> USE DEF CompleteNode, ME!Complete, InExecution
<1>1. pc = "running" /\ phase = "running" /\ lost = {} /\ n \notin broken
      /\ \A k \in manifest.nodes : ME!Before(k, n) => k \in completed
  BY DEF ME!MayEnd, ME!Over, IInv, ExecutionOK
<1>2. \A a, b : ME!Before(a, b)' <=> ME!Before(a, b)
  BY DEF ME!Before
<1>3. ASSUME n \in Bind, NEW f \in broken PROVE ME!Before(n, f)
  <2>1. f \in manifest.nodes \cap Build /\ f \notin completed
    BY <1>1 DEF GroupsInOrder, IInv, TypeOK
  <2>2. QED BY <1>1, <1>3, <2>1, BindOrBuildFirst DEF GroupsInOrder, IInv
<1>4. QED BY <1>1, <1>2, <1>3 DEF GroupsInOrder

LEMMA GroupsAfterBreak ==
  ASSUME IInv, GroupsInOrder, NEW n \in manifest.nodes, BreakBuild(n) \/ HitUnresolved(n)
  PROVE  GroupsInOrder'
<1> USE DEF BreakBuild, HitUnresolved, CacheHit, ME!Break, InExecution
<1>1. pc = "running" /\ phase = "running" /\ lost = {} /\ n \notin completed /\ n \in Build
  BY DEF ME!MayEnd, ME!Over, IInv, ExecutionOK
<1>2. \A a, b : ME!Before(a, b)' <=> ME!Before(a, b)
  BY DEF ME!Before
<1>3. ASSUME NEW x \in completed \cap Bind PROVE ME!Before(x, n)
  <2>1. x \in manifest.nodes /\ ~ME!Before(n, x)
    BY <1>1 DEF GroupsInOrder, IInv, TypeOK
  <2>2. QED BY <1>1, <2>1, BindOrBuildFirst DEF GroupsInOrder, IInv
<1>4. QED BY <1>1, <1>2, <1>3 DEF GroupsInOrder

LEMMA ReturnedExact ==
  ASSUME NEW result, Return(result), InPlace(world') = Old' \cap Bind
  PROVE  ExactInv'
  BY DEF Return, ResetLocals, DiscardExecution, ExactInv, InPlaceExactly, GroupsInOrder

LEMMA ExactDestroyBind ==
  ASSUME IInv, PlaceInv, ExactInv, NEW x \in Bind, DestroyBind(x)
  PROVE  ExactInv'
<1> USE DEF DestroyBind, disk, locals, execution, NoFault, history
<1>1. UNCHANGED <<Old, ToDestroy, ToApply, Rest>>
  BY SameDiff DEF Rest
<1>2. InPlace(world') = InPlace(world) \ {x}
  BY InPlaceAfter DEF IInv
<1>3. QED
  BY <1>1, <1>2 DEF ExactInv, InPlaceExactly, GroupsInOrder

LEMMA ExactRestoreBind ==
  ASSUME IInv, PlaceInv, ExactInv, NEW x \in Bind, RestoreBind(x)
  PROVE  ExactInv'
<1> USE DEF RestoreBind, Restoring, disk, locals, execution, NoFault,
      history
<1>1. UNCHANGED <<Old, ToDestroy, ToApply, Rest>>
  BY SameDiff DEF Rest
<1>2. InPlace(world') = InPlace(world) \cup {x}
  BY InPlaceAfter DEF IInv
<1>3. x \in pending /\ x \in Old /\ pc = "restoreAndReset"
  BY Configured DEF IInv, PendingOK, PlaceInv, WaveToRestore
<1>4. InPlace(world') = (Old \cap Bind) \ pending'
  BY <1>2, <1>3 DEF ExactInv, InPlaceExactly
<1>5. QED
  BY <1>1, <1>4, <1>3 DEF ExactInv, InPlaceExactly, GroupsInOrder

LEMMA ExactFileStep ==
  ASSUME IInv, PlaceInv, ExactInv,
         (\E x \in Bind : SaveState(x) \/ RemoveState(x)) \/ StatesSaved \/ Check
  PROVE  ExactInv'
<1> USE DEF SaveState, RemoveState, StatesSaved, Check, Step, InPlace, disk,
      locals, execution, NoFault, history
<1>1. UNCHANGED <<Old, ToDestroy, ToApply, Rest>>
  BY SameDiff DEF Rest
<1>2. QED
  BY <1>1 DEF ExactInv, InPlaceExactly, GroupsInOrder

LEMMA ExactDestroyDone ==
  ASSUME IInv, PlaceInv, ExactInv, NothingUpdated, DestroyPhaseDone
  PROVE  ExactInv'
<1> USE DEF DestroyPhaseDone, LoadKnown, SameLocals, disk, locals,
      execution, NoFault, history
<1>1. UNCHANGED <<Old, ToDestroy, ToApply, Rest>>
  BY SameDiff DEF Rest
<1>2. destroyed = ToDestroy
  BY DEF IInv, PendingOK, PlaceInv
<1>3. cmd # "apply" => desired = {} /\ ToDestroy = Old \cap Bind
  BY Configured, DiffWithNothing DEF IInv, CommandOK, ToDestroy
<1>4. QED
  BY <1>1, <1>2, <1>3 DEF ExactInv, InPlaceExactly, GroupsInOrder, Rest

LEMMA ExactUpdateDone ==
  ASSUME IInv, PlaceInv, ExactInv, UpdatePhaseDone
  PROVE  ExactInv'
<1> USE DEF UpdatePhaseDone, Step, disk, locals, execution, NoFault, history
<1>1. UNCHANGED <<Old, ToDestroy, ToApply, Rest>>
  BY SameDiff DEF Rest
<1>2. QED
  BY <1>1 DEF ExactInv, InPlaceExactly, GroupsInOrder

LEMMA ExactStart ==
  ASSUME IInv, PlaceInv, ExactInv, StartExecution
  PROVE  ExactInv'
<1> USE DEF StartExecution, Step, ME!Start, disk, locals, execution,
      NoFault, history
<1>1. UNCHANGED <<Old, ToDestroy, ToApply, Rest>>
  BY SameDiff DEF Rest
<1>2. level' \in [manifest'.nodes -> Int]
  BY DEF ME!Levels
<1>3. InPlace(world)' = InPlace(world)
  BY DEF InPlace
<1>4. QED
  BY <1>1, <1>2, <1>3 DEF ExactInv, InPlaceExactly, GroupsInOrder

LEMMA ExactComplete ==
  ASSUME IInv, PlaceInv, ExactInv, NEW n \in manifest.nodes, CompleteNode(n)
  PROVE  ExactInv'
<1> USE DEF CompleteNode, ME!Complete, ME!MayEnd, InExecution, disk, locals,
      execution, NoFault, history
<1>1. UNCHANGED <<Old, ToDestroy, ToApply, Rest>>
  BY SameDiff DEF Rest
<1>2. GroupsInOrder'
  BY GroupsAfterComplete DEF ExactInv
<1>3. n \in Node
  BY DEF IInv, TypeOK, Manifest
<1>4. InPlace(world') \cap Bind = (InPlace(world) \cup {n}) \cap Bind
  BY <1>3, InPlaceAfter, DagAssumption DEF IInv, Node, InPlace
<1>5. InPlace(world') \subseteq Bind /\ InPlace(world) \subseteq Bind /\ Rest \subseteq Bind
  BY DEF InPlace, Rest
<1>6. QED
  BY <1>1, <1>2, <1>4, <1>5 DEF ExactInv, InPlaceExactly

LEMMA ExactBreakBuild ==
  ASSUME IInv, PlaceInv, ExactInv, NEW n \in manifest.nodes,
         BreakBuild(n) \/ HitUnresolved(n)
  PROVE  ExactInv'
<1> USE DEF BreakBuild, HitUnresolved, Fault, NoFault, history, ME!Break, ME!MayEnd,
      InExecution, locals
<1>1. UNCHANGED <<Old, ToDestroy, ToApply, Rest>>
  BY SameDiff DEF Rest
<1>2. GroupsInOrder'
  BY GroupsAfterBreak DEF ExactInv
<1>3. InPlace(world)' = InPlace(world)
  BY DEF InPlace
<1>4. QED
  BY <1>1, <1>2, <1>3 DEF ExactInv, InPlaceExactly

LEMMA ExactUndo ==
  ASSUME IInv, PlaceInv, ExactInv, NEW n \in Bind, UndoBind(n)
  PROVE  ExactInv'
<1> USE DEF UndoBind, ME!Undo, InExecution, disk, locals, execution,
      NoFault, history
<1>1. UNCHANGED <<Old, ToDestroy, ToApply, Rest>>
  BY SameDiff DEF Rest
<1>2. InPlace(world') = InPlace(world) \ {n}
  BY InPlaceAfter DEF IInv
<1>3. n \notin Rest
  BY ChangedOnly DEF IInv, TypeOK, ExecutionOK, Rest
<1>4. InPlace(world') = Rest \cup toUndo'
  BY <1>2, <1>3 DEF ExactInv, InPlaceExactly
<1>5. QED
  BY <1>1, <1>4 DEF ExactInv, InPlaceExactly, GroupsInOrder

LEMMA ExactGiveUp ==
  ASSUME IInv, PlaceInv, ExactInv, GiveUp
  PROVE  ExactInv'
<1> USE DEF GiveUp, InExecution, ME!GiveUp, disk, locals, execution,
      NoFault, history
<1>1. UNCHANGED <<Old, ToDestroy, ToApply, Rest>>
  BY SameDiff DEF Rest
<1>2. InPlace(world)' = InPlace(world)
  BY DEF InPlace
<1>3. toUndo' = completed \cap Bind
  BY DEF ExactInv, GroupsInOrder
<1>4. QED
  BY <1>1, <1>2, <1>3 DEF ExactInv, InPlaceExactly, GroupsInOrder

LEMMA ExactSucceed ==
  ASSUME IInv, PlaceInv, ExactInv, NothingUpdated, ExecutionSucceeded
  PROVE  ExactInv'
<1> USE DEF ExecutionSucceeded, Step, ME!Succeed, disk, locals, execution,
      NoFault, history
<1>1. UNCHANGED <<Old, ToDestroy, ToApply, Rest>>
  BY SameDiff DEF Rest
<1>2. InPlace(world)' = InPlace(world)
  BY DEF InPlace
<1>3. completed \cap Bind = ToApply
  BY DEF IInv, ExecutionOK, ME!Over
<1>4. Rest \cup ToApply = desired \cap Bind
  BY RestAndApplied DEF IInv
<1>5. QED
  BY <1>1, <1>2, <1>3, <1>4 DEF ExactInv, InPlaceExactly, GroupsInOrder

LEMMA ExactCleanupDone ==
  ASSUME IInv, PlaceInv, ExactInv, CleanupDone
  PROVE  ExactInv'
<1> USE DEF CleanupDone, Step, disk, locals, execution, NoFault, history
<1>1. UNCHANGED <<Old, ToDestroy, ToApply, Rest>>
  BY SameDiff DEF Rest
<1>2. InPlace(world)' = InPlace(world)
  BY DEF InPlace
<1>3. cmd # "apply" => desired = {}
  BY DEF IInv, CommandOK
<1>4. QED
  BY <1>1, <1>2, <1>3 DEF ExactInv, InPlaceExactly, GroupsInOrder

LEMMA ExactApply ==
  ASSUME IInv, PlaceInv, ExactInv, BuildsFollowBinds, NEW c \in Configs, NEW r \in BOOLEAN,
         Apply(c, r)
  PROVE  ExactInv'
<1> USE DEF Apply
<1>1. /\ desired' = c /\ Old' = Old /\ NodesOf(current) = Old /\ world' = world
      /\ settled' = settled /\ pc = "idle" /\ destroyed' = {}
      /\ Old \in Sides /\ c \in Sides
  BY DEF disk, Old, NodesOf, IInv, TypeOK, CommandOK, Sides
<1>2. pc' = "check" => c = Old
  BY <1>1, EmptyDiffIsSame
<1>3. QED
  BY <1>1, <1>2 DEF ExactInv, InPlaceExactly, GroupsInOrder

LEMMA ExactDestroy ==
  ASSUME IInv, ExactInv, Destroy
  PROVE  ExactInv'
<1> USE DEF Destroy
<1>1. Old' = Old /\ current = Old /\ world' = world /\ settled' = settled
      /\ pc = "idle" /\ destroyed' = {}
  BY DEF disk, Old, NodesOf, IInv, CommandOK
<1>2. QED
  BY <1>1 DEF ExactInv, InPlaceExactly, GroupsInOrder

LEMMA ExactExecutionFailed ==
  ASSUME IInv, PlaceInv, ExactInv, ExecutionFailed
  PROVE  ExactInv'
<1> USE DEF ExecutionFailed, ToRestore, disk
<1>1. InPlace(world) = Rest /\ destroyed = ToDestroy /\ ToDestroy \subseteq Old \cap Bind
  BY Configured DEF RolledBack, ExactInv, InPlaceExactly, IInv, PendingOK, PlaceInv
<1>2. CASE destroyed = {}
  <2>1. Return("error") /\ InPlace(world') = Old' \cap Bind
    BY <1>1, <1>2 DEF Rest, Old
  <2>2. QED BY <2>1, ReturnedExact
<1>3. CASE destroyed # {}
  <2>1. /\ pc' = "restoreAndReset" /\ pending' = destroyed /\ known' = bindState
        /\ UNCHANGED <<Old, world, settled>>
    BY <1>3 DEF StartRestore, LoadKnown, NoFault, history, Old
  <2>2. Old \cap Bind \subseteq bindState
    BY <1>1 DEF PlaceInv, Stands, IInv, DestroyedOK
  <2>3. InPlace(world') = (Old' \cap Bind) \ pending'
    BY <1>1, <2>1 DEF Rest
  <2>4. QED
    BY <2>1, <2>2, <2>3 DEF ExactInv, InPlaceExactly, GroupsInOrder
<1>4. QED BY <1>2, <1>3

\* A restore finds all it needs: what a bind of the snapshot uses is in the
\* snapshot, and the outputs of its binds are all known.
LEMMA RestoreResolves ==
  ASSUME IInv, PlaceInv, ExactInv, UsesAreMentioned, RestoreUnresolved
  PROVE  FALSE
<1>1. PICK x \in WaveToRestore : ~CanResolve(x, NodesOf(current))
  BY DEF RestoreUnresolved
<1>2. pc = "restoreAndReset" /\ x \in Old \cap Bind
  BY Configured DEF RestoreUnresolved, Restoring, PlaceInv, WaveToRestore, IInv, PendingOK
<1>3. Old \in Configs /\ {} \in Sides /\ Old \subseteq Node
  BY <1>2, Configured DEF Old, NodesOf, IInv, TypeOK, Sides
<1>4. Configuration(Old) /\ Configuration({})
  BY Configured, DiffWithNothing DEF IInv
<1> DEFINE m == ExecutionOf(Old, {})
<1>5. x \in binds_to_apply(Old, {})
  <2>1. binds_to_update(Old, {}) = {}
    BY <1>4, DiffTypes
  <2>2. QED BY <1>2, <1>4, <2>1, NothingForgotten
<1>6. x \in m.nodes /\ m.nodes \subseteq Old
  BY <1>3, <1>4, <1>5, DiffTypes DEF ExecutionOf, ManifestOf
<1>7. Uses(m, x) \subseteq Old
  BY <1>3, <1>6 DEF UsesAreMentioned, Deps, Incoming, Edges
<1>8. Uses(ManifestOf({x}), x) = Uses(m, x)
  BY <1>6 DEF Uses, ExecutionOf, ManifestOf
<1>9. Old \subseteq Build \cup known
  BY <1>2, <1>3 DEF ExactInv, Node
<1>10. x \notin Build
  BY <1>2, DagAssumption
<1>11. QED
  BY <1>1, <1>7, <1>8, <1>9, <1>10 DEF CanResolve, Substitutes, Old


LEMMA ExactStep ==
  ASSUME IInv, PlaceInv, LevelsRespectDeps, ExactInv, Recoverable, UsesAreMentioned,
         OnlyBuildsFail, [Next]_vars
  PROVE  ExactInv' /\ (AA!Next \/ UNCHANGED current)
<1> USE DEF Recoverable
<1>0. \A kind \in Faults : kind \in {"build", "repair"}
  BY DEF OnlyBuildsFail
<1>1. CASE UNCHANGED vars
  BY <1>1 DEF vars, disk, locals, execution, history, ExactInv, InPlaceExactly, InPlace,
     GroupsInOrder, ME!Before, Rest, Old, ToDestroy
<1>2. CASE Command
  BY <1>2, ExactApply, ExactDestroy DEF Command, Apply, Destroy, disk
<1>3. ASSUME Environment PROVE FALSE
  BY <1>0, <1>3 DEF Environment, Crash, ReturnWith, Drift
<1>4. ASSUME NEW x \in pending \cap Bind,
             \/ SkipDestroy(x) \/ DestroyBind(x) \/ DestroyFails(x) \/ DestroyUnresolved(x)
             \/ RestoreBind(x) \/ SaveState(x) \/ RemoveState(x) \/ RepairBind(x)
      PROVE  ExactInv' /\ UNCHANGED current
  <2>1. ~SkipDestroy(x) /\ ~DestroyFails(x) /\ ~DestroyUnresolved(x) /\ ~RepairBind(x)
    BY <1>0 DEF SkipDestroy, DestroyFails, DestroyUnresolved, LeaveDestroy,
       DestroyResolves, DestroysResolve, ReturnWith, Fault, RepairBind, PlaceInv, Stands
  <2>2. ExactInv'
    BY <1>4, <2>1, ExactDestroyBind, ExactRestoreBind, ExactFileStep
  <2>3. UNCHANGED current
    BY <1>4, <2>1 DEF DestroyBind, RestoreBind, SaveState, RemoveState, disk
  <2>4. QED BY <2>2, <2>3
<1>5. ASSUME NEW p \in pending \cap (Bind \X Bind),
             \/ UpdateFails(p[1], p[2]) \/ CannotUpdate(p[1], p[2])
             \/ UpdateBind(p[1], p[2])
      PROVE  FALSE
  BY <1>5 DEF UpdateFails, CannotUpdate, UpdateBind, Step, PlaceInv
<1>6. ASSUME NEW n \in manifest.nodes,
             \/ CompleteNode(n) \/ NodeUnresolved(n) \/ HitUnresolved(n) \/ BreakBuild(n)
             \/ BreakBind(n) \/ UndoBind(n) \/ UndoFails(n) \/ UndoUnresolved(n)
      PROVE  ExactInv' /\ UNCHANGED current
  <2>1. ~NodeUnresolved(n) /\ ~BreakBind(n) /\ ~UndoFails(n) /\ ~UndoUnresolved(n)
    BY <1>0, NeverUnresolved DEF BreakBind, UndoFails, UndoUnresolved, DestroyResolves,
       DestroysResolve, Fault
  <2>2. UndoBind(n) => n \in Bind
    BY DEF IInv, ExecutionOK, UndoBind, ME!Undo
  <2>3. ExactInv'
    BY <1>6, <2>1, <2>2, ExactComplete, ExactBreakBuild, ExactUndo
  <2>4. UNCHANGED current
    BY <1>6, <2>1 DEF CompleteNode, HitUnresolved, BreakBuild, UndoBind, InExecution
  <2>5. QED BY <2>3, <2>4
<1>7. ASSUME \/ SaveUpdatedState \/ RemoveOldState \/ RejectManifest
             \/ PartialCleanupDone \/ RepairFails \/ RepairUnresolved \/ RepairDone
      PROVE  FALSE
  BY <1>7, NoneRejected DEF SaveUpdatedState, RemoveOldState, RejectManifest,
     PartialCleanupDone, RepairFails, RepairUnresolved, RepairDone, Step, PlaceInv
<1>8. ASSUME \/ DestroyPhaseDone \/ UpdatePhaseDone \/ StartExecution \/ GiveUp
             \/ ExecutionFailed \/ ExecutionSucceeded \/ StatesSaved \/ CleanupDone \/ Check
      PROVE  ExactInv' /\ UNCHANGED current
  <2>1. ExactInv'
    BY <1>8, ExactDestroyDone, ExactUpdateDone, ExactStart, ExactGiveUp,
       ExactExecutionFailed, ExactSucceed, ExactFileStep, ExactCleanupDone
  <2>2. UNCHANGED current
    BY <1>8 DEF DestroyPhaseDone, UpdatePhaseDone, StartExecution, GiveUp, InExecution,
       ExecutionFailed, ExecutionSucceeded, StatesSaved, CleanupDone, Check, disk
  <2>3. QED BY <2>1, <2>2
<1>9. ASSUME RestoreFails \/ RestoreUnresolved PROVE FALSE
  BY <1>0, <1>9, RestoreResolves DEF RestoreFails, LeaveRestore, ReturnWith, Fault, PlaceInv
<1>10. CASE RestoreDone
  <2>1. Return("error") /\ InPlace(world') = Old' \cap Bind /\ UNCHANGED current
    BY <1>10 DEF RestoreDone, Restoring, PlaceInv, ExactInv, InPlaceExactly, InPlace, disk, Old
  <2>2. QED BY <2>1, ReturnedExact
<1>11. CASE ClearCurrent
  <2>1. /\ current' = NoConfig /\ Old' = {} /\ InPlace(world') = {} /\ settled' = {}
        /\ \E result : Return(result)
    BY <1>11 DEF ClearCurrent, Return, ExactInv, InPlaceExactly, InPlace, Old, NodesOf
  <2>2. AA!Next
    BY <2>1 DEF AA!Next, AA!Destroy
  <2>3. QED BY <2>1, <2>2, ReturnedExact
<1>12. CASE Publish
  <2>1. desired \in Configs /\ NodesOf(desired) = desired
    BY <1>12, ApplyFlowAssumption DEF Publish, IInv, CommandOK, NodesOf
  <2>2. /\ current' = desired /\ Old' = desired /\ Return("ok")
        /\ InPlace(world') = desired \cap Bind /\ settled' = desired \cap Bind
    BY <1>12, <2>1 DEF Publish, Snapshot, Return, ExactInv, InPlaceExactly, InPlace, Old
  <2>3. AA!Next
    BY <2>1, <2>2 DEF AA!Next, AA!Apply
  <2>4. QED BY <2>2, <2>3, ReturnedExact
<1>13. QED
  BY <1>1, <1>2, <1>3, <1>4, <1>5, <1>6, <1>7, <1>8, <1>9, <1>10, <1>11, <1>12
     DEF Next, Work

\* The refinement: when only builds fail, also those in the store whose outputs
\* can not be resolved, and the configurations are recoverable, what is in place
\* at the end of each command changes as AtomicApply says: a command takes
\* effect at once as a whole, or not at all.
THEOREM AtomicWhenBuildsFail ==
  ASSUME Recoverable, UsesAreMentioned, OnlyBuildsFail
  PROVE  Spec => ImplementsAtomicApply
<1> DEFINE Inv == IInv /\ PlaceInv /\ LevelsRespectDeps /\ ExactInv
<1>1. OnlyExecutionFails
  BY DEF OnlyBuildsFail, OnlyExecutionFails
<1>2. Init => Inv /\ AA!Init
  <2>1. Init => PlaceInv /\ LevelsRespectDeps
    BY DEF Init, PlaceInv, LevelsRespectDeps, Old, NodesOf
  <2>2. Init => ExactInv /\ AA!Init
    BY DEF Init, ExactInv, InPlaceExactly, InPlace, GroupsInOrder, Old, NodesOf, AA!Init
  <2>3. QED BY <2>1, <2>2, Initially
<1>3. Inv /\ [Next]_vars => Inv' /\ (AA!Next \/ UNCHANGED current)
  BY <1>1, NextStep, PlaceStep, LevelsStep, ExactStep
<1>4. Inv /\ [Next]_vars => [AA!Next]_(AA!vars)
  <2> SUFFICES ASSUME Inv, [Next]_vars, UNCHANGED current PROVE UNCHANGED settled
    BY <1>3 DEF AA!vars
  <2>1. ExactInv /\ ExactInv'
    BY <1>3
  <2>2. QED BY <2>1 DEF ExactInv, Old
<1>5. QED
  BY <1>2, <1>3, <1>4, PTL DEF Spec, ImplementsAtomicApply, AA!Spec

=============================================================================
