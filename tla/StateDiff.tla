------------------------------ MODULE StateDiff ------------------------------
(***************************************************************************)
(* compute_diff (snapshot/diff.rs): what has to change to go from the      *)
(* binds and builds of the current snapshot to those of a configuration.   *)
(* A configuration is the set of its nodes: hashes are content addresses,  *)
(* so a hash fixes its id, its references and whether it has an update.    *)
(***************************************************************************)
EXTENDS Dag

CONSTANTS
  Id,          \* the id of a bind, NoId for a bind without one
  NoId,
  Updatable    \* binds whose definition has update_actions

\* sys.bind refuses a second bind with the same id.
UniqueIds(nodes) ==
  \A x, y \in nodes \cap Bind : Id[x] = Id[y] /\ Id[x] # NoId => x = y

WithId(nodes) == {x \in nodes \cap Bind : Id[x] # NoId}
WithoutId(nodes) == {x \in nodes \cap Bind : Id[x] = NoId}

HasIdIn(x, nodes) == \E y \in WithId(nodes) : Id[y] = Id[x]

binds_to_update(desired, current) ==
  {p \in WithId(current) \X WithId(desired) :
     Id[p[1]] = Id[p[2]] /\ p[1] # p[2] /\ p[2] \in Updatable}

\* Mutant: a bind that is the same counts as changed.
RecreatedAlways(desired, current) ==
  {p \in WithId(current) \X WithId(desired) :
     Id[p[1]] = Id[p[2]] /\ p[2] \notin Updatable}

\* Pairs with one id and two hashes where the new bind has no update.
Recreated(desired, current) ==
  {p \in WithId(current) \X WithId(desired) :
     Id[p[1]] = Id[p[2]] /\ p[1] # p[2] /\ p[2] \notin Updatable}

binds_unchanged(desired, current) ==
  (WithId(desired) \cap WithId(current))
    \cup (WithoutId(desired) \cap WithoutId(current))

binds_to_apply(desired, current) ==
  {p[2] : p \in Recreated(desired, current)}
    \cup {x \in WithId(desired) : ~HasIdIn(x, current)}
    \cup (WithoutId(desired) \ WithoutId(current))

binds_to_destroy(desired, current) ==
  {p[1] : p \in Recreated(desired, current)}
    \cup {x \in WithId(current) : ~HasIdIn(x, desired)}
    \cup (WithoutId(current) \ WithoutId(desired))

\* onDisk: the builds whose directory exists, complete or not.
builds_to_realize(desired, onDisk) == (desired \cap Build) \ onDisk

builds_orphaned(desired, current) == (current \cap Build) \ desired

DiffIsEmpty(desired, current, onDisk) ==
  /\ builds_to_realize(desired, onDisk) = {}
  /\ builds_orphaned(desired, current) = {}
  /\ binds_to_apply(desired, current) = {}
  /\ binds_to_destroy(desired, current) = {}
  /\ binds_to_update(desired, current) = {}

=============================================================================
