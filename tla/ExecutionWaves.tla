--------------------------- MODULE ExecutionWaves ---------------------------
(***************************************************************************)
(* How a manifest becomes parallel waves: ExecutionDag::from_manifest,     *)
(* then the loop that execution_waves and build_waves share (Kahn's        *)
(* algorithm by levels).  One action per step of the loop; the iteration   *)
(* order of the code's HashSet is the choice of the node in AssignLevel.   *)
(***************************************************************************)
EXTENDS Dag

CONSTANT Manifests     \* the manifests the program may be given

ASSUME ManifestsAssumption ==
  \A m \in Manifests : m \in Manifest /\ IsFiniteSet(m.refs)

VARIABLES
  manifest,      \* the argument of from_manifest; never changes
  status,        \* where the computation is, or how it ended
  remaining,     \* nodes with no level yet
  inDegree,      \* incoming edges whose source has no level yet
  level,         \* node_level
  currentLevel,
  ready          \* nodes of the level being assigned, not assigned yet

vars == <<manifest, status, remaining, inDegree, level, currentLevel, ready>>

NoLevel == -1

Ended == {"Waves", "InvalidManifest", "CycleDetected"}

TypeOK ==
  /\ manifest \in Manifests
  /\ status \in {"from_manifest", "levels"} \cup Ended
  /\ remaining \subseteq manifest.nodes
  /\ inDegree \in [Node -> Nat]
  /\ level \in [Node -> Nat \cup {NoLevel}]
  /\ currentLevel \in Nat
  /\ ready \subseteq remaining

Init ==
  /\ manifest \in Manifests
  /\ status = "from_manifest"
  /\ remaining = {}
  /\ inDegree = [n \in Node |-> 0]
  /\ level = [n \in Node |-> NoLevel]
  /\ currentLevel = 0
  /\ ready = {}

-----------------------------------------------------------------------------

Reject ==
  /\ status = "from_manifest"
  /\ ~ValidManifest(manifest)
  /\ status' = IF BuildMentionsBind(manifest)
               THEN "InvalidManifest" ELSE "CycleDetected"
  /\ UNCHANGED <<manifest, remaining, inDegree, level, currentLevel, ready>>

FromManifest ==
  /\ status = "from_manifest"
  /\ ValidManifest(manifest)
  /\ status' = "levels"
  /\ remaining' = manifest.nodes
  /\ inDegree' = [n \in Node |-> Cardinality(Incoming(manifest, n))]
  /\ UNCHANGED <<manifest, level, currentLevel, ready>>

\* Mutant: nodes with one open edge.
NearlySourceFree == {n \in remaining : inDegree[n] <= 1}

SourceFree == {n \in remaining : inDegree[n] = 0}

SelectReady ==
  /\ status = "levels"
  /\ ready = {}
  /\ remaining # {}
  /\ ready' = SourceFree
  /\ status' = IF SourceFree = {} THEN "CycleDetected" ELSE status
  /\ UNCHANGED <<manifest, remaining, inDegree, level, currentLevel>>

\* Mutant: the in-degree loses one per dependency, as with a set of hashes.
DecrementedOnce(n) ==
  [k \in Node |-> IF n \in Deps(manifest, k) /\ inDegree[k] > 0
                  THEN inDegree[k] - 1 ELSE inDegree[k]]

\* petgraph yields a neighbour once per edge, so a dependent that mentions n
\* twice is decremented twice; the subtraction saturates at zero.
Decremented(n) ==
  [k \in Node |->
     LET edges == Cardinality({e \in Edges(manifest) : e[1] = n /\ e[2] = k})
     IN  IF inDegree[k] >= edges THEN inDegree[k] - edges ELSE 0]

\* Mutant: the level goes up with every node.
LevelPerNode(n) == currentLevel + 1

NextLevel(n) == IF ready = {n} THEN currentLevel + 1 ELSE currentLevel

AssignLevel(n) ==
  /\ status = "levels"
  /\ n \in ready
  /\ level' = [level EXCEPT ![n] = currentLevel]
  /\ remaining' = remaining \ {n}
  /\ ready' = ready \ {n}
  /\ inDegree' = Decremented(n)
  /\ currentLevel' = NextLevel(n)
  /\ UNCHANGED <<manifest, status>>

Finish ==
  /\ status = "levels"
  /\ remaining = {}
  /\ status' = "Waves"
  /\ UNCHANGED <<manifest, remaining, inDegree, level, currentLevel, ready>>

Next ==
  \/ Reject
  \/ FromManifest
  \/ SelectReady
  \/ \E n \in ready : AssignLevel(n)
  \/ Finish

Spec == Init /\ [][Next]_vars

-----------------------------------------------------------------------------
(* The waves returned: one set per level, empty ones removed.  build_waves *)
(* keeps the builds of every level, execution_waves all the nodes.         *)

\* The levels that nodes of a kind have: those of the waves that are not empty.
LevelsOf(kind) == {level[n] : n \in kind}

\* Without the empty ones, a wave comes after as many as there are below it.
WavesOf(kind) ==
  [i \in 1 .. Cardinality(LevelsOf(kind)) |->
     {n \in kind : Cardinality({l \in LevelsOf(kind) : l < level[n]}) = i - 1}]

execution_waves == WavesOf(manifest.nodes)
build_waves == WavesOf(manifest.nodes \cap Build)

-----------------------------------------------------------------------------

Assigned == {n \in manifest.nodes : level[n] # NoLevel}

\* The counter the loop decrements is the number of edges from nodes that
\* still have no level, repeated mentions of a hash included.
InDegreeCounts ==
  status \in {"levels", "Waves"} =>
    \A n \in manifest.nodes :
      inDegree[n] = Cardinality({e \in Incoming(manifest, n) :
                                   e[1] \in remaining})

\* A node gets a level only after everything it depends on, and a higher
\* one: two nodes of one wave never depend on each other.
DepsAtLowerLevels ==
  \A n \in Assigned : \A d \in Deps(manifest, n) :
    d \in Assigned /\ level[d] < level[n]

\* No node waits longer than it must: above level 0 there is a dependency
\* on the level just below.
LevelsTight ==
  \A n \in Assigned :
    level[n] > 0 => \E d \in Deps(manifest, n) : level[d] = level[n] - 1

\* execution_waves never reports a cycle in a graph from_manifest accepted:
\* CycleDetected is the answer exactly when the references form a cycle.
CycleDetectedOnlyIfCyclic ==
  status = "CycleDetected" => ~Acyclic(manifest)

\* Dropping empty levels keeps the waves ordered, those of execution_waves and
\* those of build_waves: a node comes in a strictly later one than what it
\* depends on; and execution_waves has every node.
WavesOrdered ==
  status = "Waves" =>
    /\ \A waves \in {execution_waves, build_waves} : \A i, j \in DOMAIN waves :
         \A n \in waves[i], d \in waves[j] : d \in Deps(manifest, n) => j < i
    /\ manifest.nodes = UNION {execution_waves[i] : i \in DOMAIN execution_waves}

=============================================================================
