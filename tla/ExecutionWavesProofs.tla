------------------------ MODULE ExecutionWavesProofs ------------------------
(***************************************************************************)
(* Kahn's loop is correct for every manifest: levels respect dependencies, *)
(* no level is higher than it must be, the in-degree counter is exact, and *)
(* a graph from_manifest accepted is never reported as cyclic.             *)
(***************************************************************************)
EXTENDS ExecutionWaves, FiniteSetTheorems, TLAPS

\* Which nodes have a level, in each phase.
Progress ==
  /\ status = "from_manifest" => ready = {} /\ currentLevel = 0
  /\ status = "levels" => ValidManifest(manifest)
  /\ status \in {"levels", "Waves"} =>
       \A n \in manifest.nodes : level[n] = NoLevel <=> n \in remaining
  /\ status \notin {"levels", "Waves"} => level = [n \in Node |-> NoLevel]
  /\ status = "Waves" => remaining = {}

\* Assigned levels are at most the current one, below it between levels.
LevelsBelowCurrent ==
  \A n \in Assigned :
    level[n] <= currentLevel /\ (ready = {} => level[n] < currentLevel)

\* The nodes of the level being assigned have all their dependencies on
\* lower levels, one of them just below.
ReadyNodes ==
  \A n \in ready :
    /\ \A d \in Deps(manifest, n) : d \in Assigned /\ level[d] < currentLevel
    /\ currentLevel > 0 =>
         \E d \in Deps(manifest, n) : level[d] = currentLevel - 1

\* A node that is not ready has a dependency that keeps it waiting: one
\* with no level, or one on the last level that was begun.
LastLevel == IF ready = {} THEN currentLevel - 1 ELSE currentLevel

WaitingNodes ==
  status = "levels" =>
    \A n \in remaining \ ready :
      \/ LastLevel = -1
      \/ \E d \in Deps(manifest, n) : d \in remaining \/ level[d] = LastLevel

IInv ==
  /\ TypeOK
  /\ Progress
  /\ InDegreeCounts
  /\ DepsAtLowerLevels
  /\ LevelsTight
  /\ CycleDetectedOnlyIfCyclic
  /\ LevelsBelowCurrent
  /\ ReadyNodes
  /\ WaitingNodes

-----------------------------------------------------------------------------

\* Dependencies are nodes of the manifest.
LEMMA DepsAreNodes ==
  ASSUME NEW m, NEW n
  PROVE  Deps(m, n) \subseteq m.nodes
BY DEF Deps, Incoming, Edges

Into(m, k, S) == {e \in Incoming(m, k) : e[1] \in S}

Between(m, n, k) == {e \in Edges(m) : e[1] = n /\ e[2] = k}

\* Removing the edges that leave one node lowers the count of the edges
\* that come from the nodes without a level by exactly their number.
LEMMA CountAfterRemoval ==
  ASSUME NEW m \in Manifests, NEW S, NEW n \in S, NEW k
  PROVE  /\ Cardinality(Into(m, k, S)) \in Nat
         /\ Cardinality(Between(m, n, k)) \in Nat
         /\ Cardinality(Into(m, k, S)) >= Cardinality(Between(m, n, k))
         /\ Cardinality(Into(m, k, S \ {n})) =
              Cardinality(Into(m, k, S)) - Cardinality(Between(m, n, k))
<1>1. IsFiniteSet(m.refs)
  BY ManifestsAssumption
<1>2. Into(m, k, S) \in SUBSET m.refs /\ Between(m, n, k) \in SUBSET Into(m, k, S)
  BY DEF Into, Between, Incoming, Edges
<1>3. IsFiniteSet(Into(m, k, S)) /\ IsFiniteSet(Between(m, n, k))
  BY <1>1, <1>2, FS_Subset
<1>4. Cardinality(Into(m, k, S)) \in Nat /\ Cardinality(Between(m, n, k)) \in Nat
  BY <1>3, FS_CardinalityType
<1>5. Cardinality(Between(m, n, k)) <= Cardinality(Into(m, k, S))
  BY <1>2, <1>3, FS_Subset
<1>6. Into(m, k, S \ {n}) = Into(m, k, S) \ Between(m, n, k) /\ Into(m, k, S) \cap Between(m, n, k) = Between(m, n, k)
  BY DEF Into, Between, Incoming
<1>7. Cardinality(Into(m, k, S) \ Between(m, n, k))
        = Cardinality(Into(m, k, S)) - Cardinality(Into(m, k, S) \cap Between(m, n, k))
  BY <1>3, FS_Difference
<1> QED
  BY <1>4, <1>5, <1>6, <1>7

\* The count of incoming edges is zero exactly when no dependency is left.
LEMMA ZeroMeansNoDependency ==
  ASSUME NEW m \in Manifests, NEW S, NEW k
  PROVE  Cardinality({e \in Incoming(m, k) : e[1] \in S}) = 0
           <=> Deps(m, k) \cap S = {}
<1> DEFINE Sources == {e \in Incoming(m, k) : e[1] \in S}
<1>1. IsFiniteSet(Sources)
  <2>1. Sources \in SUBSET m.refs
    BY DEF Incoming, Edges
  <2> QED
    BY <2>1, FS_Subset, ManifestsAssumption
<1>2. Cardinality(Sources) = 0 <=> Sources = {}
  BY <1>1, FS_EmptySet
<1>3. Sources = {} <=> Deps(m, k) \cap S = {}
  BY DEF Deps
<1> QED
  BY <1>2, <1>3

-----------------------------------------------------------------------------

LEMMA InitIInv == Init => IInv
<1> SUFFICES ASSUME Init PROVE IInv
  OBVIOUS
<1>1. TypeOK
  BY DEF Init, TypeOK
<1>2. Assigned = {}
  <2>1. manifest \in Manifest
    BY ManifestsAssumption DEF Init
  <2> QED
    BY <2>1 DEF Init, Assigned, Manifest
<1> QED
  BY <1>1, <1>2
  DEF Init, IInv, Progress, InDegreeCounts, DepsAtLowerLevels, LevelsTight,
      CycleDetectedOnlyIfCyclic, LevelsBelowCurrent, ReadyNodes, WaitingNodes

LEMMA RejectIInv == IInv /\ Reject => IInv'
<1> SUFFICES ASSUME IInv, Reject PROVE IInv'
  OBVIOUS
<1> USE DEF IInv, Reject
<1>1. TypeOK'
  BY DEF TypeOK, Ended
<1>2. level = [n \in Node |-> NoLevel] /\ manifest \in Manifest
  BY ManifestsAssumption DEF Progress, TypeOK
<1>3. Assigned' = {}
  BY <1>2 DEF Assigned, Manifest
<1>4. Progress'
  BY <1>2 DEF Progress
<1>5. CycleDetectedOnlyIfCyclic'
  BY DEF CycleDetectedOnlyIfCyclic, ValidManifest
<1>6. InDegreeCounts' /\ WaitingNodes' /\ ReadyNodes'
  BY DEF InDegreeCounts, WaitingNodes, ReadyNodes, Progress
<1> QED
  BY <1>1, <1>3, <1>4, <1>5, <1>6
  DEF DepsAtLowerLevels, LevelsTight, LevelsBelowCurrent

LEMMA FromManifestIInv == IInv /\ FromManifest => IInv'
<1> SUFFICES ASSUME IInv, FromManifest PROVE IInv'
  OBVIOUS
<1> USE DEF IInv, FromManifest
<1>1. manifest \in Manifests /\ manifest \in Manifest
  BY ManifestsAssumption DEF TypeOK
<1>2. level = [n \in Node |-> NoLevel] /\ ready = {} /\ currentLevel = 0
  BY DEF Progress
<1>3. \A n \in Node :
        /\ Cardinality(Incoming(manifest, n)) \in Nat
        /\ {e \in Incoming(manifest, n) : e[1] \in manifest.nodes}
             = Incoming(manifest, n)
  <2> TAKE n \in Node
  <2>1. Incoming(manifest, n) \in SUBSET manifest.refs
    BY DEF Incoming, Edges
  <2>2. IsFiniteSet(Incoming(manifest, n))
    BY <1>1, <2>1, FS_Subset, ManifestsAssumption
  <2> QED
    BY <2>2, FS_CardinalityType DEF Incoming, Edges
<1>4. TypeOK'
  BY <1>1, <1>2, <1>3 DEF TypeOK
<1>5. Assigned' = {}
  BY <1>1, <1>2 DEF Assigned, Manifest
<1>6. Progress'
  BY <1>1, <1>2 DEF Progress, Manifest
<1>7. InDegreeCounts'
  BY <1>1, <1>3 DEF InDegreeCounts, Manifest
<1>8. WaitingNodes'
  BY <1>2 DEF WaitingNodes, LastLevel
<1> QED
  BY <1>2, <1>4, <1>5, <1>6, <1>7, <1>8
  DEF DepsAtLowerLevels, LevelsTight, LevelsBelowCurrent, ReadyNodes,
      CycleDetectedOnlyIfCyclic

\* The step that would report a cycle cannot: in an acyclic graph some node
\* without a level depends on none of the others.
LEMMA SomeNodeIsReady ==
  ASSUME IInv, status = "levels", remaining # {}
  PROVE  SourceFree # {}
<1>1. PICK n \in remaining : Deps(manifest, n) \cap remaining = {}
  BY DEF IInv, Progress, TypeOK, ValidManifest, Acyclic
<1>2. inDegree[n] = Cardinality({e \in Incoming(manifest, n) :
                                   e[1] \in remaining})
  BY DEF IInv, TypeOK, InDegreeCounts
<1>3. inDegree[n] = 0
  BY <1>1, <1>2, ZeroMeansNoDependency DEF IInv, TypeOK
<1> QED
  BY <1>3 DEF SourceFree

LEMMA SelectReadyIInv == IInv /\ SelectReady => IInv'
<1> SUFFICES ASSUME IInv, SelectReady PROVE IInv'
  OBVIOUS
<1> USE DEF SelectReady
<1>1. SourceFree # {} /\ status' = "levels"
  BY SomeNodeIsReady
<1> USE DEF IInv
<1>2. manifest \in Manifests /\ remaining \subseteq manifest.nodes
  BY DEF TypeOK
<1>3. \A n \in remaining :
        inDegree[n] = 0 <=> Deps(manifest, n) \cap remaining = {}
  BY <1>2, ZeroMeansNoDependency DEF InDegreeCounts
<1>4. TypeOK'
  BY <1>1 DEF TypeOK, SourceFree
<1>5. Progress' /\ InDegreeCounts' /\ CycleDetectedOnlyIfCyclic'
  BY <1>1 DEF Progress, InDegreeCounts, CycleDetectedOnlyIfCyclic
<1>6. Assigned' = Assigned
  BY DEF Assigned
<1>7. DepsAtLowerLevels' /\ LevelsTight'
  BY <1>6 DEF DepsAtLowerLevels, LevelsTight
<1>8. LevelsBelowCurrent'
  BY <1>1, <1>6 DEF LevelsBelowCurrent
<1>9. ReadyNodes'
  <2> SUFFICES ASSUME NEW n \in SourceFree
      PROVE /\ \A d \in Deps(manifest, n) :
                 d \in Assigned /\ level[d] < currentLevel
            /\ currentLevel > 0 =>
                 \E d \in Deps(manifest, n) : level[d] = currentLevel - 1
    BY <1>6 DEF ReadyNodes
  <2>1. n \in remaining /\ Deps(manifest, n) \cap remaining = {}
    BY <1>3 DEF SourceFree
  <2>2. \A d \in Deps(manifest, n) : d \in Assigned /\ level[d] < currentLevel
    BY <2>1, DepsAreNodes DEF Progress, Assigned, LevelsBelowCurrent
  <2>3. currentLevel \in Nat
    BY DEF TypeOK
  <2> QED
    BY <2>1, <2>2, <2>3 DEF WaitingNodes, LastLevel
<1>10. WaitingNodes'
  BY <1>1, <1>3 DEF WaitingNodes, SourceFree
<1> QED
  BY <1>4, <1>5, <1>7, <1>8, <1>9, <1>10

LEMMA AssignLevelIInv ==
  ASSUME IInv, NEW n \in ready, AssignLevel(n)
  PROVE  IInv'
<1> USE DEF AssignLevel, NextLevel, IInv
<1>1. /\ manifest \in Manifests /\ remaining \subseteq manifest.nodes
      /\ manifest.nodes \subseteq Node
      /\ ready \subseteq remaining
      /\ currentLevel \in Nat
      /\ level \in [Node -> Nat \cup {NoLevel}]
      /\ inDegree \in [Node -> Nat]
  BY ManifestsAssumption DEF TypeOK, Manifest
<1>2. n \in Node /\ n \in remaining /\ n \notin remaining'
  BY <1>1
<1>3. /\ level'[n] = currentLevel
      /\ \A k \in Node : k # n => level'[k] = level[k]
  BY <1>1, <1>2
<1>4. \A k \in Node :
        Cardinality(Between(manifest, n, k)) \in Nat
  BY <1>1, <1>2, CountAfterRemoval
<1>5. TypeOK'
  <2>1. inDegree' \in [Node -> Nat]
    BY <1>1, <1>4 DEF Decremented, Between
  <2> QED
    BY <1>1, <2>1 DEF TypeOK
<1>6. InDegreeCounts'
  <2> SUFFICES ASSUME NEW k \in manifest.nodes
      PROVE inDegree'[k] = Cardinality(Into(manifest, k, remaining \ {n}))
    BY DEF InDegreeCounts, Into
  <2>1. inDegree[k] = Cardinality(Into(manifest, k, remaining))
    BY DEF InDegreeCounts, Into
  <2>2. inDegree'[k] =
          LET edges == Cardinality(Between(manifest, n, k))
          IN  IF inDegree[k] >= edges THEN inDegree[k] - edges ELSE 0
    BY <1>1 DEF Decremented, Between
  <2> QED
    BY <1>1, <1>2, <2>1, <2>2, CountAfterRemoval
<1>7. Assigned' = Assigned \cup {n}
  BY <1>1, <1>2, <1>3 DEF Assigned, NoLevel
<1>8. n \notin Assigned
  BY <1>1, <1>2 DEF Progress, Assigned
<1>9. Progress'
  <2> SUFFICES ASSUME NEW k \in manifest.nodes
      PROVE level'[k] = NoLevel <=> k \in remaining'
    BY DEF Progress
  <2> QED
    BY <1>1, <1>2, <1>3 DEF Progress, NoLevel
<1>10. \A d \in Deps(manifest, n) : d \in Assigned /\ level[d] < currentLevel
  BY DEF ReadyNodes
<1>11. \A k \in Assigned : k \in Node /\ level'[k] = level[k]
  BY <1>1, <1>3, <1>8 DEF Assigned
<1>12. DepsAtLowerLevels'
  BY <1>3, <1>7, <1>10, <1>11 DEF DepsAtLowerLevels
<1>13. LevelsTight'
  <2> SUFFICES ASSUME NEW k \in Assigned', level'[k] > 0
      PROVE \E d \in Deps(manifest, k) : level'[d] = level'[k] - 1
    BY DEF LevelsTight
  <2>1. CASE k = n
    BY <1>3, <1>10, <1>11, <2>1 DEF ReadyNodes
  <2>2. CASE k \in Assigned
    BY <1>11, <2>2 DEF LevelsTight, DepsAtLowerLevels
  <2> QED
    BY <1>7, <2>1, <2>2
<1>14. LevelsBelowCurrent'
  <2> SUFFICES ASSUME NEW k \in Assigned'
      PROVE /\ level'[k] <= currentLevel'
            /\ ready' = {} => level'[k] < currentLevel'
    BY DEF LevelsBelowCurrent
  <2>1. level'[k] <= currentLevel
    BY <1>1, <1>3, <1>7, <1>11 DEF LevelsBelowCurrent
  <2>2. level'[k] \in Int
    BY <1>1, <1>3, <1>7, <1>11 DEF NoLevel
  <2>3. ready' = {} <=> ready = {n}
    OBVIOUS
  <2> QED
    BY <1>1, <2>1, <2>2, <2>3
<1>15. ReadyNodes'
  <2> SUFFICES ASSUME NEW k \in ready'
      PROVE /\ \A d \in Deps(manifest, k) :
                 d \in Assigned' /\ level'[d] < currentLevel'
            /\ currentLevel' > 0 =>
                 \E d \in Deps(manifest, k) : level'[d] = currentLevel' - 1
    BY DEF ReadyNodes
  <2>1. currentLevel' = currentLevel /\ k \in ready
    OBVIOUS
  <2> QED
    BY <1>7, <1>11, <2>1 DEF ReadyNodes
<1>16. WaitingNodes'
  <2> SUFFICES ASSUME NEW k \in remaining' \ ready'
      PROVE \/ LastLevel' = -1
            \/ \E d \in Deps(manifest, k) :
                 d \in remaining' \/ level'[d] = LastLevel'
    BY DEF WaitingNodes
  <2>1. LastLevel' = currentLevel
    BY <1>1 DEF LastLevel
  <2>2. LastLevel = currentLevel /\ k \in remaining \ ready
    BY DEF LastLevel
  <2>3. PICK d \in Deps(manifest, k) :
          d \in remaining \/ level[d] = currentLevel
    BY <1>1, <2>2 DEF WaitingNodes
  <2>4. d \in Node
    BY <1>1, DepsAreNodes
  <2> QED
    BY <1>3, <2>1, <2>3, <2>4
<1>17. CycleDetectedOnlyIfCyclic'
  BY DEF CycleDetectedOnlyIfCyclic
<1> QED
  BY <1>5, <1>6, <1>9, <1>12, <1>13, <1>14, <1>15, <1>16, <1>17

LEMMA FinishIInv == IInv /\ Finish => IInv'
<1> SUFFICES ASSUME IInv, Finish PROVE IInv'
  OBVIOUS
<1> USE DEF IInv, Finish
<1>1. TypeOK'
  BY DEF TypeOK, Ended
<1>2. Assigned' = Assigned
  BY DEF Assigned
<1>3. Progress' /\ InDegreeCounts' /\ CycleDetectedOnlyIfCyclic'
  BY DEF Progress, InDegreeCounts, CycleDetectedOnlyIfCyclic
<1>4. DepsAtLowerLevels' /\ LevelsTight' /\ LevelsBelowCurrent' /\ ReadyNodes'
  BY <1>2 DEF DepsAtLowerLevels, LevelsTight, LevelsBelowCurrent, ReadyNodes
<1> QED
  BY <1>1, <1>3, <1>4 DEF WaitingNodes

LEMMA StutterIInv == IInv /\ UNCHANGED vars => IInv'
BY DEF vars, IInv, TypeOK, Progress, InDegreeCounts, DepsAtLowerLevels,
       LevelsTight, CycleDetectedOnlyIfCyclic, LevelsBelowCurrent, ReadyNodes,
       WaitingNodes, Assigned, LastLevel

LEMMA NextIInv == IInv /\ [Next]_vars => IInv'
BY RejectIInv, FromManifestIInv, SelectReadyIInv, AssignLevelIInv, FinishIInv,
   StutterIInv DEF Next

-----------------------------------------------------------------------------

\* The inductive invariant holds in every reachable state, for all manifests.
THEOREM Invariance == Spec => []IInv
BY InitIInv, NextIInv, PTL DEF Spec

\* Every variable of the wave computation keeps its type.
THEOREM TypeCorrect == Spec => []TypeOK
<1>1. IInv => TypeOK
  BY DEF IInv
<1> QED
  BY <1>1, Invariance, PTL

\* execution_waves: no node of a wave depends on another node of the same
\* or of a later wave, whatever the manifest.
THEOREM WavesRespectDependencies == Spec => []DepsAtLowerLevels
<1>1. IInv => DepsAtLowerLevels
  BY DEF IInv
<1> QED
  BY <1>1, Invariance, PTL

\* execution_waves: no node is put in a later wave than its dependencies
\* require, so the parallelism is the largest the graph allows.
THEOREM WavesAreTight == Spec => []LevelsTight
<1>1. IInv => LevelsTight
  BY DEF IInv
<1> QED
  BY <1>1, Invariance, PTL

\* execution_waves: the decremented in-degree is the number of edges from
\* nodes without a level, so the saturating subtraction never saturates.
THEOREM InDegreeIsExact == Spec => []InDegreeCounts
<1>1. IInv => InDegreeCounts
  BY DEF IInv
<1> QED
  BY <1>1, Invariance, PTL

\* from_manifest and execution_waves: a CycleDetected error means that the
\* references really form a cycle.
THEOREM CycleErrorsAreReal == Spec => []CycleDetectedOnlyIfCyclic
<1>1. IInv => CycleDetectedOnlyIfCyclic
  BY DEF IInv
<1> QED
  BY <1>1, Invariance, PTL

\* A number has as many of a finite set below it as it has a place there.
LEMMA PlaceOf ==
  ASSUME NEW L, IsFiniteSet(L), L \subseteq Nat, NEW a \in L
  PROVE  /\ Cardinality({l \in L : l < a}) \in Nat
         /\ Cardinality(L) \in Nat
         /\ Cardinality({l \in L : l < a}) < Cardinality(L)
         /\ \A b \in L : b < a =>
              Cardinality({l \in L : l < b}) < Cardinality({l \in L : l < a})
<1>1. ASSUME NEW S, IsFiniteSet(S), NEW T \in SUBSET S, T # S
      PROVE  Cardinality(S) \in Nat /\ Cardinality(T) \in Nat /\ Cardinality(T) < Cardinality(S)
  <2>1. IsFiniteSet(T) /\ Cardinality(T) <= Cardinality(S) /\ Cardinality(T) # Cardinality(S)
    BY <1>1, FS_Subset
  <2> QED
    BY <1>1, <2>1, FS_CardinalityType
<1> DEFINE Below(x) == {l \in L : l < x}
<1>2. Below(a) \in SUBSET L /\ Below(a) # L
  <2>1. ~(a < a)
    OBVIOUS
  <2> QED
    BY <2>1
<1>3. IsFiniteSet(Below(a))
  BY <1>2, FS_Subset
<1>4. ASSUME NEW b \in L, b < a
      PROVE  Below(b) \in SUBSET Below(a) /\ Below(b) # Below(a)
  <2>1. \A l \in L : l < b => l < a
    BY <1>4
  <2>2. b \in Below(a) /\ b \notin Below(b)
    BY <1>4
  <2> QED
    BY <2>1, <2>2
<1> HIDE DEF Below
<1>5. \A b \in L : b < a => Cardinality(Below(b)) < Cardinality(Below(a))
  BY <1>1, <1>3, <1>4
<1>6. Cardinality(Below(a)) \in Nat /\ Cardinality(L) \in Nat /\ Cardinality(Below(a)) < Cardinality(L)
  BY <1>1, <1>2
<1> QED
  BY <1>5, <1>6 DEF Below

\* Removing empty waves keeps the waves of any kind of node in order, and every
\* node in one of them.
LEMMA WavesInOrder ==
  ASSUME IInv, status = "Waves", NEW kind, kind \subseteq manifest.nodes
  PROVE  /\ \A i, j \in DOMAIN WavesOf(kind) :
              \A n \in WavesOf(kind)[i], d \in WavesOf(kind)[j] :
                d \in Deps(manifest, n) => j < i
         /\ kind = UNION {WavesOf(kind)[i] : i \in DOMAIN WavesOf(kind)}
<1> DEFINE L == LevelsOf(kind)
           place(n) == Cardinality({l \in L : l < level[n]})
           waves == [i \in 1 .. Cardinality(L) |-> {n \in kind : place(n) = i - 1}]
<1>1. kind \subseteq Assigned
  BY DEF IInv, Progress, Assigned, TypeOK
<1>2. \A n \in kind : level[n] \in 0 .. currentLevel
  BY <1>1, ManifestsAssumption
  DEF Assigned, IInv, LevelsBelowCurrent, TypeOK, Manifest, NoLevel
<1>3. L \subseteq 0 .. currentLevel /\ currentLevel \in Nat
  BY <1>2 DEF LevelsOf, IInv, TypeOK
<1>4. IsFiniteSet(L) /\ L \subseteq Nat
  <2>1. IsFiniteSet(0 .. currentLevel)
    BY <1>3, FS_Interval
  <2> QED
    BY <1>3, <2>1, FS_Subset
<1>5. \A n \in kind : level[n] \in L
  BY DEF LevelsOf
<1>6. WavesOf(kind) = waves
  BY DEF WavesOf
<1> HIDE DEF L
<1>7. \A n \in kind :
        /\ place(n) \in Nat /\ Cardinality(L) \in Nat /\ place(n) < Cardinality(L)
        /\ \A d \in kind : level[d] < level[n] => place(d) < place(n)
  BY <1>4, <1>5, PlaceOf
<1> HIDE DEF place
<1>8. ASSUME NEW i \in DOMAIN waves, NEW j \in DOMAIN waves,
             NEW n \in waves[i], NEW d \in waves[j], d \in Deps(manifest, n)
      PROVE  j < i
  <2>1. /\ i \in Int /\ j \in Int /\ n \in kind /\ d \in kind
        /\ place(n) = i - 1 /\ place(d) = j - 1
    OBVIOUS
  <2>2. level[d] < level[n]
    BY <1>1, <1>8, <2>1 DEF IInv, DepsAtLowerLevels
  <2>3. place(d) < place(n)
    BY <1>7, <2>1, <2>2
  <2> QED
    BY <1>7, <2>1, <2>3
<1>9. ASSUME NEW n \in kind PROVE \E i \in DOMAIN waves : n \in waves[i]
  <2>1. place(n) + 1 \in DOMAIN waves /\ n \in waves[place(n) + 1]
    BY <1>7
  <2> QED
    BY <2>1
<1>10. kind = UNION {waves[i] : i \in DOMAIN waves}
  <2>1. \A i \in DOMAIN waves : waves[i] \subseteq kind
    OBVIOUS
  <2> HIDE DEF waves
  <2> QED
    BY <1>9, <2>1
<1> HIDE DEF waves
<1> QED
  BY <1>6, <1>8, <1>10

\* execution_waves and build_waves: without the empty levels, a node still comes
\* in a strictly later wave than what it depends on, and none is lost.
THEOREM WavesStayOrdered == Spec => []WavesOrdered
<1>1. IInv => WavesOrdered
  <2> SUFFICES ASSUME IInv, status = "Waves" PROVE WavesOrdered
    BY DEF WavesOrdered
  <2>1. /\ \A i, j \in DOMAIN execution_waves :
             \A n \in execution_waves[i], d \in execution_waves[j] :
               d \in Deps(manifest, n) => j < i
        /\ manifest.nodes = UNION {execution_waves[i] : i \in DOMAIN execution_waves}
    BY WavesInOrder DEF execution_waves
  <2>2. \A i, j \in DOMAIN build_waves :
          \A n \in build_waves[i], d \in build_waves[j] : d \in Deps(manifest, n) => j < i
    BY WavesInOrder DEF build_waves
  <2> QED
    BY <2>1, <2>2 DEF WavesOrdered
<1> QED
  BY <1>1, Invariance, PTL

=============================================================================
