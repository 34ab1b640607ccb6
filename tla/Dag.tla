-------------------------------- MODULE Dag --------------------------------
(***************************************************************************)
(* The dependency graph of a manifest (execute/dag.rs, ExecutionDag).      *)
(*                                                                         *)
(* A manifest is a record of the nodes it defines, of the references its   *)
(* input values make and of the outputs its actions use.  A reference      *)
(* <<d, n, i>> says that the inputs of node n mention the hash d; i tells  *)
(* several mentions of one hash apart, because petgraph keeps one edge per *)
(* mention.  <<d, n>> is in uses when an action of n substitutes an output *)
(* of d: the graph is built from the inputs alone and never looks there.   *)
(***************************************************************************)
EXTENDS Integers, FiniteSets, Sequences

CONSTANTS
  Build,      \* hashes of builds
  Bind,       \* hashes of binds
  Mention     \* positions that tell repeated mentions of a hash apart

Node == Build \cup Bind

ASSUME DagAssumption == Build \cap Bind = {}

Reference == Node \X Node \X Mention

Manifest == [nodes : SUBSET Node, refs : SUBSET Reference,
             uses : SUBSET (Node \X Node)]

\* The edges from_manifest adds: a mention of a hash the manifest does not
\* define is dropped without a word.
Edges(m) == {r \in m.refs : r[1] \in m.nodes /\ r[2] \in m.nodes}

Incoming(m, n) == {e \in Edges(m) : e[2] = n}

Deps(m, n) == {e[1] : e \in Incoming(m, n)}

Dependents(m, n) == {k \in m.nodes : n \in Deps(m, k)}

Uses(m, n) == {d \in Node : <<d, n>> \in m.uses}

\* The placeholders of n can be substituted from these outputs: a build's
\* resolver answers every bind placeholder with an error.
Substitutes(m, n, outputs) ==
  Uses(m, n) \subseteq IF n \in Build THEN outputs \cap Build ELSE outputs

\* extract_build_dependencies refuses a build whose inputs hold a bind
\* placeholder, even when that bind is not in the manifest.
BuildMentionsBind(m) ==
  \E r \in m.refs : r[1] \in Bind /\ r[2] \in Build /\ r[2] \in m.nodes

\* What petgraph's toposort decides: every non-empty set of nodes has a
\* member that depends on none of the set.
Acyclic(m) ==
  \A S \in SUBSET m.nodes : S # {} => \E n \in S : Deps(m, n) \cap S = {}

ValidManifest(m) == ~BuildMentionsBind(m) /\ Acyclic(m)

-----------------------------------------------------------------------------
(* A reference definition of the waves, independent of Kahn's algorithm:   *)
(* Upto(m)[k] holds the nodes all of whose dependency chains have at most  *)
(* k nodes, and a node's level is the length of its longest chain.         *)

Upto(m) ==
  LET upto[k \in Nat] ==
        IF k = 0 THEN {}
        ELSE LET below == upto[k - 1]
             IN  {n \in m.nodes : Deps(m, n) \subseteq below}
  IN  upto

Level(m, n) ==
  CHOOSE k \in 0 .. Cardinality(m.nodes) :
    n \in Upto(m)[k + 1] /\ n \notin Upto(m)[k]

WaveCount(m) ==
  CHOOSE k \in 0 .. Cardinality(m.nodes) :
    Upto(m)[k] = m.nodes /\ \A j \in 0 .. (k - 1) : Upto(m)[j] # m.nodes

=============================================================================
