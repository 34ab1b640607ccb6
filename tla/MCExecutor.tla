----------------------------- MODULE MCExecutor -----------------------------
(* Every graph over two builds and three binds whose edges are among eight *)
(* that run along one order (siblings in a wave, diamonds, chains, a build *)
(* or bind nobody needs), a mention of a hash outside the manifest, and    *)
(* actions that use an output their inputs never mention.                  *)
EXTENDS Executor

CONSTANTS b1, b2, x1, x2, x3

MCBuild == {b1, b2}
MCBind == {x1, x2, x3}
MCMention == {1}

Graph(nodes, pairs, uses) ==
  [nodes |-> nodes, refs |-> {<<p[1], p[2], 1>> : p \in pairs}, uses |-> uses]

Upwards == {<<b1, b2>>, <<b1, x1>>, <<b1, x3>>, <<b2, x2>>, <<b2, x3>>,
            <<x1, x2>>, <<x1, x3>>, <<x2, x3>>}

Dangling == Graph({b1, x2, x3}, {<<x1, x2>>, <<b1, x3>>}, {<<x1, x2>>})

Hidden == Graph({b1, b2, x1, x2}, {<<b1, x1>>, <<b1, b2>>, <<b2, x2>>},
                {<<x1, x2>>, <<b1, x2>>, <<x1, b2>>})

MCManifests ==
  {Graph(MCBuild \cup MCBind, edges, edges) : edges \in SUBSET Upwards}
    \cup {Dangling, Hidden}
=============================================================================
