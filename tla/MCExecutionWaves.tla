-------------------------- MODULE MCExecutionWaves --------------------------
(* Every manifest over two builds and two binds whose references are taken *)
(* from Wanted: chains across both kinds, a repeated mention, a self       *)
(* reference, both two-cycles, and a bind mentioned by a build.  The node  *)
(* b2 may be missing, which makes its mentions dangling.                   *)
EXTENDS ExecutionWaves

CONSTANTS b1, b2, x1, x2

MCBuild == {b1, b2}
MCBind == {x1, x2}
MCMention == {1, 2}

Wanted ==
  { <<b1, b2, 1>>, <<b1, b2, 2>>, <<b2, b1, 1>>, <<b1, x1, 1>>,
    <<b2, x1, 1>>, <<b2, x2, 1>>, <<x1, x2, 1>>, <<x2, x1, 1>>,
    <<x2, x2, 1>>, <<x1, b2, 1>> }

MCManifests ==
  [nodes : {{b1, b2, x1, x2}, {b1, x1, x2}}, refs : SUBSET Wanted,
   uses : {{}}]

=============================================================================
