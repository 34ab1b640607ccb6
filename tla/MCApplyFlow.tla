----------------------------- MODULE MCApplyFlow -----------------------------
(* Two builds and five binds.  p1 and p2 are two contents of the bind with *)
(* id "p"; q1 and q2 use what p1 and p2 produce, so that they change with  *)
(* them; r uses a build only, and build b2 uses b1.                        *)
EXTENDS ApplyFlow

CONSTANTS b1, b2, p1, p2, q1, q2, r

MCBuild == {b1, b2}
MCBind == {p1, p2, q1, q2, r}
MCMention == {1}

MCId == [x \in MCBind |-> IF x \in {p1, p2} THEN "p" ELSE "none"]
MCNoId == "none"

Pairs == {<<b1, b2>>, <<b1, p1>>, <<b2, p2>>, <<p1, q1>>, <<p2, q2>>, <<b2, q2>>,
          <<b1, r>>}

MCRefs == {<<e[1], e[2], 1>> : e \in Pairs}
MCUses == Pairs

\* Every build is used by a bind that changes with it, no new bind depends
\* on a bind already in place, and no bind has update actions.
MCConfigs == { {}, {b1, p1, q1}, {b1, b2, p2, q2}, {b1, p1, q1, r} }

MCUpdatable == {}
MCChecked == {p1, r}

\* An output of b2 mentions b1, and one what an action of b2 gave, as with
\* ctx:fetch_url, or not.
MCOutputUses == {<<b1, b2>>}
FetchedOutput == {<<b1, b2>>, <<b2, b2>>}

ASSUME RecoverableConfigs == Recoverable /\ UsesAreMentioned
=============================================================================
