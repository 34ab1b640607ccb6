---------------------------- MODULE MCApplyFaults ----------------------------
(* Every kind of failure, and configurations of every shape: p1 can be     *)
(* updated to p2, with or without a dependent (q1 uses p1, q2 uses p2); b1 *)
(* is a build nothing uses, and b2 a build that mentions a bind.           *)
EXTENDS ApplyFlow

CONSTANTS b1, b2, p1, p2, q1, q2

MCBuild == {b1, b2}
MCBind == {p1, p2, q1, q2}
MCMention == {1}

MCId == [x \in MCBind |-> IF x \in {p1, p2} THEN "p" ELSE "none"]
MCNoId == "none"

Pairs == {<<p1, q1>>, <<p2, q2>>, <<p1, b2>>}

MCRefs == {<<e[1], e[2], 1>> : e \in Pairs}
MCUses == Pairs

MCConfigs == {{p1, q1}, {p2, q2}, {b1, p2}, {b2, p1}}

\* A bind added that uses one in place.
AddedDependent == {{p1}, {p1, q1}}

\* The output of b1 is what one of its actions gave, as with ctx:fetch_url.
MCOutputUses == {<<b1, b1>>}

\* The destroy action of p2 mentions what its create action gave.
MCDestroyMentions == {p2}

\* Two configurations with a build, and a bind installed and removed.
FetchedTwice == {{b1}, {b1, p1}}
Removed == {{p2}, {}}

MCUpdatable == {p2}
MCChecked == {p1, q1}
=============================================================================
