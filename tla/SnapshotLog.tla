----------------------------- MODULE SnapshotLog -----------------------------
(***************************************************************************)
(* What the snapshot index promises to the commands that share it: a       *)
(* chronological log, to which each operation is one step.  A new snapshot *)
(* is later than all before it and becomes the current one; the current    *)
(* one can be forgotten, but never be removed from the log.                *)
(***************************************************************************)
EXTENDS Integers

CONSTANT SnapshotId

VARIABLES
  listed,    \* the snapshots of the log
  current    \* the current one, at most

vars == <<listed, current>>

Init == listed = {} /\ current = {}

Record(s) ==
  /\ \A other \in listed : other < s
  /\ listed' = listed \cup {s}
  /\ current' = {s}

Forget == current' = {} /\ UNCHANGED listed

Remove(s) ==
  /\ s \in listed \ current
  /\ listed' = listed \ {s}
  /\ UNCHANGED current

Next == (\E s \in SnapshotId : Record(s) \/ Remove(s)) \/ Forget

Spec == Init /\ [][Next]_vars

=============================================================================
