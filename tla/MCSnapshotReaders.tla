-------------------------- MODULE MCSnapshotReaders --------------------------
(* Two processes change the store while one reads it: a delete overlaps an *)
(* apply, and three snapshots leave one before and one after the deleted.  *)
EXTENDS SnapshotReaders, TLC

CONSTANT b1

MCBuild == {b1}
MCConfigs == {{b1}}
MCAsked == {<<1, 2>>}

Processes == Permutations(Process)

=============================================================================
