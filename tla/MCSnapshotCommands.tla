------------------------- MODULE MCSnapshotCommands -------------------------
(* Two processes are enough for any overlap of an unlocked read with a     *)
(* locked command.  One configuration lists what the other lacks.          *)
EXTENDS SnapshotCommands

CONSTANTS b1, b2

MCBuild == {b1, b2}
MCConfigs == {{b1}, {b1, b2}}

=============================================================================
