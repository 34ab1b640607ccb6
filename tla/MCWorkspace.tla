---------------------------- MODULE MCWorkspace ----------------------------
(* Two inputs in the cache and one beside the configuration, whose entry   *)
(* is not managed; the user has two entries, one of which once stood among *)
(* those of sys.  An evaluation resolves the direct inputs, an update all. *)
EXTENDS Workspace

CONSTANTS types, lib, pkgs, here, mine, other

MCManaged == {types, lib, pkgs}
MCEntry == {types, lib, pkgs, here, mine, other}
MCOwn == {mine, other}
MCResolutions == {<<lib>>, <<lib, pkgs>>, <<here>>}
MCLayouts == {<<mine>>, <<mine, types, other>>, Odd}
=============================================================================
