------------------------------ MODULE MCFatFs ------------------------------
(***************************************************************************)
(* A volume of three clusters of two bytes.  The dot entries fill the      *)
(* first cluster of a directory, so its first file stretches it and leaves *)
(* room for less than the longest write.  MCFatFs.cfg: one handle, reads   *)
(* and writes of every kind; MCFatFsForce.cfg: one name in the directory,  *)
(* two handles, long writes, and volumes that are taken away under them.   *)
(***************************************************************************)
EXTENDS FatFs

MCPaths == {<<"A">>, <<"A", "A">>, <<"A", "B">>}
MCForcePaths == {<<"A">>, <<"A", "A">>}
MCDirs == {<<"A">>}
MCOpenFlags == {{"TRUNC"}}
MCForceFlags == {{"TRUNC"}, {"APPEND"}}
Symmetry == Permutations(Handles) \cup Permutations(Values)
=============================================================================
