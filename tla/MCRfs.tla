--------------------------------- MODULE MCRfs ---------------------------------
(***************************************************************************)
(* Two clients with two names of files and three blocks.  The directory    *)
(* has DirMax entries, which deletion does not give back, so that every    *)
(* behaviour ends with a full directory and blocks that are lost to it.    *)
(***************************************************************************)
EXTENDS Rfs, TLC

MCBlock == 2 .. 4
Symmetry == Permutations(Client) \cup Permutations(Name)
=============================================================================
