------------------------------- MODULE MCVirMem -------------------------------
(* VirMem for TLC: address spaces, boxes and frames are interchangeable.   *)
EXTENDS VirMem, TLC

Symmetry == Permutations(Mm) \cup Permutations(Box) \cup Permutations(Frame)
=============================================================================
