----------------------------- MODULE MCMemDivMer -----------------------------
(* Instances of MemDivMer for TLC. *)
EXTENDS MemDivMer, TLC

CONSTANTS krnl, proc, c1, c2, c3

Sizes3 == 0 :> 1 @@ 1 :> 2 @@ 2 :> 4

(* Pages 0 to 6 are kernel pages, with a hole in memory after page 3, and  *)
(* page 7 belongs to the process area.                                     *)
MartySmall == [p \in 0 .. 7 |-> IF p = 7 THEN proc ELSE krnl]
PadrsSmall == [p \in 0 .. 7 |-> IF p > 3 THEN p + 1 ELSE p]
BootSmall  == [a \in {krnl, proc} |-> [i \in 0 .. 2 |->
  CASE a = krnl /\ i = 2 -> {0}
    [] a = krnl /\ i = 1 -> {4}
    [] a = krnl /\ i = 0 -> {6}
    [] a = proc /\ i = 0 -> {7}
    [] OTHER -> {}]]

(* Callers are interchangeable. *)
Symm == Permutations(Caller)
=============================================================================
