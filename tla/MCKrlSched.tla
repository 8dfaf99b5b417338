----------------------------- MODULE MCKrlSched -----------------------------
(* Instances of KrlSched for TLC. *)
EXTENDS KrlSched, TLC

(* No semaphore is special. *)
AnySem == Permutations(Sem)
=============================================================================
