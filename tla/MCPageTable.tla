----------------------------- MODULE MCPageTable -----------------------------
(* Instances of PageTable for TLC. *)
EXTENDS PageTable

CONSTANTS m0, m1

(* Four virtual pages: two in one mdirearr, the third under the same       *)
(* idirearr, the fourth under the same sdirearr.                           *)
ObjSmall == [k \in 0 .. 4 |->
  CASE k \in {0, 1} -> {0} [] k = 2 -> 0 .. 1 [] k = 3 -> 0 .. 2 [] k = 4 -> 0 .. 3]
UpSmall  == [k \in 1 .. 4 |->
  CASE k \in {1, 2} -> [n \in ObjSmall[k] |-> 0]
    [] k = 3 -> [n \in 0 .. 2 |-> n \div 2]
    [] k = 4 -> [n \in 0 .. 3 |-> IF n = 0 THEN 0 ELSE n - 1]]
=============================================================================
