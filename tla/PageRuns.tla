------------------------------- MODULE PageRuns -------------------------------
(***************************************************************************)
(* What a page allocator promises: runs of consecutive pages of one area   *)
(* that nobody holds are given out, and are taken back whole; the number   *)
(* of free pages of each area is what it had less what is given out.  The  *)
(* abstraction of MemDivMer (hal/x86/memdivmer.c).                         *)
(***************************************************************************)
EXTENDS Integers, FiniteSets

CONSTANTS
  Area,    \* the memory areas
  Pages    \* per area: its pages
VARIABLES
  runs,    \* runs given out, each a set of pages
  free     \* per area: the number of free pages it reports

Init == runs = {} /\ free = [a \in Area |-> Cardinality(Pages[a])]

Alloc ==
  \E a \in Area : \E s, e \in Pages[a] :
    /\ s <= e /\ s .. e \subseteq Pages[a]
    /\ \A r \in runs : (s .. e) \cap r = {}
    /\ runs' = runs \cup {s .. e}
    /\ free' = [free EXCEPT ![a] = @ - (e - s + 1)]

Free ==
  \E a \in Area : \E s, e \in Pages[a] :
    /\ s <= e /\ s .. e \in runs
    /\ runs' = runs \ {s .. e}
    /\ free' = [free EXCEPT ![a] = @ + (e - s + 1)]

Next == Alloc \/ Free

Spec == Init /\ [][Next]_<<runs, free>>
=============================================================================
