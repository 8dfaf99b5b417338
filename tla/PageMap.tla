-------------------------------- MODULE PageMap --------------------------------
(***************************************************************************)
(* What the page tables promise: every address space that exists is a      *)
(* partial function from virtual to physical pages, an operation changes   *)
(* one place of one of them, and the one the CPU uses is not destroyed.    *)
(* The abstraction of PageTable (hal/x86/halmmu.c).                        *)
(***************************************************************************)
CONSTANTS
  Mmu,    \* address spaces
  Initmm, \* the first one
  Virt,   \* virtual pages
  Msa,    \* physical pages
  NoPage  \* not mapped
VARIABLES
  map,     \* per address space: what is mapped where
  live,    \* the address spaces that exist
  current  \* the one that the CPU uses

vars == <<map, live, current>>

Nowhere == [v \in Virt |-> NoPage]

Init == /\ map = [m \in Mmu |-> Nowhere]
        /\ live = {Initmm}
        /\ current = Initmm

New(m)  == m \notin live /\ live' = live \cup {m} /\ UNCHANGED <<map, current>>
Load(m) == m \in live /\ current' = m /\ UNCHANGED <<map, live>>
Drop(m) == /\ m \in live \ {current}
           /\ live' = live \ {m}
           /\ map' = [map EXCEPT ![m] = Nowhere]
           /\ UNCHANGED current
Set(m, v, p) == /\ m \in live
                /\ map' = [map EXCEPT ![m][v] = p]
                /\ UNCHANGED <<live, current>>

Next == \E m \in Mmu :
  New(m) \/ Load(m) \/ Drop(m) \/ \E v \in Virt, p \in Msa \cup {NoPage} : Set(m, v, p)

Spec == Init /\ [][Next]_vars
=============================================================================
