-------------------------------- MODULE PrivMem --------------------------------
(***************************************************************************)
(* What virtual memory promises to programs: the pages a program is        *)
(* granted are pages it did not have; a page it has gets a frame that      *)
(* nobody else has, and keeps it until the program gives the page up.      *)
(* The abstraction of VirMem (kernel/krlvadrsmem.c).                       *)
(***************************************************************************)
CONSTANTS
  Mm,      \* address spaces, one per program
  Page,    \* pages of an address space
  Frame,   \* physical pages
  NoFrame  \* nothing behind a page
VARIABLES
  own,   \* per address space: the pages that the program has
  frame  \* per address space and page: the frame behind it

vars == <<own, frame>>

Init == /\ own = [m \in Mm |-> {}]
        /\ frame = [m \in Mm |-> [v \in Page |-> NoFrame]]

Grant(m, S) == /\ S \cap own[m] = {}
               /\ own' = [own EXCEPT ![m] = @ \cup S]
               /\ UNCHANGED frame
Revoke(m, S) == /\ S \subseteq own[m]
                /\ own' = [own EXCEPT ![m] = @ \ S]
                /\ frame' = [frame EXCEPT ![m] =
                               [v \in Page |-> IF v \in S THEN NoFrame ELSE @[v]]]
Fill(m, v, f) == /\ v \in own[m] /\ frame[m][v] = NoFrame
                 /\ \A o \in Mm, w \in Page : frame[o][w] # f
                 /\ frame' = [frame EXCEPT ![m][v] = f]
                 /\ UNCHANGED own

Next == \E m \in Mm :
  \/ \E S \in SUBSET Page : Grant(m, S) \/ Revoke(m, S)
  \/ \E v \in Page, f \in Frame : Fill(m, v, f)

Spec == Init /\ [][Next]_vars
=============================================================================
