---------------------------------- MODULE Heap ----------------------------------
(***************************************************************************)
(* What krlnew and krldelete promise: blocks of memory that do not overlap *)
(* and are in nobody else's hands; a block is taken back when its holder   *)
(* gives it up.  The abstraction of KrlPool.                               *)
(***************************************************************************)
EXTENDS Integers

CONSTANTS
  Address, \* addresses of the memory
  Size     \* sizes that are asked for
VARIABLES
  live,           \* blocks given out: first address and size
  ok              \* whether the last call was served

Span(b) == b.adr .. b.adr + b.sz - 1

Init == live = {} /\ ok = TRUE

New == \E a \in Address, n \in Size :
         LET b == [adr |-> a, sz |-> n]
         IN  /\ Span(b) \subseteq Address
             /\ \A o \in live : Span(o) \cap Span(b) = {}
             /\ live' = live \cup {b} /\ ok' = TRUE
Fail == live' = live /\ ok' = FALSE
Delete == \E b \in live : live' = live \ {b} /\ ok' = TRUE

Next == New \/ Delete \/ Fail
Spec == Init /\ [][Next]_<<live, ok>>
=============================================================================
