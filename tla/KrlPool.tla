-------------------------------- MODULE KrlPool --------------------------------
(***************************************************************************)
(* krlnew and krldelete of the kernel, kernel/krlmm.c and krlpagempol.c,   *)
(* over the slabs of KmSob and the pages of the page allocator.            *)
(*                                                                         *)
(* A block of up to OBJSORPAGE is an object of a slab.  A larger one is a  *)
(* run of pages, which kmempool_t keeps on lists by the number of pages.   *)
(* The page allocator rounds the number of pages up to a power of two; the *)
(* block is filed under the number given and looked for under the number   *)
(* asked for.                                                              *)
(***************************************************************************)
EXTENDS KmSob

CONSTANTS
  Size,        \* sizes that callers ask for
  ALIGNMENT,   \* of OBJS_ALIGN
  OBJSORPAGE,  \* the largest size of an object
  PHYMSA_MAX,  \* lists of page blocks; the last one is for all that are larger
  LiveMax      \* bound: blocks in use at a time

ASSUME KrlPoolAssumption ==
  /\ Size \subseteq Nat \ {0} /\ OBJSORPAGE \in Nat /\ PHYMSA_MAX \in Nat \ {0, 1}
  /\ ALIGNMENT \in Nat \ {0} /\ LiveMax \in Nat

VARIABLES
  msalsthead,  \* per list: mp_msalsthead, the page blocks in use
  live,        \* the blocks in the hands of callers
  lost,        \* blocks that krldelete refused to take back
  ok           \* the last call was served

vars == <<sobvars, msalsthead, live, lost, ok>>

Lists == 1 .. PHYMSA_MAX - 1

Init ==
  /\ SobInit
  /\ msalsthead = [i \in Lists |-> {}]
  /\ live = {} /\ lost = {} /\ ok = TRUE

AlignUp(n, a) == ((n + a - 1) \div a) * a
Pages(n)   == AlignUp(n, PAGESIZE) \div PAGESIZE
ListOf(n)  == IF PHYMSA_MAX - 1 <= n THEN PHYMSA_MAX - 1 ELSE n
Block(a, n) == [adr |-> a, sz |-> n]

(* kmempool_objsz_new *)
ObjszNew(n) ==
  /\ n <= OBJSORPAGE
  /\ \E adr \in 0 .. PageNr * PAGESIZE - 1 :
       /\ KmsobNew(AlignUp(n, ALIGNMENT), adr)
       /\ live' = live \cup {Block(adr, n)}
  /\ UNCHANGED msalsthead

(* kmempool_pages_core_new, msadsc_add_kmempool *)
PagesNew(n) ==
  /\ n > OBJSORPAGE
  /\ \E r \in FreeRuns(Pages(n)) :
       /\ runs' = runs \cup {r}
       /\ msalsthead' = [msalsthead EXCEPT ![ListOf(r.relpnr)] = @ \cup {r.msa}]
       /\ live' = live \cup {Block(Vstat(r), n)}
  /\ UNCHANGED <<emplst, cahe, kmsob, msobnr>>

Krlnew(n) ==
  /\ Cardinality(live) < LiveMax
  /\ ok' = TRUE /\ UNCHANGED lost
  /\ ObjszNew(n) \/ PagesNew(n)

(* Pages are needed and the page allocator gives none. *)
NoMemory(n) ==
  /\ n > OBJSORPAGE \/ \A k \in ClassesFor(AlignUp(n, ALIGNMENT)), p \in Page :
                        p \in NewSlab(k) => kmsob[p].so_fobjnr < 1
  /\ ok' = FALSE /\ UNCHANGED <<sobvars, msalsthead, live, lost>>

(* kmempool_objsz_delete *)
ObjszDelete(b) ==
  /\ b.sz <= OBJSORPAGE
  /\ KmsobDelete(b.adr, AlignUp(b.sz, ALIGNMENT))
  /\ UNCHANGED msalsthead

(* kmempool_pages_core_delete, msadsc_del_kmempool: the block is looked    *)
(* for by its address.  mm_merge_pages refuses a wrong number of pages.    *)
OnList(b) == b.adr \div PAGESIZE \in msalsthead[ListOf(Pages(b.sz))]
PagesDelete(b) ==
  LET r == [msa |-> b.adr \div PAGESIZE, relpnr |-> Pages(b.sz)]
  IN  /\ b.sz > OBJSORPAGE
      /\ OnList(b) /\ r \in runs
      /\ msalsthead' = [msalsthead EXCEPT ![ListOf(Pages(b.sz))] = @ \ {r.msa}]
      /\ runs' = runs \ {r}
      /\ UNCHANGED <<emplst, cahe, kmsob, msobnr>>

Krldelete(b) ==
  /\ live' = live \ {b} /\ ok' = TRUE /\ UNCHANGED lost
  /\ ObjszDelete(b) \/ PagesDelete(b)

(* krldelete returns FALSE: the block is not found, or mm_merge_pages      *)
(* refuses it, when it is on no list any more.                             *)
Served(b) == IF b.sz <= OBJSORPAGE THEN KmsobFound(b.adr, AlignUp(b.sz, ALIGNMENT)) # {}
             ELSE OnList(b) /\ [msa |-> b.adr \div PAGESIZE, relpnr |-> Pages(b.sz)] \in runs
Refused(b) ==
  /\ ~Served(b)
  /\ live' = live \ {b} /\ lost' = lost \cup {b} /\ ok' = FALSE
  /\ msalsthead' = IF b.sz <= OBJSORPAGE THEN msalsthead
                   ELSE [msalsthead EXCEPT ![ListOf(Pages(b.sz))] = @ \ {b.adr \div PAGESIZE}]
  /\ UNCHANGED sobvars

Next ==
  \/ \E n \in Size : Krlnew(n) \/ NoMemory(n)
  \/ \E b \in live : Krldelete(b) \/ Refused(b)

Spec == Init /\ [][Next]_vars
-----------------------------------------------------------------------------
Slabs == {p \in Page : \E k \in Class : p \in emplst[k]}
(* The addresses of all objects of a slab, and of those in use.            *)
AllOf(s) == Objects(s.mc_kmobin, KMSOB, s.so_objsz)
              \cup UNION {Objects(r, KMBEXT, s.so_objsz) : r \in s.so_mext}
InUse(s) == {b.adr : b \in {x \in live : x.sz <= OBJSORPAGE}} \cap AllOf(s)

(* Every object of a slab is free or in use, never both, and the counts by *)
(* which the slab is extended and destroyed are right.  No class has more  *)
(* than one slab, as a full one is extended and an empty one destroyed.    *)
SlabsConsistent ==
  /\ \A p \in Page : kmsob[p] # NULL <=> p \in Slabs
  /\ \A p \in Slabs :
       /\ kmsob[p].so_frelst \cap InUse(kmsob[p]) = {}
       /\ kmsob[p].so_frelst \cup InUse(kmsob[p]) = AllOf(kmsob[p])
       /\ kmsob[p].so_fobjnr = Cardinality(kmsob[p].so_frelst)
       /\ kmsob[p].so_mobjnr = Cardinality(AllOf(kmsob[p]))
       /\ kmsob[p].so_fobjnr < kmsob[p].so_mobjnr
  /\ \A k \in Class : Cardinality(emplst[k]) <= 1 /\ (cahe[k] # NULL => cahe[k] \in emplst[k])
  /\ msobnr = Cardinality(Slabs)

(* Pages are in use for a slab or a block only: what is given up returns   *)
(* to the page allocator, extensions of a slab included.  Only blocks of a *)
(* number of pages that is no power of two are lost.                       *)
NothingKept ==
  /\ runs = (UNION {kmsob[p].so_mext \cup {kmsob[p].mc_kmobin} : p \in Slabs})
              \cup {[msa |-> b.adr \div PAGESIZE, relpnr |-> Relpnr(Pages(b.sz))] :
                      b \in {x \in live \cup lost : x.sz > OBJSORPAGE}}
  /\ \A b \in lost : b.sz > OBJSORPAGE /\ Relpnr(Pages(b.sz)) # Pages(b.sz)

(* Slabs and page blocks are a heap: blocks never overlap, those that      *)
(* were lost included, and a call that succeeds has done its work.         *)
H == INSTANCE Heap WITH Address <- 0 .. PageNr * PAGESIZE - 1, live <- live \cup lost
ImplementsHeap == H!Spec
=============================================================================
