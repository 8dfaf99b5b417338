-------------------------------- MODULE VirMem --------------------------------
(***************************************************************************)
(* Virtual address spaces of Cosmos: kernel/krlvadrsmem.c, its services    *)
(* in kernel/krlsvemm.c and the page fault handler of hal/x86/halintupt.c. *)
(*                                                                         *)
(* An address space (mmadrsdsc_t) has a list of areas (kmvarsdsc_t); an    *)
(* area has a box (kvmemcbox_t) with the frames behind its pages.  A page  *)
(* gets its frame when it is first touched: by a page fault.  Areas are    *)
(* extended in place, cut at either end, cut in two (which then share the  *)
(* box), and go; a box that no area uses goes to a cache.                  *)
(*                                                                         *)
(* Each operation runs under vs_lock with interrupts off and is one step.  *)
(* Not so the fault handler, which enables interrupts before it reads CR2, *)
(* the register with the address of the latest fault: PreemptInFault says  *)
(* whether another thread may run in between.  In the code it may.         *)
(* RunsEarly says whether a thread may run before its creator has made     *)
(* room for its program.  In the code it may.                              *)
(*                                                                         *)
(* Addresses are counted in pages.  Below this module are MemDivMer for    *)
(* frames, PageTable for page tables and the slabs for descriptors.        *)
(***************************************************************************)
EXTENDS Integers, Sequences, FiniteSets

CONSTANTS
  Mm,              \* mmadrsdsc_t: one address space per user thread
  Kmvd,            \* kmvarsdsc_t: descriptors that kmsob can give out
  Box,             \* kvmemcbox_t: boxes that kmsob can give out
  Frame,           \* pages that mm_divpages_procmarea can give out
  NULL,            \* no descriptor, no box, no frame
  End,             \* vs_isalcend
  TextEnd, AppStart, HeapStart, StackStart, \* the areas of a new address space
  CacheMax,        \* kbm_cachemax
  MaxSize,         \* bound: pages asked for at a time
  FreesAll,        \* bound: programs give up more than what is between
                   \* HeapStart and StackStart
  PreemptInFault,  \* see above
  RunsEarly        \* see above

Page == 1 .. End - 1  \* page 0 is no address

Type == {"text", "bin", "heap", "stack"}      \* kva_maptype
Area == [kva_start : Page, kva_end : 2 .. End, kva_maptype : Type, kva_kvmbox : Box \cup {NULL}]

ASSUME VirMemAssumption ==
  /\ IsFiniteSet(Kmvd)
  /\ NULL \notin Kmvd \cup Box \cup Frame /\ NULL \notin Area
  /\ {End, TextEnd, AppStart, HeapStart, StackStart, CacheMax, MaxSize} \subseteq Nat
  /\ 1 < TextEnd /\ TextEnd <= AppStart /\ AppStart < HeapStart
  /\ HeapStart < StackStart /\ StackStart < End
  /\ FreesAll \in BOOLEAN /\ PreemptInFault \in BOOLEAN /\ RunsEarly \in BOOLEAN

VARIABLES
  stus,          \* per address space: how far its thread is
  vs_list,       \* per address space: its areas
  vs_currkmvdsc, \* per address space: the area used last
  kva,           \* the contents of a descriptor, NULL while kmsob has it
  kbm_kmbhead,   \* boxes in use
  kbm_cachehead, \* boxes in the cache
  kmb_cont,      \* per box: reference count
  kmb_msalist,   \* per box: its frames
  free,          \* frames of the allocator
  mapped,        \* per address space and page: the frame in the page table
  cr2,           \* address of the latest fault, while a handler will read it
  fault,         \* per address space: the address its thread has faulted at, or 0
  blocks         \* per address space: what its program was granted, <<from, to>>

areas == <<vs_list, vs_currkmvdsc, kva>>
boxes == <<kbm_kmbhead, kbm_cachehead, kmb_cont, kmb_msalist>>
vars  == <<stus, areas, boxes, free, mapped, cr2, fault, blocks>>

(* ENOOBJ is found with interrupts off: system_error stops the machine.    *)
(* Otherwise it stops the thread.                                          *)
Stus == {"none", "new", "run", "EFAULT", "ENOOBJ", "ENOMEM"}
Up   == \A m \in Mm : stus[m] # "ENOOBJ"
(* Nobody is between a fault and the reading of CR2, or that is no matter. *)
CpuFree == Up /\ (PreemptInFault \/ \A m \in Mm : fault[m] = 0)
Runs(m) == CpuFree /\ stus[m] = "run" /\ fault[m] = 0

Unused == {d \in Kmvd : kva[d] = NULL}
(* new_kmvarsdsc; which descriptor kmsob gives out does not matter. *)
Kmsob(S) == CHOOSE d \in S : TRUE
InsertAfter(q, i, d) == SubSeq(q, 1, i) \o <<d>> \o SubSeq(q, i + 1, Len(q))
Without(q, i)        == SubSeq(q, 1, i - 1) \o SubSeq(q, i + 1, Len(q))
(* The least of some places, as a list_for_each finds it *)
First(S) == {i \in S : \A j \in S : i <= j}

Init ==
  /\ stus = [m \in Mm |-> "none"]
  /\ vs_list = [m \in Mm |-> << >>]
  /\ vs_currkmvdsc = [m \in Mm |-> NULL]
  /\ kva = [d \in Kmvd |-> NULL]
  /\ kbm_kmbhead = {} /\ kbm_cachehead = {}
  /\ kmb_cont = [b \in Box |-> 0] /\ kmb_msalist = [b \in Box |-> {}]
  /\ free = Frame
  /\ mapped = [m \in Mm |-> [v \in Page |-> NULL]]
  /\ cr2 = 0 /\ fault = [m \in Mm |-> 0]
  /\ blocks = [m \in Mm |-> {}]

-----------------------------------------------------------------------------
(* Areas come.                                                             *)

NewArea(s, e, t) == [kva_start |-> s, kva_end |-> e, kva_maptype |-> t, kva_kvmbox |-> NULL]

(* new_mmadrsdsc with kvma_inituserspace_virmemadrs.  Without three        *)
(* descriptors those taken go back, and so does the address space.         *)
NewMmadrsdsc(m) ==
  /\ CpuFree /\ stus[m] = "none"
  /\ Unused # {} /\ Unused \ {Kmsob(Unused)} # {}
  /\ LET d == Kmsob(Unused)
         h == Kmsob(Unused \ {d})
         s == Kmsob(Unused \ {d, h})
     IN
       /\ Unused \ {d, h} # {}
       /\ kva' = [kva EXCEPT ![d] = NewArea(1, TextEnd, "text"),
                             ![h] = NewArea(HeapStart, HeapStart + 1, "heap"),
                             ![s] = NewArea(StackStart, End, "stack")]
       /\ vs_list' = [vs_list EXCEPT ![m] = <<d, h, s>>]
  /\ stus' = [stus EXCEPT ![m] = "new"]
  /\ blocks' = [blocks EXCEPT ![m] =
                  {<<1, TextEnd>>, <<HeapStart, HeapStart + 1>>, <<StackStart, End>>}]
  /\ UNCHANGED <<vs_currkmvdsc, boxes, free, mapped, cr2, fault>>

(* Where a request for `start`, 0 for anywhere, goes behind the area at i. *)
StartBehind(m, i, start) == IF start = 0 THEN kva[vs_list[m][i]].kva_end ELSE start

FitsBehindAny(m, i, start, n) == \* without a look at the next area
  LET s == StartBehind(m, i, start)
  IN  kva[vs_list[m][i]].kva_end <= s /\ s + n < End
(* vma_find_kmvarsdsc_is_ok: n pages fit behind the area at i. *)
FitsBehind(m, i, start, n) ==
  LET q == vs_list[m]
      s == StartBehind(m, i, start)
  IN  /\ kva[q[i]].kva_end <= s
      /\ IF i = Len(q) THEN s + n < End ELSE s + n <= kva[q[i + 1]].kva_start

(* vma_find_kmvarsdsc: behind the area used last if it has the type, else  *)
(* behind the first of the type, else behind the first.                    *)
VmaFind(m, start, n, type) ==
  LET q    == vs_list[m]
      fit  == {i \in DOMAIN q : FitsBehind(m, i, start, n)}
      same == {i \in fit : kva[q[i]].kva_maptype = type}
      curr == {i \in same : q[i] = vs_currkmvdsc[m]}
  IN  First(IF curr # {} THEN curr ELSE IF same # {} THEN same ELSE fit)

(* The request goes on where the area at i, of the same type, ends. *)
Extends(m, i, start, type) ==
  LET a == kva[vs_list[m][i]]
  IN  start \in {0, a.kva_end} /\ a.kva_maptype = type

(* vma_new_vadrs_core.  It fails without a change if there is no room, or  *)
(* no descriptor for a new area.                                           *)
VmaNewVadrs(m, start, n, type) ==
  /\ start + n <= End
  /\ \E i \in VmaFind(m, start, n, type) :
       LET d == vs_list[m][i]
           s == StartBehind(m, i, start)
       IN  /\ \/ /\ Extends(m, i, start, type)
                 /\ kva' = [kva EXCEPT ![d].kva_end = @ + n]
                 /\ vs_currkmvdsc' = [vs_currkmvdsc EXCEPT ![m] = d]
                 /\ UNCHANGED vs_list
              \/ /\ ~Extends(m, i, start, type)
                 /\ Unused # {}
                 /\ LET new == Kmsob(Unused)
                    IN
                      /\ kva' = [kva EXCEPT ![new] = NewArea(s, s + n, type)]
                      /\ vs_currkmvdsc' = [vs_currkmvdsc EXCEPT ![m] = new]
                      /\ vs_list' = [vs_list EXCEPT ![m] = InsertAfter(@, i, new)]
           /\ blocks' = [blocks EXCEPT ![m] = @ \cup {<<s, s + n>>}]
  /\ UNCHANGED <<boxes, free, mapped, cr2, fault>>

(* krlthread_execvl: room for the program of a new thread *)
Execvl(m, n) ==
  /\ CpuFree /\ stus[m] = "new"
  /\ AppStart + n <= HeapStart
  /\ VmaNewVadrs(m, AppStart, n, "bin")
  /\ stus' = [stus EXCEPT ![m] = "run"]

(* krlsve_core_mallocblk *)
Mallocblk(m, n) ==
  /\ Runs(m)
  /\ VmaNewVadrs(m, 0, n, "heap")
  /\ UNCHANGED stus

-----------------------------------------------------------------------------
(* Areas go.                                                               *)

(* vma_del_find_kmvarsdsc, and for one page vma_map_find_kmvarsdsc: the    *)
(* area with the pages s .. e - 1, first of all the one used last.         *)
VmaFindArea(m, s, e) ==
  LET q    == vs_list[m]
      has  == {i \in DOMAIN q : kva[q[i]].kva_start <= s /\ e <= kva[q[i]].kva_end}
      curr == {i \in has : q[i] = vs_currkmvdsc[m]}
  IN  First(IF curr # {} THEN curr ELSE has)

(* vma_del_set_endcurrkmvd: what is used last once the area at i has gone *)
CurrAfterDel(m, i) ==
  LET q == vs_list[m]
  IN  IF i < Len(q) THEN q[i + 1] ELSE IF i > 1 THEN q[i - 1] ELSE NULL

(* vma_del_usermsa: the frames behind pages s .. e - 1 that are in the box *)
FramesOf(m, b, s, e) ==
  IF b = NULL THEN {} ELSE {f \in kmb_msalist[b] : \E v \in s .. e - 1 : mapped[m][v] = f}
MappedWithoutKeeps(m, s, e) == mapped[m] \* no hal_mmu_untransform
MappedWithout(m, s, e) == [v \in Page |-> IF v \in s .. e - 1 THEN NULL ELSE mapped[m][v]]
(* vma_del_unmapping *)
Unmapping(m, b, s, e) ==
  /\ mapped' = [mapped EXCEPT ![m] = MappedWithout(m, s, e)]
  /\ free' = free \cup FramesOf(m, b, s, e)
  /\ kmb_msalist' = IF b = NULL THEN kmb_msalist
                    ELSE [kmb_msalist EXCEPT ![b] = @ \ FramesOf(m, b, s, e)]

LastUseEarly(b) == TRUE \* the reference count is not looked at
(* No area uses the box any more. *)
LastUse(b) == kmb_cont[b] - 1 < 1
(* knl_put_kvmemcbox *)
PutKvmemcbox(b) ==
  IF b = NULL THEN UNCHANGED <<kbm_kmbhead, kbm_cachehead, kmb_cont>>
  ELSE /\ kmb_cont' = [kmb_cont EXCEPT ![b] = @ - 1]
       /\ kbm_kmbhead' = IF LastUse(b) THEN kbm_kmbhead \ {b} ELSE kbm_kmbhead
       /\ kbm_cachehead' = IF LastUse(b) /\ Cardinality(kbm_cachehead) < CacheMax
                             THEN kbm_cachehead \cup {b} ELSE kbm_cachehead

CountNot(b) == kmb_cont \* the second area is not counted
(* knl_count_kvmemcbox *)
Count(b) == IF b = NULL THEN kmb_cont ELSE [kmb_cont EXCEPT ![b] = @ + 1]

WholeFromStart(a, s, e) == a.kva_start = s \* the end is not compared
(* All of the area is to go. *)
Whole(a, s, e) == a.kva_start = s /\ a.kva_end = e

DelWhole(m, i) ==
  LET d == vs_list[m][i]
  IN  /\ PutKvmemcbox(kva[d].kva_kvmbox)
      /\ vs_currkmvdsc' = [vs_currkmvdsc EXCEPT ![m] = CurrAfterDel(m, i)]
      /\ vs_list' = [vs_list EXCEPT ![m] = Without(@, i)]
      /\ kva' = [kva EXCEPT ![d] = NULL]
(* The first or the last pages of the area *)
DelEdge(m, i, s, e) ==
  LET d == vs_list[m][i]
  IN  /\ kva' = IF kva[d].kva_start = s THEN [kva EXCEPT ![d].kva_start = e]
                ELSE [kva EXCEPT ![d].kva_end = s]
      /\ UNCHANGED <<vs_list, vs_currkmvdsc, kbm_kmbhead, kbm_cachehead, kmb_cont>>
(* Pages in its middle: two areas with one box.  It fails without a change *)
(* if there is no descriptor.                                              *)
DelMiddle(m, i, s, e) ==
  LET d == vs_list[m][i]
  IN  /\ Unused # {}
      /\ LET new == Kmsob(Unused)
         IN
           /\ kva' = [kva EXCEPT ![d].kva_end = s, ![new] = [kva[d] EXCEPT !.kva_start = e]]
           /\ vs_list' = [vs_list EXCEPT ![m] = InsertAfter(@, i, new)]
           /\ vs_currkmvdsc' = [vs_currkmvdsc EXCEPT ![m] = new]
      /\ kmb_cont' = Count(kva[d].kva_kvmbox)
      /\ UNCHANGED <<kbm_kmbhead, kbm_cachehead>>

(* vma_del_vadrs_core *)
VmaDelVadrs(m, s, e) ==
  \E i \in VmaFindArea(m, s, e) :
    LET a == kva[vs_list[m][i]]
    IN  /\ Unmapping(m, a.kva_kvmbox, s, e)
        /\ \/ Whole(a, s, e) /\ DelWhole(m, i)
           \/ /\ ~Whole(a, s, e) /\ (a.kva_start = s \/ a.kva_end = e)
              /\ DelEdge(m, i, s, e)
           \/ a.kva_start < s /\ e < a.kva_end /\ DelMiddle(m, i, s, e)

(* What is left of block b without the pages s .. e - 1 *)
Rest(b, s, e) == {r \in {<<b[1], s>>, <<e, b[2]>>} : r[1] < r[2]}
(* krlsve_core_mfreeblk: a program gives up a block, or a part of one. *)
Mfreeblk(m, b, s, e) ==
  /\ Runs(m) /\ (FreesAll \/ (HeapStart <= s /\ e <= StackStart))
  /\ VmaDelVadrs(m, s, e)
  /\ blocks' = [blocks EXCEPT ![m] = (@ \ {b}) \cup Rest(b, s, e)]
  /\ UNCHANGED <<stus, cr2, fault>>

-----------------------------------------------------------------------------
(* Pages come: faults.                                                     *)

(* A program touches a page that it was granted and that has no frame. *)
Touch(m, v) ==
  /\ Runs(m) /\ mapped[m][v] = NULL
  /\ cr2' = v /\ fault' = [fault EXCEPT ![m] = v]
  /\ UNCHANGED <<stus, areas, boxes, free, mapped, blocks>>

(* krlnew_thread puts a thread on the run list; krlthread_execvl has not   *)
(* been called when it fetches its first instruction.                      *)
TouchEarly(m) ==
  /\ RunsEarly /\ CpuFree /\ stus[m] = "new" /\ fault[m] = 0
  /\ cr2' = AppStart /\ fault' = [fault EXCEPT ![m] = AppStart]
  /\ UNCHANGED <<stus, areas, boxes, free, mapped, blocks>>

(* The handler is done with CR2; nobody else will read it before the next  *)
(* fault unless a handler was preempted.                                   *)
EndFault(m) ==
  /\ fault' = [fault EXCEPT ![m] = 0]
  /\ cr2' = IF \A o \in Mm \ {m} : fault[o] = 0 THEN 0 ELSE cr2
  /\ UNCHANGED <<vs_list, vs_currkmvdsc, blocks>>

(* vma_map_find_kmvarsdsc finds nothing: -EFAULT. *)
FaultNoArea(m) ==
  /\ Up /\ fault[m] # 0 /\ VmaFindArea(m, cr2, cr2 + 1) = {}
  /\ stus' = [stus EXCEPT ![m] = "EFAULT"]
  /\ EndFault(m)
  /\ UNCHANGED <<kva, boxes, free, mapped>>

BoxesToGetSwapped == \* from the wrong list
  IF kbm_cachehead # {} THEN kbm_kmbhead ELSE Box \ (kbm_kmbhead \cup kbm_cachehead)
(* knl_get_kvmemcbox takes a box from the cache before it makes one. *)
BoxesToGet ==
  IF kbm_cachehead # {} THEN kbm_cachehead ELSE Box \ (kbm_kmbhead \cup kbm_cachehead)

(* knl_get_kvmemcbox finds nothing: system_error. *)
FaultNoBox(m) ==
  /\ Up /\ fault[m] # 0 /\ BoxesToGet = {}
  /\ \E i \in VmaFindArea(m, cr2, cr2 + 1) : kva[vs_list[m][i]].kva_kvmbox = NULL
  /\ stus' = [stus EXCEPT ![m] = "ENOOBJ"]
  /\ EndFault(m)
  /\ UNCHANGED <<kva, boxes, free, mapped>>

(* vma_map_retn_kvmemcbox: the box b of area d; frames added to it are F.  *)
RetnKvmemcbox(d, b, F) ==
  \/ /\ kva[d].kva_kvmbox = b /\ b # NULL
     /\ kmb_msalist' = [kmb_msalist EXCEPT ![b] = @ \cup F]
     /\ UNCHANGED <<kva, kbm_kmbhead, kbm_cachehead, kmb_cont>>
  \/ /\ kva[d].kva_kvmbox = NULL /\ b \in BoxesToGet
     /\ kva' = [kva EXCEPT ![d].kva_kvmbox = b]
     /\ kbm_kmbhead' = kbm_kmbhead \cup {b}
     /\ kbm_cachehead' = kbm_cachehead \ {b}
     /\ kmb_cont' = [kmb_cont EXCEPT ![b] = 1]
     /\ kmb_msalist' = [kmb_msalist EXCEPT ![b] = F]

(* vma_map_fairvadrs_core: the page gets a frame. *)
FaultMapped(m) ==
  /\ Up /\ fault[m] # 0
  /\ \E i \in VmaFindArea(m, cr2, cr2 + 1), b \in Box, f \in free :
       /\ RetnKvmemcbox(vs_list[m][i], b, {f})
       /\ free' = free \ {f}
       /\ mapped' = [mapped EXCEPT ![m][cr2] = f]
  /\ EndFault(m)
  /\ UNCHANGED stus

FramesAfterFailureLost == {free \ {f} : f \in free} \* the frame is not given back
(* vma_new_usermsa finds no frame, or hal_mmu_transform fails for want of  *)
(* pages for tables and vma_del_usermsa gives the frame back.              *)
FramesAfterFailure == {free}
(* ... and the answer is -ENOMEM. *)
FaultNoMem(m) ==
  /\ Up /\ fault[m] # 0
  /\ \E i \in VmaFindArea(m, cr2, cr2 + 1), b \in Box : RetnKvmemcbox(vs_list[m][i], b, {})
  /\ free' \in FramesAfterFailure
  /\ stus' = [stus EXCEPT ![m] = "ENOMEM"]
  /\ EndFault(m)
  /\ UNCHANGED mapped

-----------------------------------------------------------------------------
Next ==
  \E m \in Mm :
    \/ NewMmadrsdsc(m) \/ TouchEarly(m)
    \/ \E n \in 1 .. MaxSize : Execvl(m, n) \/ Mallocblk(m, n)
    \/ \E b \in blocks[m] : \E v \in b[1] .. b[2] - 1 :
         Touch(m, v) \/ \E e \in v + 1 .. b[2] : Mfreeblk(m, b, v, e)
    \/ FaultNoArea(m) \/ FaultNoBox(m) \/ FaultMapped(m) \/ FaultNoMem(m)

Spec == Init /\ [][Next]_vars

-----------------------------------------------------------------------------
(* Properties.                                                             *)

(* Every variable has its type; no reference count falls below zero. *)
TypeOK ==
  /\ stus \in [Mm -> Stus]
  /\ vs_list \in [Mm -> Seq(Kmvd)]
  /\ vs_currkmvdsc \in [Mm -> Kmvd \cup {NULL}]
  /\ kva \in [Kmvd -> Area \cup {NULL}]
  /\ kbm_kmbhead \subseteq Box /\ kbm_cachehead \subseteq Box
  /\ kmb_cont \in [Box -> Nat]
  /\ kmb_msalist \in [Box -> SUBSET Frame]
  /\ free \subseteq Frame
  /\ mapped \in [Mm -> [Page -> Frame \cup {NULL}]]
  /\ cr2 \in 0 .. End - 1 /\ fault \in [Mm -> 0 .. End - 1]
  /\ blocks \in [Mm -> SUBSET (Page \X (2 .. End))]

(* The areas of an address space are not empty, lie in the order of the    *)
(* list, and do not overlap; a descriptor that kmsob gave out is on one    *)
(* list, once (vma_chk_one_kmva tests a part of this).  The area used last *)
(* is on the list, never one that has gone back to kmsob: the finds read   *)
(* through it before they look at the list.                                *)
AreasOrdered ==
  /\ \A m \in Mm : \A i, j \in DOMAIN vs_list[m] :
       /\ vs_list[m][i] \notin Unused
       /\ kva[vs_list[m][i]].kva_start < kva[vs_list[m][i]].kva_end
       /\ i < j => kva[vs_list[m][i]].kva_end <= kva[vs_list[m][j]].kva_start
  /\ \A d \in Kmvd \ Unused : \E m \in Mm : \E i \in DOMAIN vs_list[m] : vs_list[m][i] = d
  /\ \A m, o \in Mm : \A i \in DOMAIN vs_list[m] : \A j \in DOMAIN vs_list[o] :
       vs_list[m][i] = vs_list[o][j] => m = o /\ i = j
  /\ \A m \in Mm : vs_currkmvdsc[m] # NULL =>
       \E i \in DOMAIN vs_list[m] : vs_list[m][i] = vs_currkmvdsc[m]

Users(b) == {d \in Kmvd \ Unused : kva[d].kva_kvmbox = b}
(* The count of a box is the number of areas that use it, and the boxes in *)
(* use are those with a user: none is recycled under an area that was cut  *)
(* in two, and none is forgotten.                                          *)
BoxesCounted ==
  /\ kbm_kmbhead \cap kbm_cachehead = {}
  /\ \A b \in Box : /\ kmb_cont[b] = Cardinality(Users(b))
                    /\ b \in kbm_kmbhead <=> kmb_cont[b] > 0

(* The pages of address space m that area d has *)
HasPage(m, d, v) == /\ \E i \in DOMAIN vs_list[m] : vs_list[m][i] = d
                    /\ v \in kva[d].kva_start .. kva[d].kva_end - 1
(* A frame is free or in one box; no frame is behind two pages, of one     *)
(* program or of two; and the frame behind a page is in the box of the     *)
(* area of the page, so that whoever takes the page away finds it there.   *)
FramesApart ==
  /\ \A b, c \in Box : b # c => kmb_msalist[b] \cap kmb_msalist[c] = {}
  /\ \A b \in Box : free \cap kmb_msalist[b] = {}
  /\ \A m, o \in Mm, v, w \in Page :
       mapped[m][v] = mapped[o][w] /\ mapped[m][v] # NULL => m = o /\ v = w
  /\ \A m \in Mm, v \in Page : mapped[m][v] # NULL =>
       \E d \in Kmvd \ Unused :
         /\ HasPage(m, d, v)
         /\ kva[d].kva_kvmbox # NULL
         /\ mapped[m][v] \in kmb_msalist[kva[d].kva_kvmbox]

(* No frame is lost: one that is not free is behind a page. *)
FramesKept == \A f \in Frame \ free : \E m \in Mm, v \in Page : mapped[m][v] = f

(* What a program was granted and has not given up is apart from its other *)
(* blocks and within one area, and no page of an area is nobody's: so      *)
(* touching is answered, giving up finds the area, and nothing leaks.      *)
BlocksCovered ==
  \A m \in Mm :
    /\ \A b \in blocks[m] : b[1] < b[2] /\
         \E i \in DOMAIN vs_list[m] : /\ kva[vs_list[m][i]].kva_start <= b[1]
                                      /\ b[2] <= kva[vs_list[m][i]].kva_end
    /\ \A b, c \in blocks[m] : b = c \/ b[2] <= c[1] \/ c[2] <= b[1]
    /\ \A i \in DOMAIN vs_list[m] :
         \A v \in kva[vs_list[m][i]].kva_start .. kva[vs_list[m][i]].kva_end - 1 :
           \E b \in blocks[m] : v \in b[1] .. b[2] - 1

(* A program that touches only what it was granted is never told that the  *)
(* page is not there (halintupt.c: system_error on EFAULT).                *)
FaultsAnswered == \A m \in Mm : stus[m] # "EFAULT"

(* Virtual memory implements PrivMem: grants do not overlap, a page keeps  *)
(* its frame until it is given up, and no other page has that frame.       *)
Abstract == INSTANCE PrivMem WITH
  own <- [m \in Mm |-> UNION {b[1] .. b[2] - 1 : b \in blocks[m]}],
  frame <- mapped, NoFrame <- NULL
ImplementsPrivMem == Abstract!Spec
=============================================================================
