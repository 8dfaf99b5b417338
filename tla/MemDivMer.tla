------------------------------ MODULE MemDivMer ------------------------------
(***************************************************************************)
(* The physical page allocator of Cosmos, hal/x86/memdivmer.c.             *)
(*                                                                         *)
(* Every page has a descriptor (msadsc_t).  The descriptors lie in one     *)
(* array ordered by address, so a page is its index in that array; pages   *)
(* that are neighbours in the array may still be apart in memory           *)
(* (paf_padrs).  A memory area keeps one free list per block size; block   *)
(* sizes are the powers of two.  A request is cut out of the smallest      *)
(* block that is big enough, a run given back joins neighbours of its own  *)
(* size as long as there are any.  There are no aligned buddies: a block   *)
(* may start at any page.                                                  *)
(*                                                                         *)
(* An area is locked (ma_lock) while a block is cut or joined.  The loops  *)
(* of the code are written as one action per iteration, with the block     *)
(* that the caller has in its hands kept in call; what happens outside     *)
(* the lock, the test of a run to be given back and the fall-back from the *)
(* process area to the kernel area, interleaves with other callers.        *)
(*                                                                         *)
(* A free list is modelled as the set of its blocks: the model may take    *)
(* any block of the list where the code takes the first or the first that  *)
(* fits.  paf_alloc is not a variable of its own: the code sets it with    *)
(* the step of mf_uindx from 0 and clears it with the step back to 0.      *)
(***************************************************************************)
EXTENDS Integers, FiniteSets

CONSTANTS
  Caller,      \* threads that ask for pages and give them back
  Nobody,      \* ma_lock is free
  Area,        \* memory areas: those that cut and join blocks, and PROC
  KRNL, PROC,  \* MA_TYPE_KRNL and MA_TYPE_PROC
  PageNr,      \* number of page descriptors
  mf_marty,    \* per page: the area it belongs to
  paf_padrs,   \* per page: its page number in memory
  LMAX,        \* MDIVMER_ARR_LMAX: number of block sizes of an area
  af_oderpnr,  \* per size: the pages of a block of that size
  BootBlocks,  \* per area and size: first pages of the blocks free at boot
  MaxAsk       \* bound: the pages asked for in one request

Page  == 0 .. PageNr - 1
Order == 0 .. LMAX - 1

(* The last page of a block of order i that starts at page s. *)
End(s, i) == s + af_oderpnr[i] - 1
(* A block whose pages follow each other in memory, all in area a. *)
Continuous(s, i) == paf_padrs[End(s, i)] - paf_padrs[s] = af_oderpnr[i] - 1
InArea(a, s, i) ==
  s \in Page /\ End(s, i) \in Page /\ \A p \in s .. End(s, i) : mf_marty[p] = a
Apart(s, i, t, j) == End(s, i) < t \/ End(t, j) < s

ASSUME AreaAssumption ==
  /\ KRNL \in Area /\ PROC \in Area /\ KRNL # PROC
  /\ Nobody \notin Caller
  /\ PageNr \in Nat /\ LMAX \in Nat \ {0} /\ MaxAsk \in Nat
  /\ mf_marty \in [Page -> Area]
  /\ paf_padrs \in [Page -> Nat]
  /\ \A p, q \in Page : p < q => paf_padrs[q] - paf_padrs[p] >= q - p

ASSUME OderAssumption ==
  /\ af_oderpnr \in [Order -> Nat \ {0}]
  /\ af_oderpnr[0] = 1
  /\ \A i \in Order : i > 0 => af_oderpnr[i] = 2 * af_oderpnr[i - 1]

ASSUME BootAssumption ==
  /\ BootBlocks \in [Area -> [Order -> SUBSET Page]]
  /\ \A i \in Order : i > 0 => BootBlocks[PROC][i] = {}
  /\ \A a \in Area, i \in Order : \A s \in BootBlocks[a][i] :
       InArea(a, s, i) /\ Continuous(s, i)
  /\ \A a, b \in Area, i, j \in Order :
       \A s \in BootBlocks[a][i], t \in BootBlocks[b][j] :
         <<a, i, s>> # <<b, j, t>> => Apart(s, i, t, j)
  /\ \A a \in Area, i \in Order : \A s, t \in BootBlocks[a][i] :
       a # PROC /\ i < LMAX - 1 /\ End(s, i) + 1 = t
         => paf_padrs[End(s, i)] + 1 # paf_padrs[t]

(* Pages free at boot; the others are in use for ever (msadsc.c). *)
Managed == {p \in Page : \E a \in Area, i \in Order :
                            \E s \in BootBlocks[a][i] : p \in s .. End(s, i)}

VARIABLES
  af_frelst,     \* per area and size: first pages of the free blocks
  af_fobjnr,     \* per area and size: length kept beside the list
  ma_freepages,  \* per area: free pages
  ma_allocpages, \* per area: pages given out
  memmgrob,      \* mo_freepages and mo_alocpages of the whole machine
  mf_olkty,      \* per page: what md_odlink is
  md_odlink,     \* per page: last page of the block ("ODER"), list ("BAFH")
  mf_uindx,      \* per page: use count
  ma_lock,       \* per area: who holds its lock
  call,          \* per caller: where it is and the block in its hands
  held,          \* runs given out and not yet handed back
  died           \* system_error has been called

lists  == <<af_frelst, af_fobjnr>>
counts == <<ma_freepages, ma_allocpages, memmgrob>>
links  == <<mf_olkty, md_odlink>>
vars   == <<lists, counts, links, mf_uindx, ma_lock, call, held, died>>

NoLink == -1

(* "div": a block of order odr is being cut for a request of ask pages;    *)
(* "fallback": the process area had no page; "check": a run of ask pages   *)
(* has passed scan_freemsa_isok; "merge": it is being joined and has grown *)
(* to order odr.                                                           *)
Pc   == {"idle", "fallback", "div", "check", "merge"}
Call == [pc : Pc, msa : Page \cup {0}, odr : Order, ask : Nat]
Idle == [pc |-> "idle", msa |-> 0, odr |-> 0, ask |-> 0]

HasBlock(c) == call[c].pc \in {"div", "check", "merge"}
AreaOf(c)   == mf_marty[call[c].msa]
(* The process area keeps single pages (dm_onemsalst) and never joins. *)
TopOrder(a) == IF a = PROC THEN 0 ELSE LMAX - 1

-----------------------------------------------------------------------------
BootEnd(p, i)   == \E a \in Area : \E s \in BootBlocks[a][i] : p = End(s, i)
BootStart(p, i) == \E a \in Area : p \in BootBlocks[a][i]

Init ==
  /\ af_frelst = BootBlocks
  /\ af_fobjnr = [a \in Area |-> [i \in Order |-> Cardinality(BootBlocks[a][i])]]
  /\ ma_freepages = [a \in Area |->
                       Cardinality({p \in Managed : mf_marty[p] = a})]
  /\ ma_allocpages = [a \in Area |-> 0]
  /\ memmgrob = [mo_freepages |-> Cardinality(Managed), mo_alocpages |-> 0]
  /\ mf_olkty = [p \in Page |->
       IF \E i \in Order : BootEnd(p, i) THEN "BAFH"
       ELSE IF \E i \in Order : BootStart(p, i) THEN "ODER" ELSE "INIT"]
  /\ md_odlink = [p \in Page |->
       IF \E i \in Order : BootEnd(p, i)
         THEN CHOOSE i \in Order : BootEnd(p, i)
       ELSE IF \E i \in Order : BootStart(p, i)
         THEN End(p, CHOOSE i \in Order : BootStart(p, i))
       ELSE NoLink]
  /\ mf_uindx = [p \in Page |-> IF p \in Managed THEN 0 ELSE 1]
  /\ ma_lock = [a \in Area |-> Nobody]
  /\ call = [c \in Caller |-> Idle]
  /\ held = {}
  /\ died = FALSE

(* system_error spins for ever. *)
SystemError ==
  /\ died' = TRUE
  /\ UNCHANGED <<lists, counts, links, mf_uindx, ma_lock, call, held>>

Lock(a, c) == ma_lock[a] = Nobody /\ ma_lock' = [ma_lock EXCEPT ![a] = c]
Unlock(a)  == ma_lock' = [ma_lock EXCEPT ![a] = Nobody]

-----------------------------------------------------------------------------
(* Giving pages out.                                                       *)

DivOderUp(n) == CHOOSE i \in Order : \* the bit number without its - 1
  /\ af_oderpnr[i] > n \/ i = LMAX - 1
  /\ \A j \in Order : af_oderpnr[j] > n => i <= j
(* retn_divoder: the size of the smallest block of n pages or more. *)
DivOder(n) == CHOOSE i \in Order : /\ af_oderpnr[i] >= n
                                   /\ \A j \in Order : af_oderpnr[j] >= n => i <= j

DivListLargest(a, n) == \* as onma_retn_maxbafhlst
  LET enough == {i \in Order : af_oderpnr[i] >= n /\ af_fobjnr[a][i] > 0}
  IN  CHOOSE i \in enough : \A j \in enough : j <= i
(* onmpgs_retn_bafhlst: the smallest block that is big enough... *)
DivList(a, n) ==
  LET enough == {i \in Order : af_oderpnr[i] >= n /\ af_fobjnr[a][i] > 0}
  IN  CHOOSE i \in enough : \A j \in enough : i <= j
(* ...if there is one, and the count of the area agrees. *)
CanDiv(a, n) ==
  /\ ma_freepages[a] >= n
  /\ \E i \in Order : af_oderpnr[i] >= n /\ af_fobjnr[a][i] > 0
  /\ af_frelst[a][DivList(a, n)] # {}

OdEndLink(s) == md_odlink[s] \* a single free page names its list there
(* What the descriptor of the first page says is the last page. *)
OdEnd(s) == IF mf_olkty[s] = "BAFH" THEN s ELSE md_odlink[s]

(* Take a block of order i off its list.  One whose descriptor does not    *)
(* agree with the list is dropped.                                         *)
TakeBlock(c, a, i, n) ==
  \E s \in af_frelst[a][i] :
    /\ af_frelst' = [af_frelst EXCEPT ![a][i] = @ \ {s}]
    /\ af_fobjnr' = [af_fobjnr EXCEPT ![a][i] = @ - 1]
    /\ IF OdEnd(s) - s + 1 = af_oderpnr[i]
         THEN /\ call' = [call EXCEPT ![c] =
                            [pc |-> "div", msa |-> s, odr |-> i, ask |-> n]]
              /\ Lock(a, c)
         ELSE /\ call' = [call EXCEPT ![c] = Idle]
              /\ UNCHANGED ma_lock
    /\ UNCHANGED <<counts, links, mf_uindx, held, died>>

(* mm_division_pages. *)
DivisionPages(c, a, n) ==
  /\ call[c].pc = "idle" /\ a # PROC /\ ma_lock[a] = Nobody
  /\ CanDiv(a, n)
  /\ TakeBlock(c, a, DivList(a, n), n)

(* mm_divpages_procmarea: one page of the process area... *)
CanDivProc == ma_freepages[PROC] >= 1 /\ af_fobjnr[PROC][0] > 0 /\ af_frelst[PROC][0] # {}
DivProc(c) ==
  /\ call[c].pc = "idle" /\ ma_lock[PROC] = Nobody
  /\ CanDivProc
  /\ TakeBlock(c, PROC, 0, 1)

(* ...or, if it has none, of the kernel area, whose lock is taken later. *)
ProcEmpty(c) ==
  /\ call[c].pc = "idle" /\ ma_lock[PROC] = Nobody
  /\ ~CanDivProc
  /\ call' = [call EXCEPT ![c].pc = "fallback"]
  /\ UNCHANGED <<lists, counts, links, mf_uindx, ma_lock, held, died>>
DivFallback(c) ==
  /\ call[c].pc = "fallback" /\ ma_lock[KRNL] = Nobody
  /\ CanDiv(KRNL, 1)
  /\ TakeBlock(c, KRNL, DivList(KRNL, 1), 1)
NoPages(c) ==
  /\ call[c].pc = "fallback" /\ ma_lock[KRNL] = Nobody
  /\ ~CanDiv(KRNL, 1)
  /\ call' = [call EXCEPT ![c] = Idle]
  /\ UNCHANGED <<lists, counts, links, mf_uindx, ma_lock, held, died>>

Unused(s, e) == mf_uindx[s] = 0 /\ mf_uindx[e] = 0

(* One turn of the loop of mm_reldpgsdivmsa_bafhl: the upper half of the   *)
(* block goes to the list of its size.                                     *)
DivSplit(c) ==
  LET s == call[c].msa
      i == call[c].odr - 1
      u == s + af_oderpnr[i]
      e == md_odlink[s]
  IN  /\ call[c].pc = "div" /\ call[c].odr > DivOder(call[c].ask)
      /\ IF e - u + 1 = af_oderpnr[i] /\ Unused(u, e)
           THEN /\ mf_olkty' = [mf_olkty EXCEPT ![u] = "ODER", ![e] = "BAFH"]
                /\ md_odlink' = [md_odlink EXCEPT ![u] = e, ![e] = i, ![s] = u - 1]
                /\ af_frelst' = [af_frelst EXCEPT ![AreaOf(c)][i] = @ \cup {u}]
                /\ af_fobjnr' = [af_fobjnr EXCEPT ![AreaOf(c)][i] = @ + 1]
                /\ call' = [call EXCEPT ![c].odr = i]
                /\ UNCHANGED <<counts, mf_uindx, ma_lock, held, died>>
           ELSE SystemError

CountAllocHalf(a, n) == \* ma_allocpages is not raised
  /\ ma_freepages' = [ma_freepages EXCEPT ![a] = @ - n]
  /\ UNCHANGED ma_allocpages
  /\ memmgrob' = [mo_freepages |-> memmgrob.mo_freepages - n,
                  mo_alocpages |-> memmgrob.mo_alocpages + n]
(* mm_update_memarea and mm_update_memmgrob. *)
CountAlloc(a, n) ==
  /\ ma_freepages' = [ma_freepages EXCEPT ![a] = @ - n]
  /\ ma_allocpages' = [ma_allocpages EXCEPT ![a] = @ + n]
  /\ memmgrob' = [mo_freepages |-> memmgrob.mo_freepages - n,
                  mo_alocpages |-> memmgrob.mo_alocpages + n]

(* mm_divpages_opmsadsc; then the counts, and the lock is released. *)
DivDone(c) ==
  LET s == call[c].msa
      i == call[c].odr
      e == OdEnd(s)
  IN  /\ call[c].pc = "div" /\ i <= DivOder(call[c].ask)
      /\ IF /\ mf_olkty[s] \in {"ODER", "BAFH"}
            /\ e - s + 1 = af_oderpnr[i]
            /\ Unused(s, e)
           THEN /\ mf_uindx' = [mf_uindx EXCEPT ![s] = 1, ![e] = 1]
                /\ mf_olkty' = [mf_olkty EXCEPT ![s] = "ODER"]
                /\ md_odlink' = [md_odlink EXCEPT ![s] = e]
                /\ CountAlloc(AreaOf(c), af_oderpnr[i])
                /\ Unlock(AreaOf(c))
                /\ held' = held \cup {<<s, i>>}
                /\ call' = [call EXCEPT ![c] = Idle]
                /\ UNCHANGED <<lists, died>>
           ELSE SystemError

-----------------------------------------------------------------------------
(* Taking pages back.                                                      *)

(* onfrmsa_retn_marea and scan_freemsa_isok. *)
FreeIsOk(s, i) ==
  /\ mf_olkty[s] = "ODER"
  /\ md_odlink[s] - s + 1 = af_oderpnr[i]
  /\ mf_marty[md_odlink[s]] = mf_marty[s]
  /\ mf_uindx[s] > 0 /\ mf_uindx[md_odlink[s]] > 0

(* mm_merge_pages up to the lock.  A caller gives a run it holds back once *)
(* and names the number of pages it was given.                             *)
MergePages(c, r) ==
  /\ call[c].pc = "idle"
  /\ FreeIsOk(r[1], r[2])
  /\ held' = held \ {r}
  /\ call' = [call EXCEPT ![c] = [pc |-> "check", msa |-> r[1],
                                      odr |-> r[2], ask |-> af_oderpnr[r[2]]]]
  /\ UNCHANGED <<lists, counts, links, mf_uindx, ma_lock, died>>

(* mm_merpages_opmsadsc: is the run s .. e of n pages in use? *)
RunIsUsed(s, e, n) ==
  /\ mf_olkty[s] = "ODER"
  /\ e - s + 1 = n
  /\ mf_uindx[s] > 0 /\ mf_uindx[s] = mf_uindx[e]
(* The list for a run of n pages: dm_onemsalst, or by onfpgs_retn_bafhlst. *)
FreeList(a, n) == IF a = PROC THEN 0 ELSE DivOder(n)

DropUseFirst(c, s, e, k) == \* the last page keeps its use count
  /\ mf_uindx' = [mf_uindx EXCEPT ![s] = mf_uindx[s] - 1]
  /\ mf_olkty' = [mf_olkty EXCEPT ![s] = "ODER", ![e] = "BAFH"]
  /\ md_odlink' = [md_odlink EXCEPT ![s] = e, ![e] = k]
  /\ call' = [call EXCEPT ![c].pc = "merge", ![c].odr = k]
  /\ Lock(AreaOf(c), c)
(* mm_merpages_onmarea, up to the loop that joins.  Only the last user of  *)
(* a run frees it.                                                         *)
DropUse(c, s, e, k) ==
  /\ mf_uindx' = [mf_uindx EXCEPT ![s] = mf_uindx[s] - 1, ![e] = mf_uindx[s] - 1]
  /\ IF mf_uindx[s] > 1
       THEN call' = [call EXCEPT ![c] = Idle] /\ UNCHANGED <<links, ma_lock>>
       ELSE /\ mf_olkty' = [mf_olkty EXCEPT ![s] = "ODER", ![e] = "BAFH"]
            /\ md_odlink' = [md_odlink EXCEPT ![s] = e, ![e] = k]
            /\ call' = [call EXCEPT ![c].pc = "merge", ![c].odr = k]
            /\ Lock(AreaOf(c), c)
MergeStart(c) ==
  LET s == call[c].msa
      e == md_odlink[s]
      n == call[c].ask
      k == FreeList(AreaOf(c), n)
  IN  /\ call[c].pc = "check" /\ ma_lock[AreaOf(c)] = Nobody
      /\ IF af_oderpnr[k] # n /\ AreaOf(c) # PROC
           THEN call' = [call EXCEPT ![c] = Idle]
                /\ UNCHANGED <<lists, counts, links, mf_uindx, ma_lock, held, died>>
         ELSE IF af_oderpnr[k] = n /\ RunIsUsed(s, e, n)
           THEN DropUse(c, s, e, k) /\ UNCHANGED <<lists, counts, held, died>>
         ELSE SystemError

(* mm_cmsa1blk_isok: the descriptors of a free block agree with its list. *)
BlockIsOk(s, i) ==
  LET e == End(s, i)
  IN  /\ e \in Page
      /\ mf_olkty[e] = "BAFH" /\ md_odlink[e] = i
      /\ Unused(s, e)
      /\ s # e => mf_olkty[s] = "ODER" /\ md_odlink[s] = e
      /\ Continuous(s, i)
(* mm_find_cmsa2blk walks the list of the size of the block in hand. *)
Visited(c) ==
  LET i == call[c].odr
  IN  IF i < TopOrder(AreaOf(c)) /\ af_fobjnr[AreaOf(c)][i] > 0
        THEN af_frelst[AreaOf(c)][i] ELSE {}
ListIsOk(c) ==
  Visited(c) = {} \/ \A s \in Visited(c) \cup {call[c].msa} : BlockIsOk(s, call[c].odr)

FollowsInArray(s, t, i) == End(s, i) + 1 = t \* whatever paf_padrs says
(* mm_cmsa2blk_isok: block t follows block s, in memory too. *)
Follows(s, t, i) ==
  End(s, i) + 1 = t /\ paf_padrs[End(s, i)] + 1 = paf_padrs[t]

Neighbours(c) ==
  {t \in Visited(c) : \/ Follows(call[c].msa, t, call[c].odr)
                      \/ Follows(t, call[c].msa, call[c].odr)}

ClearLinksOff(s, t, i) == \* tmpmsa[af_oderpnr] is taken for the last page
  /\ mf_olkty' = [mf_olkty EXCEPT ![End(s, i)] = "INIT", ![t] = "INIT",
                                  ![s] = "ODER", ![End(t, i) + 1] = "BAFH"]
  /\ md_odlink' = [md_odlink EXCEPT ![End(s, i)] = NoLink, ![t] = NoLink,
                                    ![s] = End(t, i), ![End(t, i) + 1] = i + 1]
(* mm_clear_2msaolflg for the blocks at s and t, s first. *)
ClearLinks(s, t, i) ==
  /\ mf_olkty' = [mf_olkty EXCEPT ![End(s, i)] = "INIT", ![t] = "INIT",
                                  ![s] = "ODER", ![End(t, i)] = "BAFH"]
  /\ md_odlink' = [md_odlink EXCEPT ![End(s, i)] = NoLink, ![t] = NoLink,
                                    ![s] = End(t, i), ![End(t, i)] = i + 1]

(* One turn of the loop of mm_merpages_onbafhlst that finds a neighbour. *)
MergeJoin(c) ==
  LET s == call[c].msa
      i == call[c].odr
      a == AreaOf(c)
  IN  /\ call[c].pc = "merge" /\ ListIsOk(c)
      /\ \E t \in Neighbours(c) :
           /\ af_frelst' = [af_frelst EXCEPT ![a][i] = @ \ {t}]
           /\ af_fobjnr' = [af_fobjnr EXCEPT ![a][i] = @ - 1]
           /\ IF s < t THEN ClearLinks(s, t, i) ELSE ClearLinks(t, s, i)
           /\ call' = [call EXCEPT ![c].msa = IF s < t THEN s ELSE t, ![c].odr = i + 1]
           /\ UNCHANGED <<counts, mf_uindx, ma_lock, held, died>>

CountFreeLocal(a, n) == \* the machine's count is not touched
  /\ ma_freepages' = [ma_freepages EXCEPT ![a] = @ + n]
  /\ ma_allocpages' = [ma_allocpages EXCEPT ![a] = @ - n]
  /\ UNCHANGED memmgrob
(* mm_update_memarea and mm_update_memmgrob the other way. *)
CountFree(a, n) ==
  /\ ma_freepages' = [ma_freepages EXCEPT ![a] = @ + n]
  /\ ma_allocpages' = [ma_allocpages EXCEPT ![a] = @ - n]
  /\ memmgrob' = [mo_freepages |-> memmgrob.mo_freepages + n,
                  mo_alocpages |-> memmgrob.mo_alocpages - n]

(* mpobf_add_msadsc when no neighbour is left or the block is as big as    *)
(* blocks get; the counts rise by the pages of the run that was given      *)
(* back, and the lock is released.                                         *)
MergeDone(c) ==
  LET s == call[c].msa
      i == call[c].odr
      a == AreaOf(c)
  IN  /\ call[c].pc = "merge" /\ (ListIsOk(c) => Neighbours(c) = {})
      /\ IF ListIsOk(c)
           THEN /\ mf_olkty' = [mf_olkty EXCEPT ![s] = "ODER", ![End(s, i)] = "BAFH"]
                /\ md_odlink' = [md_odlink EXCEPT ![s] = End(s, i), ![End(s, i)] = i]
                /\ af_frelst' = [af_frelst EXCEPT ![a][i] = @ \cup {s}]
                /\ af_fobjnr' = [af_fobjnr EXCEPT ![a][i] = @ + 1]
                /\ CountFree(a, call[c].ask)
                /\ Unlock(a)
                /\ call' = [call EXCEPT ![c] = Idle]
                /\ UNCHANGED <<mf_uindx, held, died>>
           ELSE SystemError

-----------------------------------------------------------------------------
Next ==
  /\ ~died
  /\ \E c \in Caller :
       \/ \E a \in Area, n \in 1 .. MaxAsk : DivisionPages(c, a, n)
       \/ DivProc(c)
       \/ ProcEmpty(c)
       \/ DivFallback(c)
       \/ NoPages(c)
       \/ DivSplit(c)
       \/ DivDone(c)
       \/ \E r \in held : MergePages(c, r)
       \/ MergeStart(c)
       \/ MergeJoin(c)
       \/ MergeDone(c)

Spec == Init /\ [][Next]_vars

-----------------------------------------------------------------------------
(* Properties.                                                             *)

TypeOK ==
  /\ af_frelst \in [Area -> [Order -> SUBSET Page]]
  /\ af_fobjnr \in [Area -> [Order -> Nat]]
  /\ ma_freepages \in [Area -> Nat] /\ ma_allocpages \in [Area -> Nat]
  /\ memmgrob \in [mo_freepages : Nat, mo_alocpages : Nat]
  /\ mf_olkty \in [Page -> {"INIT", "ODER", "BAFH"}]
  /\ md_odlink \in [Page -> Page \cup Order \cup {NoLink}]
  /\ mf_uindx \in [Page -> 0 .. 1]
  /\ ma_lock \in [Area -> Caller \cup {Nobody}]
  /\ call \in [Caller -> Call]
  /\ held \subseteq Page \X Order
  /\ died \in BOOLEAN

(* A piece of memory is a free block, a run given out, or the block in a   *)
(* caller's hands: <<kind, where, first page, order>>.                     *)
Pieces ==
  LET free == {x \in Area \X Order \X Page : x[3] \in af_frelst[x[1]][x[2]]}
  IN  {<<"free", x[1], x[3], x[2]>> : x \in free}
      \cup {<<"held", Nobody, r[1], r[2]>> : r \in held}
      \cup {<<"hand", c, call[c].msa, call[c].odr>> : c \in {d \in Caller : HasBlock(d)}}

(* No page is ever in two pieces and none is lost: what the callers hold,  *)
(* what is being cut or joined and what is free make up all the memory     *)
(* that was free at boot, and a block is free in the area it belongs to.   *)
PagesPartition ==
  /\ \A x, y \in Pieces : x # y => Apart(x[3], x[4], y[3], y[4])
  /\ Managed = UNION {x[3] .. End(x[3], x[4]) : x \in Pieces}
  /\ \A x \in Pieces : InArea(mf_marty[x[3]], x[3], x[4])
                       /\ (x[1] = "free" => x[2] = mf_marty[x[3]])

(* The pages of a run given out follow each other in memory, however often *)
(* its blocks were cut and joined across the holes of the page array.      *)
RunsContinuous == \A r \in held : Continuous(r[1], r[2])

(* Joining goes all the way: two free neighbours of the same size never    *)
(* stay apart below the largest size.  Halves are put on lists without     *)
(* looking for neighbours, which is right only because a request is cut    *)
(* out of the smallest block that is big enough.                           *)
NoFreeNeighbours ==
  \A a \in Area \ {PROC}, i \in Order :
    i < LMAX - 1 => \A s, t \in af_frelst[a][i] : ~Follows(s, t, i)

(* Pages of an area that no caller holds. *)
Unheld(a) ==
  {p \in Managed :
     /\ mf_marty[p] = a
     /\ \A r \in held : p \notin r[1] .. End(r[1], r[2])
     /\ \A c \in Caller : call[c].pc = "check"
                            => p \notin call[c].msa .. End(call[c].msa, call[c].odr)}

(* Pages of a block that is being joined, not yet counted as free. *)
Pending(a) == LET c == ma_lock[a]
              IN  IF c # Nobody /\ call[c].pc = "merge" THEN call[c].ask ELSE 0

(* The counts of the lists, of the areas and of the machine agree with the *)
(* memory that callers hold; a block being cut or joined is still counted  *)
(* where it was before its lock was taken.                                 *)
CountsMatch ==
  /\ \A a \in Area, i \in Order : af_fobjnr[a][i] = Cardinality(af_frelst[a][i])
  /\ \A a \in Area :
       /\ ma_freepages[a] + Pending(a) = Cardinality(Unheld(a))
       /\ ma_freepages[a] + ma_allocpages[a]
            = Cardinality({p \in Managed : mf_marty[p] = a})
  /\ (\A a \in Area : Pending(a) = 0)
       => memmgrob.mo_freepages = Cardinality(UNION {Unheld(a) : a \in Area})
  /\ memmgrob.mo_freepages + memmgrob.mo_alocpages = Cardinality(Managed)

(* No check of a descriptor ever fails: neither the descriptors left       *)
(* behind in the middle of blocks by cutting and joining, nor those of     *)
(* neighbours, nor a run that passed its test before the lock was taken.   *)
NeverHalts == ~died

(* While a caller holds a run, whatever others do to the blocks next to it *)
(* leaves the descriptors that describe it alone.                          *)
HeldUntouched ==
  [][\A r \in held \cap held' : \A p \in {r[1], End(r[1], r[2])} :
       /\ mf_uindx'[p] = mf_uindx[p]
       /\ p = r[1] => mf_olkty'[p] = mf_olkty[p] /\ md_odlink'[p] = md_odlink[p]]_vars

(* A request is served with the smallest run that is long enough.          *)
RunFits ==
  [][\A c \in Caller, r \in held' \ held :
       call[c].pc = "div" /\ call'[c].pc = "idle"
         => af_oderpnr[r[2]] >= call[c].ask /\ af_oderpnr[r[2]] < 2 * call[c].ask]_vars

(* The allocator implements PageRuns: runs of one area are given out that  *)
(* nobody holds and are taken back whole, and the count of the area moves  *)
(* by their pages.  A run is given up when its merge begins.               *)
Runs == {r[1] .. End(r[1], r[2]) : r \in held}
        \cup {call[c].msa .. End(call[c].msa, call[c].odr) :
                c \in {d \in Caller : call[d].pc = "check"}}
AbstractRuns == INSTANCE PageRuns
  WITH Pages <- [a \in Area |-> {p \in Managed : mf_marty[p] = a}],
       runs <- Runs,
       free <- [a \in Area |-> ma_freepages[a] + Pending(a)]
ImplementsPageRuns == AbstractRuns!Spec
=============================================================================
