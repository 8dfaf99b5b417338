------------------------------ MODULE PageTable ------------------------------
(***************************************************************************)
(* The page tables of Cosmos, hal/x86/halmmu.c.                            *)
(*                                                                         *)
(* An address space (mmudsc_t) has a tree of tables: the root tdirearr,    *)
(* sdirearrs, idirearrs and mdirearrs, whose entries name the pages of     *)
(* the tables below them and, in the mdirearrs, the page that is mapped.   *)
(* The code has every function three times, once per level; here the       *)
(* level is a parameter.  Tables are made when a page is mapped and freed  *)
(* with their last entry; a table page is also on the list of its level    *)
(* (mud_tdirhead ... mud_mdirhead), by which hal_mmu_clean finds it.       *)
(*                                                                         *)
(* The tables of one address space change under vs_lock with interrupts    *)
(* off, so an operation is one step.  Which page the allocator picks for   *)
(* a table does not matter here.                                           *)
(***************************************************************************)
EXTENDS Integers

CONSTANTS
  Mmu,     \* mmudsc_t: address spaces
  Initmm,  \* initmmadrsdsc, the first one
  Page,    \* pages of the kernel area, for tables
  Msa,     \* pages that are mapped
  NoPage,  \* an entry that is zero
  Obj,     \* per level: 0 the root, 1 to 3 the tables, 4 the virtual pages
  up       \* per level 1 .. 4: the table of the level above with its entry

Virt  == Obj[4]
Level == 1 .. 4
Table == 1 .. 3

ASSUME TreeAssumption ==
  /\ Initmm \in Mmu
  /\ Page # {} /\ NoPage \notin Page \cup Msa
  /\ \E r \in Obj[0] : Obj[0] = {r}
  /\ \A k \in Level : up[k] \in [Obj[k] -> Obj[k - 1]]

VARIABLES
  mud_tdirearr,  \* per address space: the page of its root
  dire,          \* per address space and level: what the entries name
  mud_dirhead,   \* per address space, root or table level: pages on its list
  free,          \* pages of the allocator
  cr3            \* the address space that the CPU uses

vars == <<mud_tdirearr, dire, mud_dirhead, free, cr3>>

NoEntry(k)  == [n \in Obj[k] |-> NoPage]
NoEntries   == [k \in Level |-> NoEntry(k)]
NoPages     == [k \in 0 .. 3 |-> {}]

(* mmu_mdire_index, mmu_idire_index, ...: the table of level k on the way  *)
(* to virtual page v.                                                      *)
At(k, v) == CASE k = 3 -> up[4][v]
              [] k = 2 -> up[3][up[4][v]]
              [] k = 1 -> up[2][up[3][up[4][v]]]

-----------------------------------------------------------------------------
(* One level.  A tree is the part of the state an operation works on.      *)

Tree(m) == [dire |-> dire[m], head |-> mud_dirhead[m], free |-> free]
SetTree(m, t) == /\ dire' = [dire EXCEPT ![m] = t.dire]
                 /\ mud_dirhead' = [mud_dirhead EXCEPT ![m] = t.head]
                 /\ free' = t.free
                 /\ UNCHANGED <<mud_tdirearr, cr3>>

(* sdire_is_have, idire_is_have, mdire_is_have *)
Have(t, k, n) == t.dire[k][n] # NoPage
(* sdirearr_is_allzero, idirearr_is_allzero, mdirearr_is_allzero *)
AllZero(t, k, n) == \A c \in Obj[k + 1] : up[k + 1][c] = n => t.dire[k + 1][c] = NoPage

NewTableDirty(t, k, n) == \* without sdirearr_t_init, ...: what the page held before
  LET f == CHOOSE p \in t.free : TRUE
      o == CHOOSE p \in Msa : TRUE
  IN  [dire |-> [t.dire EXCEPT
                   ![k][n] = f,
                   ![k + 1] = [c \in Obj[k + 1] |-> IF up[k + 1][c] = n THEN o
                                                    ELSE t.dire[k + 1][c]]],
       head |-> [t.head EXCEPT ![k] = @ \cup {f}],
       free |-> t.free \ {f}]
(* mmu_new_sdirearr, ...: a page, all its entries zero. *)
NewTable(t, k, n) ==
  LET f == CHOOSE p \in t.free : TRUE
  IN  [dire |-> [t.dire EXCEPT
                   ![k][n] = f,
                   ![k + 1] = [c \in Obj[k + 1] |-> IF up[k + 1][c] = n THEN NoPage
                                                    ELSE t.dire[k + 1][c]]],
       head |-> [t.head EXCEPT ![k] = @ \cup {f}],
       free |-> t.free \ {f}]
(* mmu_transform_sdire, ...: the table if there is one, or a new one. *)
Transform(t, k, n) ==
  IF Have(t, k, n) \/ t.free = {} THEN t ELSE NewTable(t, k, n)

(* mmu_del_sdirearr, ... *)
DelTable(t, k, n) ==
  [dire |-> [t.dire EXCEPT ![k][n] = NoPage],
   head |-> [t.head EXCEPT ![k] = @ \ {t.dire[k][n]}],
   free |-> t.free \cup {t.dire[k][n]}]
UntransformAlways(t, k, n) == \* a table goes with any of its entries
  IF Have(t, k, n) THEN DelTable(t, k, n) ELSE t
UntransformListed(t, k, n) == \* without the list_del
  IF Have(t, k, n) /\ AllZero(t, k, n)
    THEN [DelTable(t, k, n) EXCEPT !.head = t.head] ELSE t
(* mmu_untransform_sdire, ..., which keep a table that has entries *)
Untransform(t, k, n) ==
  IF Have(t, k, n) /\ AllZero(t, k, n) THEN DelTable(t, k, n) ELSE t

(* mmu_transform_msa; mmu_untransform_msa for NoPage *)
SetMsa(t, v, x) == [t EXCEPT !.dire[4][v] = x]

-----------------------------------------------------------------------------
(* All levels.  The labels at the end of hal_mmu_transform_core and of     *)
(* hal_mmu_untransform_core: tables that are empty go, from the level that *)
(* was reached to the root.                                                *)
UntfSdire(t, v) == Untransform(t, 1, At(1, v))
UntfIdire(t, v) == UntfSdire(Untransform(t, 2, At(2, v)), v)
UntfMdireDown(t, v) == \* the levels in the order in which they were made
  Untransform(Untransform(UntfSdire(t, v), 2, At(2, v)), 3, At(3, v))
UntfMdire(t, v) == UntfIdire(Untransform(t, 3, At(3, v)), v)

TransformCoreBare(t, v, p) == \* tables made before a failure stay
  LET s == Transform(t, 1, At(1, v))
      i == Transform(s, 2, At(2, v))
      d == Transform(i, 3, At(3, v))
  IN  IF ~Have(s, 1, At(1, v)) THEN s
      ELSE IF ~Have(i, 2, At(2, v)) THEN i
      ELSE IF ~Have(d, 3, At(3, v)) THEN d
      ELSE SetMsa(d, v, p)
(* hal_mmu_transform_core *)
TransformCore(t, v, p) ==
  LET s == Transform(t, 1, At(1, v))
      i == Transform(s, 2, At(2, v))
      d == Transform(i, 3, At(3, v))
  IN  IF ~Have(s, 1, At(1, v)) THEN UntfSdire(s, v)
      ELSE IF ~Have(i, 2, At(2, v)) THEN UntfIdire(i, v)
      ELSE IF ~Have(d, 3, At(3, v)) THEN UntfMdire(d, v)
      ELSE SetMsa(d, v, p)

(* hal_mmu_untransform_core *)
UntransformCore(t, v) ==
  IF ~Have(t, 1, At(1, v)) THEN t
  ELSE IF ~Have(t, 2, At(2, v)) THEN UntfSdire(t, v)
  ELSE IF ~Have(t, 3, At(3, v)) THEN UntfIdire(t, v)
  ELSE UntfMdire(SetMsa(t, v, NoPage), v)

-----------------------------------------------------------------------------
Init ==
  LET f == CHOOSE p \in Page : TRUE
  IN  /\ mud_tdirearr = [m \in Mmu |-> IF m = Initmm THEN f ELSE NoPage]
      /\ dire = [m \in Mmu |-> NoEntries]
      /\ mud_dirhead = [m \in Mmu |-> [NoPages EXCEPT ![0] = IF m = Initmm THEN {f} ELSE {}]]
      /\ free = Page \ {f}
      /\ cr3 = Initmm

RootOfCurrent == dire[cr3][1] \* as hal_mmu_init once did: the tables of the running thread
(* The entries that hal_mmu_init copies: those of the kernel's table, of   *)
(* which no entry for addresses of programs is left.                       *)
RootEntries == NoEntry(1)
(* hal_mmu_init, for a new mmudsc_t *)
MmuInit(m) ==
  /\ mud_tdirearr[m] = NoPage /\ free # {}
  /\ LET f == CHOOSE p \in free : TRUE
     IN  /\ mud_tdirearr' = [mud_tdirearr EXCEPT ![m] = f]
         /\ mud_dirhead' = [mud_dirhead EXCEPT ![m][0] = @ \cup {f}]
         /\ free' = free \ {f}
  /\ dire' = [dire EXCEPT ![m][1] = RootEntries]
  /\ UNCHANGED cr3

(* hal_mmu_transform: map page p at v. *)
MmuTransform(m, v, p) ==
  /\ mud_tdirearr[m] # NoPage
  /\ SetTree(m, TransformCore(Tree(m), v, p))

(* hal_mmu_untransform: nothing at v any more. *)
MmuUntransform(m, v) ==
  /\ mud_tdirearr[m] # NoPage
  /\ SetTree(m, UntransformCore(Tree(m), v))

(* hal_mmu_load, by the thread that is given the CPU *)
MmuLoad(m) ==
  /\ mud_tdirearr[m] # NoPage
  /\ cr3' = m
  /\ UNCHANGED <<mud_tdirearr, dire, mud_dirhead, free>>

NotInUse(m) == FALSE \* without the test of cr3
InUse(m) == cr3 = m
(* hal_mmu_clean: all tables go, by the lists; del_mmadrsdsc forgets the   *)
(* mmudsc_t.  The address space that the CPU uses is refused.              *)
MmuClean(m) ==
  /\ mud_tdirearr[m] # NoPage /\ ~InUse(m)
  /\ free' = free \cup UNION {mud_dirhead[m][k] : k \in 0 .. 3}
  /\ mud_dirhead' = [mud_dirhead EXCEPT ![m] = NoPages]
  /\ mud_tdirearr' = [mud_tdirearr EXCEPT ![m] = NoPage]
  /\ dire' = [dire EXCEPT ![m] = NoEntries]
  /\ UNCHANGED cr3

Next ==
  \E m \in Mmu :
    \/ MmuInit(m)
    \/ \E v \in Virt, p \in Msa : MmuTransform(m, v, p)
    \/ \E v \in Virt : MmuUntransform(m, v)
    \/ MmuLoad(m)
    \/ MmuClean(m)

Spec == Init /\ [][Next]_vars

-----------------------------------------------------------------------------
(* Properties.                                                             *)

(* Every variable has its type. *)
TypeOK ==
  /\ mud_tdirearr \in [Mmu -> Page \cup {NoPage}]
  /\ DOMAIN dire = Mmu /\ DOMAIN mud_dirhead = Mmu
  /\ \A m \in Mmu :
       /\ DOMAIN dire[m] = Level
       /\ \A k \in Table : dire[m][k] \in [Obj[k] -> Page \cup {NoPage}]
       /\ dire[m][4] \in [Virt -> Msa \cup {NoPage}]
       /\ mud_dirhead[m] \in [0 .. 3 -> SUBSET Page]
  /\ free \subseteq Page
  /\ cr3 \in Mmu

(* What is mapped can be reached: the table above an entry exists. *)
Reachable ==
  \A m \in Mmu, k \in Level : \A n \in Obj[k] :
    dire[m][k][n] # NoPage =>
      IF k = 1 THEN mud_tdirearr[m] # NoPage ELSE dire[m][k - 1][up[k][n]] # NoPage

(* No table is empty: neither the failure to map a page for want of pages  *)
(* for tables nor the removal of the last page leaves one behind.          *)
NoEmptyTable ==
  \A m \in Mmu, k \in Table : \A n \in Obj[k] :
    dire[m][k][n] # NoPage => ~AllZero(Tree(m), k, n)

(* The page of table n of level k; level 0 is the root. *)
PageOf(m, k, n) == IF k = 0 THEN mud_tdirearr[m] ELSE dire[m][k][n]

(* A page is free or it is one table of one address space, on the list of  *)
(* its level; so hal_mmu_clean gives back the tables, each once, and no    *)
(* page is lost.                                                           *)
PagesPartition ==
  /\ \A m, o \in Mmu, k, l \in 0 .. 3 : \A n \in Obj[k], q \in Obj[l] :
       PageOf(m, k, n) = PageOf(o, l, q) /\ PageOf(m, k, n) # NoPage
         => m = o /\ k = l /\ n = q
  /\ \A p \in Page : p \in free <=>
       \A m \in Mmu, k \in 0 .. 3 : p \notin mud_dirhead[m][k]
  /\ \A m \in Mmu, k \in 0 .. 3, p \in Page : p \in mud_dirhead[m][k] <=>
       \E n \in Obj[k] : PageOf(m, k, n) = p

(* The CPU never uses tables that have been freed. *)
CpuHasTables == mud_tdirearr[cr3] # NoPage

(* What the processor finds at v: it walks the tables from the root. *)
Walk(m, v) ==
  IF mud_tdirearr[m] # NoPage /\ \A k \in Table : dire[m][k][At(k, v)] # NoPage
    THEN dire[m][4][v] ELSE NoPage

(* The tables implement PageMap: mapping and unmapping one page, whether   *)
(* it succeeds or fails half way, changes what the processor finds at that *)
(* page only, in that address space only; a new address space is empty.    *)
AbstractMap == INSTANCE PageMap WITH
  map <- [m \in Mmu |-> [v \in Virt |-> Walk(m, v)]],
  live <- {m \in Mmu : mud_tdirearr[m] # NoPage},
  current <- cr3
ImplementsPageMap == AbstractMap!Spec
=============================================================================
