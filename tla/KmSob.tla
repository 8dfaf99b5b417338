--------------------------------- MODULE KmSob ---------------------------------
(***************************************************************************)
(* Kernel objects of small sizes, hal/x86/kmsob.c.                         *)
(*                                                                         *)
(* The sizes are sorted into classes (koblst_t).  A class has slabs        *)
(* (kmsob_t) of objects of its size.  A slab starts with its descriptor in *)
(* the pages it was made from; when it has no object left it gets more     *)
(* pages, which start with a smaller descriptor (kmbext_t).  A slab gives  *)
(* its pages back when the last of its objects is deleted.                 *)
(*                                                                         *)
(* Every call holds ks_lock with interrupts off from its first look at the *)
(* classes to its last, so it is one step.  Addresses and sizes are counted*)
(* in a unit of any size.  A list whose order decides nothing but which of *)
(* several equal things is taken is a set.  so_mc, the list of the         *)
(* descriptors of the pages of a slab, and so_mextlst, the list of the     *)
(* descriptors inside these pages, change together and are so_mext here.   *)
(***************************************************************************)
EXTENDS Integers, FiniteSets

CONSTANTS
  NULL,
  PageNr,      \* pages of the memory
  RunSizes,    \* lengths of the page allocator's blocks: powers of two
  PAGESIZE,    \* size of a page
  KMSOB,       \* sizeof(kmsob_t)
  KMBEXT,      \* sizeof(kmbext_t)
  KOBLST_MAX,  \* number of classes
  ol_sz,       \* per class: the size of its objects
  pages_of     \* per class: pages asked for at a time

Page  == 0 .. PageNr - 1
Class == 1 .. KOBLST_MAX

(* Pages that the page allocator gives out together, and what a descriptor *)
(* of a slab says.                                                         *)
Run      == [msa : Page, relpnr : RunSizes]
Kmsob    == [so_objsz : Nat, mc_kmobin : Run, so_mext : SUBSET Run,
             so_frelst : SUBSET Nat, so_mobjnr : Nat, so_fobjnr : Nat]

ASSUME KmSobAssumption ==
  /\ PageNr \in Nat /\ PAGESIZE \in Nat \ {0} /\ KOBLST_MAX \in Nat \ {0}
  /\ RunSizes \subseteq Nat \ {0}
  /\ \A m, n \in RunSizes : m < n => 2 * m <= n
  /\ KMSOB \in Nat \ {0} /\ KMBEXT \in Nat \ {0}
  /\ ol_sz \in [Class -> Nat \ {0}] /\ pages_of \in [Class -> Nat \ {0}]
  /\ \A k \in Class : k > 1 => ol_sz[k - 1] < ol_sz[k]
  /\ NULL \notin Nat /\ NULL \notin Kmsob

VARIABLES
  runs,     \* runs of pages given out by the page allocator
  emplst,   \* per class: ol_emplst, its slabs
  cahe,     \* per class: ol_cahe, the slab last used
  kmsob,    \* per slab, named by its first page: its descriptor
  msobnr    \* ks_msobnr

sobvars == <<runs, emplst, cahe, kmsob, msobnr>>

SobInit ==
  /\ runs = {} /\ msobnr = 0
  /\ emplst = [k \in Class |-> {}] /\ cahe = [k \in Class |-> NULL]
  /\ kmsob = [p \in Page |-> NULL]

-----------------------------------------------------------------------------
(* mm_division_pages gives out a power of two of pages, not fewer than     *)
(* asked for; it may fail although there are as many free pages, and does  *)
(* when more are asked for than any of its lists holds.                    *)
Rounded(n)  == {m \in RunSizes : m >= n /\ m < 2 * n}
Relpnr(n)   == CHOOSE m \in Rounded(n) : TRUE
PagesOf(r)  == r.msa .. r.msa + r.relpnr - 1
FreeRuns(n) == {r \in Run : /\ r.relpnr \in Rounded(n) /\ PagesOf(r) \subseteq Page
                            /\ \A o \in runs : PagesOf(r) \cap PagesOf(o) = {}}

Vstat(r) == r.msa * PAGESIZE
Vend(r)  == (r.msa + r.relpnr) * PAGESIZE - 1

(* The loop that cuts the rest of the pages r behind a descriptor of size  *)
(* hdr into objects of size sz.                                            *)
Objects(r, hdr, sz) ==
  {ap \in Vstat(r) + hdr .. Vend(r) : (ap - Vstat(r) - hdr) % sz = 0 /\ ap + sz <= Vend(r)}

(* onmsz_retn_koblst *)
ClassesFor(msz) == {k \in Class : ol_sz[k] >= msz /\ \A j \in Class : ol_sz[j] >= msz => k <= j}

(* onkoblst_retn_newkmsob: the cached slab or the first of the list; a     *)
(* slab fits when its objects are large enough, also when none is left.    *)
NewSlab(k) == IF cahe[k] # NULL THEN {cahe[k]} ELSE emplst[k]

(* _create_kmsob *)
Fresh(r, k) ==
  [so_objsz |-> ol_sz[k], mc_kmobin |-> r, so_mext |-> {},
   so_frelst |-> Objects(r, KMSOB, ol_sz[k]),
   so_mobjnr |-> Cardinality(Objects(r, KMSOB, ol_sz[k])),
   so_fobjnr |-> Cardinality(Objects(r, KMSOB, ol_sz[k]))]
ExtendedNotCounted(s, r) ==
  LET new == Objects(r, KMBEXT, s.so_objsz)
  IN  [s EXCEPT !.so_mext = @ \cup {r}, !.so_frelst = @ \cup new, \* so_mobjnr is left
                !.so_fobjnr = @ + Cardinality(new)]
(* kmsob_extn_pages *)
Extended(s, r) ==
  LET new == Objects(r, KMBEXT, s.so_objsz)
  IN  [s EXCEPT !.so_mext = @ \cup {r}, !.so_frelst = @ \cup new,
                !.so_mobjnr = @ + Cardinality(new), !.so_fobjnr = @ + Cardinality(new)]
(* kmsob_new_opkmsob *)
Taken(s, adr) == [s EXCEPT !.so_frelst = @ \ {adr}, !.so_fobjnr = @ - 1]

(* kmsob_new_core for an object at adr.  When the page allocator has no    *)
(* pages nothing changes and NULL is returned.                             *)
KmsobNew(msz, adr) ==
  \E k \in ClassesFor(msz) :
    \/ \E p \in NewSlab(k) :
         /\ kmsob[p].so_fobjnr >= 1
         /\ adr \in kmsob[p].so_frelst
         /\ kmsob' = [kmsob EXCEPT ![p] = Taken(@, adr)]
         /\ cahe' = [cahe EXCEPT ![k] = p]
         /\ UNCHANGED <<runs, emplst, msobnr>>
    \/ \E p \in NewSlab(k), r \in FreeRuns(pages_of[k]) :
         /\ kmsob[p].so_fobjnr < 1
         /\ adr \in Extended(kmsob[p], r).so_frelst
         /\ runs' = runs \cup {r}
         /\ kmsob' = [kmsob EXCEPT ![p] = Taken(Extended(@, r), adr)]
         /\ cahe' = [cahe EXCEPT ![k] = p]
         /\ UNCHANGED <<emplst, msobnr>>
    \/ \E r \in FreeRuns(pages_of[k]) :
         /\ NewSlab(k) = {}
         /\ adr \in Fresh(r, k).so_frelst
         /\ runs' = runs \cup {r}
         /\ emplst' = [emplst EXCEPT ![k] = @ \cup {r.msa}]
         /\ msobnr' = msobnr + 1
         /\ kmsob' = [kmsob EXCEPT ![r.msa] = Taken(Fresh(r, k), adr)]
         /\ cahe' = [cahe EXCEPT ![k] = r.msa]

-----------------------------------------------------------------------------
(* scan_delkmsob_isok, scan_dfszkmsob_isok: the block lies behind one of   *)
(* the descriptors of the slab, and starts where an object does.           *)
Within(r, hdr, adr, fsz) == adr >= Vstat(r) + hdr /\ adr + fsz <= Vend(r)
AtObject(r, hdr, adr, sz) == adr + sz <= Vend(r) /\ (adr - Vstat(r) - hdr) % sz = 0
InSlab(s, adr, fsz) ==
  /\ fsz <= s.so_objsz
  /\ \/ Within(s.mc_kmobin, KMSOB, adr, fsz) /\ AtObject(s.mc_kmobin, KMSOB, adr, s.so_objsz)
     \/ \E r \in s.so_mext : Within(r, KMBEXT, adr, fsz) /\ AtObject(r, KMBEXT, adr, s.so_objsz)

(* kmsob_del_opkmsob *)
PutBack(s, adr) == [s EXCEPT !.so_frelst = @ \cup {adr}, !.so_fobjnr = @ + 1]
AllFreeOne(s) == s.so_mobjnr <= s.so_fobjnr + 1 \* the count before the last is enough
(* scan_freekmsob_isok *)
AllFree(s) == s.so_mobjnr = s.so_fobjnr

PagesGivenBackFirst(s) == {s.mc_kmobin} \* the extensions are forgotten
(* _destroy_kmsob_core: the pages of a slab go back one run after another. *)
PagesGivenBack(s) == s.so_mext \cup {s.mc_kmobin}

KmsobFound(adr, fsz) ==
  {p \in Page : \E k \in ClassesFor(fsz) : p \in emplst[k] /\ InSlab(kmsob[p], adr, fsz)
                                            /\ kmsob[p].so_fobjnr + 1 <= kmsob[p].so_mobjnr}
(* kmsob_delete_core *)
KmsobDelete(adr, fsz) ==
  \E k \in ClassesFor(fsz), p \in KmsobFound(adr, fsz) :
    LET s == PutBack(kmsob[p], adr)
    IN  \/ /\ AllFree(s)
           /\ emplst' = [emplst EXCEPT ![k] = @ \ {p}]
           /\ msobnr' = msobnr - 1
           /\ cahe' = [cahe EXCEPT ![k] = IF @ = p THEN NULL ELSE @]
           /\ runs' = runs \ PagesGivenBack(s)
           /\ kmsob' = [kmsob EXCEPT ![p] = NULL]
        \/ /\ ~AllFree(s)
           /\ kmsob' = [kmsob EXCEPT ![p] = s]
           /\ cahe' = [cahe EXCEPT ![k] = p]
           /\ UNCHANGED <<runs, emplst, msobnr>>
=============================================================================
