----------------------------- MODULE KrlPoolProofs -----------------------------
(* Theorems about the kernel memory pool and its slabs, for every memory,  *)
(* every set of classes of objects and every set of sizes.                 *)
EXTENDS KrlPool, FiniteSetTheorems, TLAPS

-----------------------------------------------------------------------------
(* Addresses and pages.                                                    *)

LEMMA Multiple ==
  ASSUME NEW a \in Nat, NEW b \in Nat, NEW c \in Nat, a <= b
  PROVE  a * c \in Nat /\ a * c <= b * c
OBVIOUS

LEMMA DivMod ==
  ASSUME NEW n \in Nat, NEW a \in Nat \ {0}
  PROVE  /\ n \div a \in Nat /\ n % a \in 0 .. a - 1
         /\ n = (n \div a) * a + (n % a)
OBVIOUS

LEMMA AlignUpIs ==
  ASSUME NEW n \in Nat, NEW a \in Nat \ {0}
  PROVE  AlignUp(n, a) \in Nat /\ AlignUp(n, a) >= n
<1> DEFINE x == n + a - 1
           q == x \div a
           m == x % a
<1>1. q \in Nat /\ m \in 0 .. a - 1 /\ n + a - 1 = q * a + m
  <2>1. x \in Nat
    OBVIOUS
  <2> HIDE DEF x
  <2>2. q \in Nat /\ m \in 0 .. a - 1 /\ x = q * a + m
    BY <2>1, DivMod
  <2>3. QED
    BY <2>2 DEF x
<1> HIDE DEF q, m
<1>2. q * a \in Nat
  BY <1>1
<1>3. q * a >= n
  BY <1>1, <1>2
<1>4. QED
  BY <1>2, <1>3 DEF AlignUp, q

LEMMA DivOf ==
  ASSUME NEW q \in Nat, NEW a \in Nat \ {0}
  PROVE  (q * a) \div a = q
OBVIOUS

LEMMA PagesIs ==
  ASSUME NEW n \in Nat \ {0}
  PROVE  Pages(n) \in Nat \ {0} /\ Pages(n) * PAGESIZE >= n
<1> DEFINE q == (n + PAGESIZE - 1) \div PAGESIZE
<1>1. PAGESIZE \in Nat \ {0}
  BY KmSobAssumption
<1>2. q \in Nat
  BY <1>1, DivMod
<1>3. AlignUp(n, PAGESIZE) = q * PAGESIZE
  BY DEF AlignUp
<1>4. q * PAGESIZE >= n
  BY <1>1, <1>3, AlignUpIs
<1> HIDE DEF q
<1>5. q # 0
  BY <1>1, <1>4
<1>6. Pages(n) = q
  BY <1>1, <1>2, <1>3, DivOf DEF Pages
<1>7. QED
  BY <1>2, <1>4, <1>5, <1>6

(* There is one power of two at least as large as n and less than twice n. *)
LEMMA RelpnrIs ==
  ASSUME NEW n \in Nat \ {0}, NEW m \in Rounded(n)
  PROVE  Relpnr(n) = m
<1>1. m \in RunSizes /\ m >= n /\ m < 2 * n
  BY DEF Rounded
<1>2. ASSUME NEW x \in RunSizes, x >= n, x < 2 * n PROVE x = m
  <2>1. m \in Nat /\ x \in Nat /\ (x < m => 2 * x <= m) /\ (m < x => 2 * m <= x)
    BY <1>1, KmSobAssumption
  <2>2. QED
    BY <1>1, <1>2, <2>1
<1>3. Rounded(n) = {m}
  BY <1>1, <1>2 DEF Rounded
<1>4. QED
  BY <1>3 DEF Relpnr

LEMMA RunIs ==
  ASSUME NEW r \in Run
  PROVE  /\ r.msa \in Nat /\ r.relpnr \in Nat \ {0}
         /\ Vstat(r) \in Nat /\ Vend(r) \in Nat
         /\ Vstat(r) \div PAGESIZE = r.msa
<1>1. PAGESIZE \in Nat \ {0} /\ PageNr \in Nat /\ RunSizes \subseteq Nat \ {0}
  BY KmSobAssumption
<1>2. r.msa \in Nat /\ r.relpnr \in Nat \ {0}
  <2>1. r.msa \in Page /\ r.relpnr \in RunSizes
    BY DEF Run
  <2>2. r.relpnr \in Nat \ {0}
    BY <1>1, <2>1, Zenon
  <2>3. r.msa \in Nat
    BY <1>1, <2>1 DEF Page
  <2>4. QED
    BY <2>2, <2>3
<1>3. r.msa * PAGESIZE \in Nat /\ (r.msa + r.relpnr) * PAGESIZE \in Nat \ {0}
  BY <1>1, <1>2
<1>4. Vstat(r) \div PAGESIZE = r.msa
  BY <1>1, <1>2, DivOf DEF Vstat
<1>5. QED
  BY <1>2, <1>3, <1>4 DEF Vstat, Vend

(* Runs that share no page share no address.                               *)
LEMMA Apart ==
  ASSUME NEW r \in Run, NEW o \in Run, PagesOf(r) \cap PagesOf(o) = {}
  PROVE  Vend(r) < Vstat(o) \/ Vend(o) < Vstat(r)
<1>1. PAGESIZE \in Nat \ {0}
  BY KmSobAssumption
<1>2. /\ r.msa \in Nat /\ r.relpnr \in Nat \ {0}
      /\ o.msa \in Nat /\ o.relpnr \in Nat \ {0}
  BY RunIs
<1>3. r.msa + r.relpnr <= o.msa \/ o.msa + o.relpnr <= r.msa
  <2>1. SUFFICES ASSUME r.msa + r.relpnr > o.msa, o.msa + o.relpnr > r.msa PROVE FALSE
    BY <1>2
  <2>2. CASE r.msa <= o.msa
    BY <1>2, <2>1, <2>2 DEF PagesOf
  <2>3. CASE o.msa < r.msa
    BY <1>2, <2>1, <2>3 DEF PagesOf
  <2>4. QED
    BY <1>2, <2>2, <2>3
<1>4. \/ (r.msa + r.relpnr) * PAGESIZE <= o.msa * PAGESIZE
      \/ (o.msa + o.relpnr) * PAGESIZE <= r.msa * PAGESIZE
  BY <1>1, <1>2, <1>3, Multiple
<1>5. /\ (r.msa + r.relpnr) * PAGESIZE \in Nat /\ (o.msa + o.relpnr) * PAGESIZE \in Nat
      /\ r.msa * PAGESIZE \in Nat /\ o.msa * PAGESIZE \in Nat
  BY <1>1, <1>2
<1>6. QED
  BY <1>4, <1>5 DEF Vstat, Vend

(* A run of the memory has its addresses in it.                            *)
LEMMA InMemory ==
  ASSUME NEW r \in Run, PagesOf(r) \subseteq Page
  PROVE  Vend(r) <= PageNr * PAGESIZE - 1
<1>1. PAGESIZE \in Nat \ {0} /\ PageNr \in Nat
  BY KmSobAssumption
<1>2. r.msa \in Nat /\ r.relpnr \in Nat \ {0}
  BY RunIs
<1>3. r.msa + r.relpnr - 1 \in PagesOf(r)
  BY <1>2 DEF PagesOf
<1>4. r.msa + r.relpnr <= PageNr
  BY <1>1, <1>2, <1>3 DEF Page
<1>5. (r.msa + r.relpnr) * PAGESIZE <= PageNr * PAGESIZE
  BY <1>1, <1>2, <1>4, Multiple
<1>6. (r.msa + r.relpnr) * PAGESIZE \in Nat /\ PageNr * PAGESIZE \in Nat
  BY <1>1, <1>2
<1>7. QED
  BY <1>5, <1>6 DEF Vend

-----------------------------------------------------------------------------
(* Objects.                                                                *)

LEMMA ObjectsIs ==
  ASSUME NEW r \in Run, NEW h \in Nat, NEW sz \in Nat \ {0}
  PROVE  /\ Objects(r, h, sz) \subseteq Nat
         /\ IsFiniteSet(Objects(r, h, sz))
         /\ \A a \in Objects(r, h, sz) :
              /\ a >= Vstat(r) + h /\ a + sz <= Vend(r)
              /\ (a - Vstat(r) - h) % sz = 0
         /\ \A a : /\ a \in Nat /\ a >= Vstat(r) + h /\ a + sz <= Vend(r)
                   /\ (a - Vstat(r) - h) % sz = 0
                   => a \in Objects(r, h, sz)
<1>1. Vstat(r) \in Nat /\ Vend(r) \in Nat
  BY RunIs
<1>2. IsFiniteSet(Vstat(r) + h .. Vend(r))
  BY <1>1, FS_Interval
<1>3. Objects(r, h, sz) \subseteq Vstat(r) + h .. Vend(r)
  BY DEF Objects
<1>4. IsFiniteSet(Objects(r, h, sz))
  BY <1>2, <1>3, FS_Subset
<1>5. QED
  BY <1>1, <1>3, <1>4 DEF Objects

(* Objects of one run do not overlap.                                      *)
LEMMA ObjectsApart ==
  ASSUME NEW r \in Run, NEW h \in Nat, NEW sz \in Nat \ {0},
         NEW a \in Objects(r, h, sz), NEW b \in Objects(r, h, sz), a < b
  PROVE  a + sz <= b
<1>1. Vstat(r) \in Nat /\ a \in Nat /\ b \in Nat
  BY RunIs, ObjectsIs
<1> DEFINE x == a - Vstat(r) - h
           y == b - Vstat(r) - h
<1>2. x \in Nat /\ y \in Nat /\ x % sz = 0 /\ y % sz = 0
  <2>1. a >= Vstat(r) + h /\ b >= Vstat(r) + h /\ x % sz = 0 /\ y % sz = 0
    BY ObjectsIs
  <2>2. QED
    BY <1>1, <2>1
<1> HIDE DEF x, y
<1>3. x = (x \div sz) * sz /\ y = (y \div sz) * sz /\ x \div sz \in Nat /\ y \div sz \in Nat
  <2>1. /\ x = (x \div sz) * sz + (x % sz) /\ x \div sz \in Nat
        /\ y = (y \div sz) * sz + (y % sz) /\ y \div sz \in Nat
    BY <1>2, DivMod
  <2>2. (x \div sz) * sz \in Nat /\ (y \div sz) * sz \in Nat
    BY <2>1
  <2>3. QED
    BY <1>2, <2>1, <2>2
<1>4. x < y
  BY <1>1 DEF x, y
<1>5. x \div sz < y \div sz
  <2>1. SUFFICES ASSUME y \div sz <= x \div sz PROVE FALSE
    BY <1>3
  <2>2. (y \div sz) * sz <= (x \div sz) * sz
    BY <1>3, <2>1, Multiple
  <2>3. QED
    BY <1>2, <1>3, <1>4, <2>2
<1>6. (x \div sz + 1) * sz <= (y \div sz) * sz
  BY <1>3, <1>5, Multiple
<1>7. (x \div sz + 1) * sz = (x \div sz) * sz + sz
  BY <1>3
<1>8. x + sz <= y
  BY <1>3, <1>6, <1>7
<1>9. QED
  BY <1>1, <1>8 DEF x, y

-----------------------------------------------------------------------------
(* Slabs.  The runs rs are those the page allocator has given out.         *)

Separate(rs) ==
  /\ rs \subseteq Run
  /\ \A r \in rs : PagesOf(r) \subseteq Page
  /\ \A r, o \in rs : r # o => PagesOf(r) \cap PagesOf(o) = {}

Owns(s) == s.so_mext \cup {s.mc_kmobin}

(* A slab whose pages are its own.                                         *)
Sound(s, rs) ==
  /\ s \in Kmsob /\ s.so_objsz # 0
  /\ s.mc_kmobin \notin s.so_mext /\ Owns(s) \subseteq rs

(* A slab whose counts are right.                                          *)
Counted(s) ==
  /\ s.so_frelst \subseteq AllOf(s)
  /\ s.so_fobjnr = Cardinality(s.so_frelst)
  /\ s.so_mobjnr = Cardinality(AllOf(s))

LEMMA SlabFields ==
  ASSUME NEW s \in Kmsob
  PROVE  /\ s.so_objsz \in Nat /\ s.mc_kmobin \in Run /\ s.so_mext \subseteq Run
         /\ s.so_frelst \subseteq Nat /\ s.so_mobjnr \in Nat /\ s.so_fobjnr \in Nat
         /\ Owns(s) \subseteq Run
         /\ KMSOB \in Nat /\ KMBEXT \in Nat
BY KmSobAssumption DEF Kmsob, Owns

(* An object lies in one of the runs of its slab, behind its descriptor.   *)
Hdr(s, r) == IF r = s.mc_kmobin THEN KMSOB ELSE KMBEXT

LEMMA HomeOf ==
  ASSUME NEW rs, NEW s, Sound(s, rs), NEW a \in AllOf(s)
  PROVE  /\ a \in Nat
         /\ \E r \in Owns(s) : /\ a \in Objects(r, Hdr(s, r), s.so_objsz)
                               /\ Vstat(r) <= a /\ a + s.so_objsz <= Vend(r)
<1>0. /\ s.so_objsz \in Nat \ {0} /\ KMSOB \in Nat /\ KMBEXT \in Nat
      /\ s.mc_kmobin \in Run /\ s.mc_kmobin \in Owns(s) /\ Owns(s) \subseteq Run
      /\ \A r \in s.so_mext : r \in Owns(s) /\ Hdr(s, r) = KMBEXT
  BY SlabFields DEF Sound, Owns, Hdr
<1>1. ASSUME NEW r \in Owns(s), a \in Objects(r, Hdr(s, r), s.so_objsz)
      PROVE  a \in Nat /\ Vstat(r) <= a /\ a + s.so_objsz <= Vend(r)
  <2>1. Hdr(s, r) \in Nat /\ r \in Run
    BY <1>0 DEF Hdr
  <2>2. /\ a \in Nat /\ a >= Vstat(r) + Hdr(s, r)
        /\ a + s.so_objsz <= Vend(r) /\ Vstat(r) \in Nat
    BY <1>0, <1>1, <2>1, ObjectsIs, RunIs
  <2>3. QED
    BY <2>1, <2>2
<1>2. \E r \in Owns(s) : a \in Objects(r, Hdr(s, r), s.so_objsz)
  <2>1. CASE a \in Objects(s.mc_kmobin, KMSOB, s.so_objsz)
    BY <1>0, <2>1 DEF Hdr
  <2>2. CASE \E r \in s.so_mext : a \in Objects(r, KMBEXT, s.so_objsz)
    BY <1>0, <2>2
  <2>3. QED
    BY <2>1, <2>2 DEF AllOf
<1>3. QED
  BY <1>1, <1>2

LEMMA AllOfFinite ==
  ASSUME NEW rs, NEW s, Separate(rs), Sound(s, rs)
  PROVE  IsFiniteSet(AllOf(s))
<1>1. PageNr * PAGESIZE - 1 \in Int
  BY KmSobAssumption
<1>2. AllOf(s) \subseteq 0 .. PageNr * PAGESIZE - 1
  <2>1. SUFFICES ASSUME NEW a \in AllOf(s) PROVE a \in 0 .. PageNr * PAGESIZE - 1
    OBVIOUS
  <2>2. a \in Nat /\ \E r \in Owns(s) : a + s.so_objsz <= Vend(r)
    BY HomeOf
  <2>3. PICK r \in Owns(s) : a + s.so_objsz <= Vend(r)
    BY <2>2
  <2>4. r \in Run /\ PagesOf(r) \subseteq Page
    BY DEF Sound, Separate
  <2>5. Vend(r) <= PageNr * PAGESIZE - 1 /\ Vend(r) \in Nat
    BY <2>4, InMemory, RunIs
  <2>6. s.so_objsz \in Nat
    BY SlabFields DEF Sound
  <2>7. QED
    BY <1>1, <2>2, <2>3, <2>5, <2>6
<1>3. IsFiniteSet(0 .. PageNr * PAGESIZE - 1)
  BY <1>1, FS_Interval
<1>4. QED
  BY <1>2, <1>3, FS_Subset

(* Objects of one slab, of two slabs, and those of a slab and a block.     *)
LEMMA SlabApart ==
  ASSUME NEW rs, NEW s, Separate(rs), Sound(s, rs),
         NEW a \in AllOf(s), NEW b \in AllOf(s), a # b
  PROVE  a + s.so_objsz <= b \/ b + s.so_objsz <= a
<1>1. PICK r \in Owns(s) : /\ a \in Objects(r, Hdr(s, r), s.so_objsz)
                           /\ Vstat(r) <= a /\ a + s.so_objsz <= Vend(r)
  BY HomeOf
<1>2. PICK o \in Owns(s) : /\ b \in Objects(o, Hdr(s, o), s.so_objsz)
                           /\ Vstat(o) <= b /\ b + s.so_objsz <= Vend(o)
  BY HomeOf
<1>3. /\ a \in Nat /\ b \in Nat
      /\ s.so_objsz \in Nat \ {0}
      /\ r \in Run /\ o \in Run /\ r \in rs /\ o \in rs
      /\ Hdr(s, r) \in Nat
      /\ Vstat(r) \in Nat /\ Vend(r) \in Nat /\ Vstat(o) \in Nat /\ Vend(o) \in Nat
  BY HomeOf, SlabFields, RunIs DEF Sound, Hdr
<1>4. CASE r = o
  <2>1. a < b \/ b < a
    BY <1>3
  <2>2. QED
    BY <1>1, <1>2, <1>3, <1>4, <2>1, ObjectsApart
<1>5. CASE r # o
  <2>1. Vend(r) < Vstat(o) \/ Vend(o) < Vstat(r)
    BY <1>3, <1>5, Apart DEF Separate
  <2>2. QED
    BY <1>1, <1>2, <1>3, <2>1
<1>6. QED
  BY <1>4, <1>5

LEMMA BlockApart ==
  ASSUME NEW rs, NEW s, Separate(rs), Sound(s, rs),
         NEW a \in AllOf(s), NEW o \in rs, o \notin Owns(s)
  PROVE  a + s.so_objsz <= Vstat(o) \/ Vend(o) < a
<1>1. PICK r \in Owns(s) : Vstat(r) <= a /\ a + s.so_objsz <= Vend(r)
  BY HomeOf
<1>2. /\ a \in Nat /\ s.so_objsz \in Nat
      /\ r \in Run /\ o \in Run /\ r \in rs /\ r # o
      /\ Vstat(r) \in Nat /\ Vend(r) \in Nat /\ Vstat(o) \in Nat /\ Vend(o) \in Nat
  BY HomeOf, SlabFields, RunIs DEF Sound, Separate
<1>3. Vend(r) < Vstat(o) \/ Vend(o) < Vstat(r)
  BY <1>2, Apart DEF Separate
<1>4. QED
  BY <1>1, <1>2, <1>3

LEMMA SlabsApart ==
  ASSUME NEW rs, NEW s, NEW t, Separate(rs), Sound(s, rs), Sound(t, rs),
         Owns(s) \cap Owns(t) = {},
         NEW a \in AllOf(s), NEW b \in AllOf(t)
  PROVE  a + s.so_objsz <= b \/ b + t.so_objsz <= a
<1>1. PICK o \in Owns(t) : Vstat(o) <= b /\ b + t.so_objsz <= Vend(o)
  BY HomeOf
<1>2. /\ a \in Nat /\ b \in Nat /\ s.so_objsz \in Nat /\ t.so_objsz \in Nat
      /\ o \in rs /\ o \in Run /\ o \notin Owns(s)
      /\ Vstat(o) \in Nat /\ Vend(o) \in Nat
  BY HomeOf, SlabFields, RunIs DEF Sound, Separate
<1>3. a + s.so_objsz <= Vstat(o) \/ Vend(o) < a
  BY <1>2, BlockApart
<1>4. QED
  BY <1>1, <1>2, <1>3

LEMMA SlabsDiffer ==
  ASSUME NEW rs, NEW s, NEW t, Separate(rs), Sound(s, rs), Sound(t, rs),
         Owns(s) \cap Owns(t) = {}
  PROVE  AllOf(s) \cap AllOf(t) = {}
<1>1. SUFFICES ASSUME NEW a \in AllOf(s), a \in AllOf(t) PROVE FALSE
  OBVIOUS
<1>2. a + s.so_objsz <= a \/ a + t.so_objsz <= a
  BY <1>1, SlabsApart
<1>3. a \in Nat /\ s.so_objsz \in Nat \ {0} /\ t.so_objsz \in Nat \ {0}
  BY HomeOf, SlabFields DEF Sound
<1>4. QED
  BY <1>2, <1>3

(* What the delete side looks for is an object.                            *)
LEMMA InSlabIs ==
  ASSUME NEW rs, NEW s, Sound(s, rs), NEW a \in Nat, NEW fsz \in Nat
  PROVE  InSlab(s, a, fsz) <=> a \in AllOf(s) /\ fsz <= s.so_objsz
<1>0. /\ s.so_objsz \in Nat \ {0} /\ KMSOB \in Nat /\ KMBEXT \in Nat
      /\ s.mc_kmobin \in Run /\ s.so_mext \subseteq Run
  BY SlabFields DEF Sound
<1>1. ASSUME NEW r \in Run, NEW h \in Nat, fsz <= s.so_objsz
      PROVE  Within(r, h, a, fsz) /\ AtObject(r, h, a, s.so_objsz)
               <=> a \in Objects(r, h, s.so_objsz)
  <2>1. Vstat(r) \in Nat /\ Vend(r) \in Nat
    BY RunIs
  <2>2. a + s.so_objsz <= Vend(r) => a + fsz <= Vend(r)
    BY <1>0, <1>1, <2>1
  <2>3. QED
    BY <1>0, <2>2, ObjectsIs DEF Within, AtObject
<1>2. QED
  BY <1>0, <1>1 DEF InSlab, AllOf

-----------------------------------------------------------------------------
(* What the calls do to a slab.                                            *)

LEMMA TakenIs ==
  ASSUME NEW rs, NEW s, Separate(rs), Sound(s, rs), Counted(s), NEW adr \in s.so_frelst,
         NEW t, t = Taken(s, adr)
  PROVE  /\ Sound(t, rs) /\ Counted(t) /\ t.so_fobjnr < t.so_mobjnr
         /\ t.so_objsz = s.so_objsz /\ t.mc_kmobin = s.mc_kmobin
         /\ Owns(t) = Owns(s) /\ AllOf(t) = AllOf(s)
         /\ t.so_frelst = s.so_frelst \ {adr}
<1>1. /\ t.so_objsz = s.so_objsz /\ t.mc_kmobin = s.mc_kmobin /\ t.so_mext = s.so_mext
      /\ t.so_frelst = s.so_frelst \ {adr}
      /\ t.so_mobjnr = s.so_mobjnr /\ t.so_fobjnr = s.so_fobjnr - 1
  BY DEF Taken, Sound, Kmsob
<1>2. Owns(t) = Owns(s) /\ AllOf(t) = AllOf(s)
  BY <1>1 DEF Owns, AllOf
<1>3. IsFiniteSet(AllOf(s)) /\ IsFiniteSet(s.so_frelst)
  BY AllOfFinite, FS_Subset DEF Counted
<1>4. Cardinality(t.so_frelst) = s.so_fobjnr - 1 /\ s.so_fobjnr - 1 \in Nat
  <2>1. /\ Cardinality(s.so_frelst \ {adr}) = Cardinality(s.so_frelst) - 1
        /\ IsFiniteSet(s.so_frelst \ {adr})
    BY <1>3, FS_RemoveElement
  <2>2. Cardinality(s.so_frelst \ {adr}) \in Nat
    BY <2>1, FS_CardinalityType
  <2>3. QED
    BY <1>1, <2>1, <2>2 DEF Counted
<1>5. s.so_fobjnr <= s.so_mobjnr /\ s.so_fobjnr \in Nat /\ s.so_mobjnr \in Nat
  <2>1. Cardinality(s.so_frelst) <= Cardinality(AllOf(s))
    BY <1>3, FS_Subset DEF Counted
  <2>2. QED
    BY <2>1, SlabFields DEF Counted, Sound
<1>6. t \in Kmsob
  <2>1. s.so_frelst \ {adr} \subseteq Nat
    BY SlabFields DEF Sound
  <2>2. QED
    BY <1>4, <2>1, SlabFields DEF Sound, Kmsob, Taken, Counted
<1>7. QED
  BY <1>1, <1>2, <1>4, <1>5, <1>6 DEF Sound, Counted

LEMMA PutBackIs ==
  ASSUME NEW rs, NEW s, Separate(rs), Sound(s, rs), Counted(s),
         NEW adr \in AllOf(s), adr \notin s.so_frelst,
         NEW t, t = PutBack(s, adr)
  PROVE  /\ Sound(t, rs) /\ Counted(t)
         /\ t.so_objsz = s.so_objsz /\ t.mc_kmobin = s.mc_kmobin
         /\ Owns(t) = Owns(s) /\ AllOf(t) = AllOf(s)
         /\ t.so_frelst = s.so_frelst \cup {adr}
         /\ AllFree(t) => t.so_frelst = AllOf(s)
         /\ ~AllFree(t) => t.so_fobjnr < t.so_mobjnr
<1>1. /\ t.so_objsz = s.so_objsz /\ t.mc_kmobin = s.mc_kmobin /\ t.so_mext = s.so_mext
      /\ t.so_frelst = s.so_frelst \cup {adr}
      /\ t.so_mobjnr = s.so_mobjnr /\ t.so_fobjnr = s.so_fobjnr + 1
  BY DEF PutBack, Sound, Kmsob
<1>2. Owns(t) = Owns(s) /\ AllOf(t) = AllOf(s)
  BY <1>1 DEF Owns, AllOf
<1>3. IsFiniteSet(AllOf(s)) /\ IsFiniteSet(s.so_frelst)
  BY AllOfFinite, FS_Subset DEF Counted
<1>4. s.so_fobjnr \in Nat /\ s.so_mobjnr \in Nat /\ s.so_frelst \subseteq Nat /\ adr \in Nat
  BY SlabFields, HomeOf DEF Sound
<1>5. Cardinality(t.so_frelst) = s.so_fobjnr + 1
  BY <1>1, <1>3, FS_AddElement DEF Counted
<1>6. t.so_frelst \subseteq AllOf(s)
  BY <1>1 DEF Counted
<1>7. t \in Kmsob
  <2>1. /\ s \in Kmsob /\ s.so_frelst \cup {adr} \in SUBSET Nat
        /\ s.so_fobjnr + 1 \in Nat
    BY <1>4 DEF Sound
  <2>2. QED
    BY <2>1 DEF Kmsob, PutBack
<1>8. Counted(t)
  BY <1>1, <1>2, <1>5, <1>6 DEF Counted
<1>9. t.so_fobjnr <= t.so_mobjnr /\ (t.so_fobjnr = t.so_mobjnr => t.so_frelst = AllOf(s))
  <2>1. /\ Cardinality(t.so_frelst) <= Cardinality(AllOf(s))
        /\ Cardinality(t.so_frelst) = Cardinality(AllOf(s)) => t.so_frelst = AllOf(s)
    BY <1>3, <1>6, FS_Subset
  <2>2. QED
    BY <1>1, <1>5, <2>1 DEF Counted
<1>10. QED
  BY <1>1, <1>2, <1>4, <1>7, <1>8, <1>9 DEF Sound, AllFree

LEMMA ObjectsWithin ==
  ASSUME NEW r \in Run, NEW h \in Nat, NEW sz \in Nat \ {0}, NEW a \in Objects(r, h, sz)
  PROVE  a \in Nat /\ Vstat(r) <= a /\ a + sz <= Vend(r) /\ a <= Vend(r)
<1>1. Vstat(r) \in Nat /\ Vend(r) \in Nat
  BY RunIs
<1>2. a \in Nat /\ a >= Vstat(r) + h /\ a + sz <= Vend(r)
  BY ObjectsIs
<1>3. QED
  BY <1>1, <1>2

LEMMA ExtendedIs ==
  ASSUME NEW rs, NEW s, Separate(rs), Sound(s, rs), Counted(s),
         NEW r, r \notin rs, NEW more, more = rs \cup {r}, Separate(more),
         NEW t, t = Extended(s, r)
  PROVE  /\ Sound(t, more) /\ Counted(t)
         /\ t.so_objsz = s.so_objsz /\ t.mc_kmobin = s.mc_kmobin
         /\ Owns(t) = Owns(s) \cup {r}
         /\ AllOf(t) = AllOf(s) \cup Objects(r, KMBEXT, s.so_objsz)
         /\ t.so_frelst = s.so_frelst \cup Objects(r, KMBEXT, s.so_objsz)
<1>0. PICK new : new = Objects(r, KMBEXT, s.so_objsz)
  OBVIOUS
<1>1. /\ t.so_objsz = s.so_objsz /\ t.mc_kmobin = s.mc_kmobin
      /\ t.so_mext = s.so_mext \cup {r}
      /\ t.so_frelst = s.so_frelst \cup new
      /\ t.so_mobjnr = s.so_mobjnr + Cardinality(new)
      /\ t.so_fobjnr = s.so_fobjnr + Cardinality(new)
  BY <1>0 DEF Extended, Sound, Kmsob
<1>2. r \in Run
  BY DEF Separate
<1>3. /\ new \subseteq Nat /\ IsFiniteSet(new) /\ Cardinality(new) \in Nat
      /\ \A a \in new : a \in Nat /\ Vstat(r) <= a /\ a + s.so_objsz <= Vend(r)
  <2>1. s.so_objsz \in Nat \ {0} /\ KMBEXT \in Nat /\ Vstat(r) \in Nat
    BY <1>2, SlabFields, RunIs DEF Sound
  <2>2. /\ new \subseteq Nat /\ IsFiniteSet(new)
        /\ \A a \in new : a >= Vstat(r) + KMBEXT /\ a + s.so_objsz <= Vend(r)
    BY <1>0, <1>2, <2>1, ObjectsIs
  <2>3. QED
    BY <2>1, <2>2, FS_CardinalityType
<1>4. Owns(t) = Owns(s) \cup {r} /\ AllOf(t) = AllOf(s) \cup new
  BY <1>0, <1>1 DEF Owns, AllOf
<1>5. new \cap AllOf(s) = {}
  <2>1. SUFFICES ASSUME NEW a \in new, a \in AllOf(s) PROVE FALSE
    OBVIOUS
  <2>2. Sound(s, more) /\ r \notin Owns(s)
    BY DEF Sound
  <2>3. a + s.so_objsz <= Vstat(r) \/ Vend(r) < a
    BY <2>1, <2>2, BlockApart
  <2>4. /\ a \in Nat /\ Vstat(r) <= a /\ a + s.so_objsz <= Vend(r)
        /\ s.so_objsz \in Nat \ {0} /\ Vstat(r) \in Nat /\ Vend(r) \in Nat
    BY <1>2, <1>3, SlabFields, RunIs DEF Sound
  <2>5. QED
    BY <2>3, <2>4
<1>6. IsFiniteSet(AllOf(s)) /\ IsFiniteSet(s.so_frelst)
  BY AllOfFinite, FS_Subset DEF Counted
<1>7. s.so_fobjnr \in Nat /\ s.so_mobjnr \in Nat /\ s.so_frelst \subseteq Nat
  BY SlabFields DEF Sound
<1>8. Cardinality(AllOf(s) \cup new) = Cardinality(AllOf(s)) + Cardinality(new)
  <2>1. Cardinality(AllOf(s) \cap new) = 0
    BY <1>5, FS_EmptySet
  <2>2. Cardinality(AllOf(s)) \in Nat
    BY <1>6, FS_CardinalityType
  <2>3. /\ IsFiniteSet(AllOf(s)) /\ IsFiniteSet(new)
        /\ Cardinality(new) \in Nat
    BY <1>3, <1>6
  <2>4. Cardinality(AllOf(s) \cup new)
          = Cardinality(AllOf(s)) + Cardinality(new) - Cardinality(AllOf(s) \cap new)
    BY ONLY <2>3, FS_Union
  <2>5. QED
    BY ONLY <2>1, <2>2, <2>3, <2>4
<1>9. Cardinality(s.so_frelst \cup new) = Cardinality(s.so_frelst) + Cardinality(new)
  <2>1. s.so_frelst \cap new = {}
    BY <1>5 DEF Counted
  <2>2. Cardinality(s.so_frelst \cap new) = 0 /\ Cardinality(s.so_frelst) \in Nat
    BY <1>6, <2>1, FS_EmptySet, FS_CardinalityType
  <2>3. /\ IsFiniteSet(s.so_frelst) /\ IsFiniteSet(new)
        /\ Cardinality(new) \in Nat
    BY <1>3, <1>6
  <2>4. Cardinality(s.so_frelst \cup new) = Cardinality(s.so_frelst)
          + Cardinality(new) - Cardinality(s.so_frelst \cap new)
    BY ONLY <2>3, FS_Union
  <2>5. QED
    BY ONLY <2>2, <2>3, <2>4
<1>10. Counted(t)
  BY <1>1, <1>4, <1>8, <1>9 DEF Counted
<1>11. t \in Kmsob
  <2>1. s \in Kmsob /\ s.so_mext \cup {r} \in SUBSET Run
    BY <1>2, SlabFields DEF Sound
  <2>2. /\ s.so_frelst \cup new \in SUBSET Nat
        /\ s.so_mobjnr + Cardinality(new) \in Nat
        /\ s.so_fobjnr + Cardinality(new) \in Nat
    <3>1. new \subseteq Nat /\ Cardinality(new) \in Nat
      BY <1>3
    <3>2. s.so_frelst \cup new \in SUBSET Nat
      BY <1>7, <3>1
    <3>3. PICK c : c = Cardinality(new)
      OBVIOUS
    <3>4. s.so_mobjnr + c \in Nat /\ s.so_fobjnr + c \in Nat
      BY ONLY <1>7, <3>1, <3>3
    <3>5. QED
      BY ONLY <3>2, <3>3, <3>4
  <2>3. QED
    BY <1>0, <2>1, <2>2 DEF Kmsob, Extended
<1>12. Sound(t, more)
  <2>1. s.mc_kmobin # r /\ s.mc_kmobin \notin s.so_mext /\ Owns(s) \subseteq rs
    BY DEF Sound, Owns
  <2>2. QED
    BY <1>1, <1>4, <1>11, <2>1 DEF Sound
<1>13. QED
  BY <1>0, <1>1, <1>4, <1>10, <1>12

LEMMA FreshIs ==
  ASSUME NEW rs, NEW r, Separate(rs \cup {r}), r \notin rs, NEW k \in Class,
         NEW t, t = Fresh(r, k)
  PROVE  /\ Sound(t, rs \cup {r}) /\ Counted(t)
         /\ t.so_objsz = ol_sz[k] /\ t.mc_kmobin = r /\ Owns(t) = {r}
         /\ AllOf(t) = Objects(r, KMSOB, ol_sz[k]) /\ t.so_frelst = AllOf(t)
<1> DEFINE new == Objects(r, KMSOB, ol_sz[k])
<1>1. /\ t.so_objsz = ol_sz[k] /\ t.mc_kmobin = r /\ t.so_mext = {}
      /\ t.so_frelst = new /\ t.so_mobjnr = Cardinality(new)
      /\ t.so_fobjnr = Cardinality(new)
      /\ t = [so_objsz |-> ol_sz[k], mc_kmobin |-> r, so_mext |-> {}, so_frelst |-> new,
              so_mobjnr |-> Cardinality(new), so_fobjnr |-> Cardinality(new)]
  BY DEF Fresh
<1>2. r \in Run /\ ol_sz[k] \in Nat \ {0} /\ KMSOB \in Nat
  BY KmSobAssumption DEF Separate
<1>3. new \subseteq Nat /\ Cardinality(new) \in Nat
  <2>1. new \subseteq Nat /\ IsFiniteSet(new)
    BY <1>2, ObjectsIs
  <2>2. QED
    BY <2>1, FS_CardinalityType
<1> HIDE DEF new
<1>4. Owns(t) = {r} /\ AllOf(t) = new
  BY <1>1 DEF Owns, AllOf, new
<1>5. t \in Kmsob
  BY <1>1, <1>2, <1>3 DEF Kmsob
<1>6. QED
  BY <1>1, <1>2, <1>4, <1>5 DEF Sound, Counted, new

-----------------------------------------------------------------------------
(* The invariant.                                                          *)

Small(b)    == b.sz <= OBJSORPAGE
Large       == {b \in live \cup lost : ~Small(b)}
BlockRun(b) == [msa |-> b.adr \div PAGESIZE, relpnr |-> Relpnr(Pages(b.sz))]

TInv ==
  /\ runs \subseteq Run
  /\ emplst \in [Class -> SUBSET Page]
  /\ cahe \in [Class -> Page \cup {NULL}]
  /\ kmsob \in [Page -> Kmsob \cup {NULL}]
  /\ msobnr = Cardinality(Slabs)
  /\ msalsthead \in [Lists -> SUBSET Page]
  /\ live \subseteq [adr : Nat, sz : Size]
  /\ lost \subseteq [adr : Nat, sz : Size]

(* Runs lie in the memory and apart from each other.                       *)
RunsInv == Separate(runs)

(* A class has one slab at most, a slab one class, whose objects it has.   *)
ClassInv ==
  /\ \A p \in Page : kmsob[p] # NULL <=> p \in Slabs
  /\ \A k \in Class : \A p, q \in emplst[k] : p = q
  /\ \A k, j \in Class : \A p \in emplst[k] : p \in emplst[j] => k = j
  /\ \A k \in Class : \A p \in emplst[k] : kmsob[p].so_objsz = ol_sz[k]
  /\ \A k \in Class : cahe[k] # NULL => cahe[k] \in emplst[k]

(* Every run has one owner, a slab or a block.                             *)
SlabRuns ==
  /\ \A p \in Slabs : Sound(kmsob[p], runs) /\ kmsob[p].mc_kmobin.msa = p
  /\ \A p, q \in Slabs : p # q => Owns(kmsob[p]) \cap Owns(kmsob[q]) = {}
BlockRuns ==
  /\ \A b \in Large : /\ BlockRun(b) \in runs /\ b.adr = Vstat(BlockRun(b))
                      /\ BlockRun(b).relpnr >= Pages(b.sz)
                      /\ \A p \in Slabs : BlockRun(b) \notin Owns(kmsob[p])
  /\ \A b, c \in Large : BlockRun(b) = BlockRun(c) => b = c
AllOwned ==
  \A r \in runs : \/ \E p \in Slabs : r \in Owns(kmsob[p])
                  \/ \E b \in Large : r = BlockRun(b)

(* What is lost, and why.                                                  *)
LostInv ==
  /\ live \cap lost = {}
  /\ \A b \in lost : ~Small(b) /\ Relpnr(Pages(b.sz)) # Pages(b.sz)
  /\ \A b \in live : ~Small(b) =>
       BlockRun(b).msa \in msalsthead[ListOf(BlockRun(b).relpnr)]

(* A small block is an object of a slab of its class, and no other block   *)
(* is the same object.                                                     *)
SmallInv ==
  /\ \A b \in live : Small(b) =>
       \E k \in ClassesFor(AlignUp(b.sz, ALIGNMENT)) : \E p \in emplst[k] :
         b.adr \in AllOf(kmsob[p])
  /\ \A b, c \in live : Small(b) /\ Small(c) /\ b.adr = c.adr => b = c

(* The free list of a slab and its counts.                                 *)
Held(adr) == \E b \in live : Small(b) /\ b.adr = adr
FreeInv ==
  \A p \in Slabs :
    /\ Counted(kmsob[p]) /\ kmsob[p].so_fobjnr < kmsob[p].so_mobjnr
    /\ \A a \in AllOf(kmsob[p]) : a \in kmsob[p].so_frelst <=> ~Held(a)

IInv == /\ TInv /\ RunsInv /\ ClassInv /\ SlabRuns /\ BlockRuns /\ AllOwned
        /\ LostInv /\ SmallInv /\ FreeInv

-----------------------------------------------------------------------------
(* Facts about a state.                                                    *)

LEMMA PageFinite == Page \subseteq Nat /\ IsFiniteSet(Page)
<1>1. 0 \in Int /\ PageNr - 1 \in Int
  BY KmSobAssumption
<1>2. QED
  BY <1>1, FS_Interval DEF Page

LEMMA SlabOf ==
  ASSUME IInv, NEW k \in Class, NEW p \in emplst[k]
  PROVE  /\ p \in Page /\ p \in Slabs /\ emplst[k] = {p}
         /\ Sound(kmsob[p], runs) /\ kmsob[p].mc_kmobin.msa = p
         /\ Counted(kmsob[p]) /\ kmsob[p].so_fobjnr < kmsob[p].so_mobjnr
         /\ kmsob[p].so_objsz = ol_sz[k]
         /\ \A a \in AllOf(kmsob[p]) : a \in kmsob[p].so_frelst <=> ~Held(a)
<1>1. p \in Page /\ p \in Slabs
  BY DEF IInv, TInv, Slabs
<1>2. emplst[k] = {p} /\ kmsob[p].so_objsz = ol_sz[k]
  BY DEF IInv, ClassInv
<1>3. QED
  BY <1>1, <1>2 DEF IInv, SlabRuns, FreeInv

(* A small block that somebody holds is an object of some slab.            *)
LEMMA HeldIn ==
  ASSUME IInv, NEW a, Held(a)
  PROVE  \E q \in Slabs : a \in AllOf(kmsob[q])
<1>1. PICK b \in live : Small(b) /\ b.adr = a
  BY DEF Held
<1>2. PICK k \in ClassesFor(AlignUp(b.sz, ALIGNMENT)) : \E p \in emplst[k] :
        b.adr \in AllOf(kmsob[p])
  BY <1>1 DEF IInv, SmallInv
<1>3. k \in Class
  BY DEF ClassesFor
<1>4. QED
  BY <1>1, <1>2, <1>3, SlabOf

(* The page allocator gives out a run that is apart from all others.       *)
LEMMA FreeRunIs ==
  ASSUME IInv, NEW n, NEW r \in FreeRuns(n)
  PROVE  /\ r \in Run /\ r \notin runs /\ Separate(runs \cup {r})
         /\ r.relpnr \in Rounded(n)
         /\ \A o \in runs : o.msa # r.msa
         /\ \A p \in Slabs : p # r.msa
<1>1. /\ r \in Run /\ r.relpnr \in Rounded(n) /\ PagesOf(r) \subseteq Page
      /\ \A o \in runs : PagesOf(r) \cap PagesOf(o) = {}
  BY DEF FreeRuns
<1>2. \A o \in runs : o \in Run
  BY DEF IInv, TInv
<1>3. \A o \in Run : o.msa \in PagesOf(o)
  BY RunIs DEF PagesOf
<1>4. \A o \in runs : o.msa # r.msa
  BY <1>1, <1>2, <1>3
<1>5. Separate(runs \cup {r})
  BY <1>1, <1>2 DEF Separate, IInv, RunsInv
<1>6. \A p \in Slabs : kmsob[p].mc_kmobin \in runs /\ kmsob[p].mc_kmobin.msa = p
  BY DEF IInv, SlabRuns, Sound, Owns
<1>7. QED
  BY <1>1, <1>4, <1>5, <1>6

(* Nobody holds a small block in pages that were free.                     *)
LEMMA NotHeldInFree ==
  ASSUME IInv, NEW n, NEW r \in FreeRuns(n), NEW a, Vstat(r) <= a, a <= Vend(r)
  PROVE  ~Held(a)
<1>1. SUFFICES ASSUME Held(a) PROVE FALSE
  OBVIOUS
<1>2. PICK q \in Slabs : a \in AllOf(kmsob[q])
  BY <1>1, HeldIn
<1>3. /\ Sound(kmsob[q], runs) /\ Separate(runs \cup {r}) /\ r \notin runs /\ r \in Run
  BY <1>2, FreeRunIs DEF IInv, SlabRuns
<1>4. Sound(kmsob[q], runs \cup {r}) /\ r \notin Owns(kmsob[q])
  BY <1>3 DEF Sound
<1>5. a + kmsob[q].so_objsz <= Vstat(r) \/ Vend(r) < a
  BY <1>2, <1>3, <1>4, BlockApart
<1>6. a \in Nat /\ kmsob[q].so_objsz \in Nat \ {0}
  BY <1>2, <1>3, HomeOf, SlabFields DEF Sound
<1>7. Vstat(r) \in Nat /\ Vend(r) \in Nat
  BY <1>3, RunIs
<1>8. QED
  BY <1>5, <1>6, <1>7

-----------------------------------------------------------------------------
(* A call for a small block changes the descriptor of one slab, which is   *)
(* of the class k and has the new runs N, and who holds its objects.       *)
Becomes(k, p, t, N) ==
  /\ runs' = runs \cup N
  /\ emplst' = [emplst EXCEPT ![k] = {p}]
  /\ msobnr' = IF p \in Slabs THEN msobnr ELSE msobnr + 1
  /\ cahe' = [cahe EXCEPT ![k] = p]
  /\ kmsob' = [kmsob EXCEPT ![p] = t]
  /\ UNCHANGED <<msalsthead, lost>>
Fit(k, p, t, N) ==
  /\ Separate(runs \cup N) /\ N \cap runs = {}
  /\ emplst[k] = {p} \/ (emplst[k] = {} /\ p \notin Slabs)
  /\ Sound(t, runs \cup N) /\ Counted(t) /\ t.so_fobjnr < t.so_mobjnr
  /\ t.so_objsz = ol_sz[k] /\ t.mc_kmobin.msa = p
  /\ Owns(t) = (IF p \in Slabs THEN Owns(kmsob[p]) ELSE {}) \cup N

LEMMA BecomesSlabs ==
  ASSUME IInv, NEW k \in Class, NEW p \in Page, NEW t, NEW N,
         Becomes(k, p, t, N), Fit(k, p, t, N)
  PROVE  /\ kmsob'[p] = t /\ \A q \in Page : q # p => kmsob'[q] = kmsob[q]
         /\ emplst'[k] = {p} /\ \A j \in Class : j # k => emplst'[j] = emplst[j]
         /\ cahe'[k] = p /\ \A j \in Class : j # k => cahe'[j] = cahe[j]
         /\ Slabs' = Slabs \cup {p} /\ Slabs \subseteq Page
         /\ \A q \in Slabs : q # p => kmsob'[q] = kmsob[q]
         /\ \A j \in Class : j # k => p \notin emplst[j]
<1>1. /\ kmsob'[p] = t /\ \A q \in Page : q # p => kmsob'[q] = kmsob[q]
      /\ emplst'[k] = {p} /\ \A j \in Class : j # k => emplst'[j] = emplst[j]
      /\ cahe'[k] = p /\ \A j \in Class : j # k => cahe'[j] = cahe[j]
  BY DEF Becomes, IInv, TInv
<1>2. Slabs \subseteq Page
  BY DEF Slabs
<1>3. \A j \in Class : j # k => p \notin emplst[j]
  <2>1. CASE emplst[k] = {p}
    BY <2>1 DEF IInv, ClassInv
  <2>2. CASE p \notin Slabs
    BY <2>2 DEF Slabs
  <2>3. QED
    BY <2>1, <2>2 DEF Fit
<1>4. Slabs' = Slabs \cup {p}
  <2>1. \A q \in Page : q \in Slabs' <=> q \in Slabs \/ q = p
    BY <1>1 DEF Slabs, Fit
  <2>2. Slabs' \subseteq Page
    BY DEF Slabs
  <2>3. QED
    BY <1>2, <2>1, <2>2
<1>5. QED
  BY <1>1, <1>2, <1>3, <1>4

LEMMA BecomesClass ==
  ASSUME IInv, NEW k \in Class, NEW p \in Page, NEW t, NEW N,
         Becomes(k, p, t, N), Fit(k, p, t, N)
  PROVE  ClassInv'
<1>1. /\ kmsob'[p] = t /\ \A q \in Page : q # p => kmsob'[q] = kmsob[q]
      /\ emplst'[k] = {p} /\ \A j \in Class : j # k => emplst'[j] = emplst[j]
      /\ cahe'[k] = p /\ \A j \in Class : j # k => cahe'[j] = cahe[j]
      /\ Slabs' = Slabs \cup {p} /\ Slabs \subseteq Page
      /\ \A j \in Class : j # k => p \notin emplst[j]
  BY BecomesSlabs
<1>2. t # NULL /\ t.so_objsz = ol_sz[k]
  BY KmSobAssumption DEF Fit, Sound
<1>3. \A q \in Page : kmsob'[q] # NULL <=> q \in Slabs'
  BY <1>1, <1>2 DEF IInv, ClassInv
<1>4. \A j \in Class : \A q, o \in emplst'[j] : q = o
  BY <1>1 DEF IInv, ClassInv
<1>5. \A i, j \in Class : \A q \in emplst'[i] : q \in emplst'[j] => i = j
  BY <1>1 DEF IInv, ClassInv
<1>6. \A j \in Class : \A q \in emplst'[j] : kmsob'[q].so_objsz = ol_sz[j]
  <2>1. \A j \in Class : \A q \in emplst[j] : q \in Page /\ kmsob[q].so_objsz = ol_sz[j]
    BY DEF IInv, TInv, ClassInv
  <2>2. QED
    BY <1>1, <1>2, <2>1
<1>7. \A j \in Class : cahe'[j] # NULL => cahe'[j] \in emplst'[j]
  BY <1>1 DEF IInv, ClassInv
<1>8. QED
  BY <1>3, <1>4, <1>5, <1>6, <1>7 DEF ClassInv

LEMMA BecomesRuns ==
  ASSUME IInv, NEW k \in Class, NEW p \in Page, NEW t, NEW N,
         Becomes(k, p, t, N), Fit(k, p, t, N), Large' = Large
  PROVE  RunsInv' /\ SlabRuns' /\ BlockRuns' /\ AllOwned'
<1>1. /\ kmsob'[p] = t /\ \A q \in Slabs : q # p => kmsob'[q] = kmsob[q]
      /\ Slabs' = Slabs \cup {p} /\ runs' = runs \cup N
  BY BecomesSlabs DEF Becomes
<1>2. /\ Separate(runs \cup N) /\ N \cap runs = {}
      /\ Sound(t, runs \cup N) /\ t.mc_kmobin.msa = p
      /\ Owns(t) = (IF p \in Slabs THEN Owns(kmsob[p]) ELSE {}) \cup N
  BY DEF Fit
<1>3. /\ \A q \in Slabs : Sound(kmsob[q], runs) /\ kmsob[q].mc_kmobin.msa = q
      /\ \A q, o \in Slabs : q # o => Owns(kmsob[q]) \cap Owns(kmsob[o]) = {}
      /\ \A q \in Slabs : Owns(kmsob[q]) \subseteq runs
  BY DEF IInv, SlabRuns, Sound
<1>4. RunsInv'
  BY <1>1, <1>2 DEF RunsInv
<1>5. SlabRuns'
  <2>1. \A q \in Slabs' : Sound(kmsob'[q], runs') /\ kmsob'[q].mc_kmobin.msa = q
    BY <1>1, <1>2, <1>3 DEF Sound
  <2>2. \A q \in Slabs : q # p => Owns(kmsob[q]) \cap Owns(t) = {}
    BY <1>2, <1>3
  <2>3. \A q, o \in Slabs' : q # o => Owns(kmsob'[q]) \cap Owns(kmsob'[o]) = {}
    BY <1>1, <1>3, <2>2
  <2>4. QED
    BY <2>1, <2>3 DEF SlabRuns
<1>6. BlockRuns'
  <2>1. \A b \in Large : /\ BlockRun(b) \in runs /\ b.adr = Vstat(BlockRun(b))
                         /\ BlockRun(b).relpnr >= Pages(b.sz)
                         /\ \A q \in Slabs : BlockRun(b) \notin Owns(kmsob[q])
    BY DEF IInv, BlockRuns
  <2>2. \A b \in Large : BlockRun(b) \notin Owns(t)
    BY <1>2, <2>1
  <2>3. \A b \in Large : \A q \in Slabs' : BlockRun(b) \notin Owns(kmsob'[q])
    BY <1>1, <2>1, <2>2
  <2>4. \A b, c \in Large : BlockRun(b) = BlockRun(c) => b = c
    BY DEF IInv, BlockRuns
  <2>5. QED
    BY <1>1, <2>1, <2>3, <2>4 DEF BlockRuns
<1>7. AllOwned'
  <2>1. \A r \in runs : \/ \E q \in Slabs : r \in Owns(kmsob[q])
                        \/ \E b \in Large : r = BlockRun(b)
    BY DEF IInv, AllOwned
  <2>2. \A q \in Slabs : \A r \in Owns(kmsob[q]) : r \in Owns(kmsob'[q])
    BY <1>1, <1>2
  <2>3. \A r \in N : r \in Owns(kmsob'[p])
    BY <1>1, <1>2
  <2>4. QED
    BY <1>1, <2>1, <2>2, <2>3 DEF AllOwned
<1>8. QED
  BY <1>4, <1>5, <1>6, <1>7

LEMMA BecomesTypes ==
  ASSUME IInv, NEW k \in Class, NEW p \in Page, NEW t, NEW N,
         Becomes(k, p, t, N), Fit(k, p, t, N), live' \subseteq [adr : Nat, sz : Size]
  PROVE  TInv'
<1>1. /\ Slabs' = Slabs \cup {p} /\ Slabs \subseteq Page
      /\ runs' = runs \cup N /\ Separate(runs \cup N) /\ t \in Kmsob
  <2>1. Slabs' = Slabs \cup {p} /\ Slabs \subseteq Page
    BY BecomesSlabs
  <2>2. runs' = runs \cup N /\ Separate(runs \cup N) /\ t \in Kmsob
    BY DEF Becomes, Fit, Sound
  <2>3. QED
    BY <2>1, <2>2
<1>2. /\ runs' \subseteq Run
      /\ emplst' \in [Class -> SUBSET Page]
      /\ cahe' \in [Class -> Page \cup {NULL}]
      /\ kmsob' \in [Page -> Kmsob \cup {NULL}]
      /\ msalsthead' = msalsthead /\ lost' = lost
  BY <1>1 DEF Becomes, Separate, IInv, TInv
<1>3. msobnr' = Cardinality(Slabs')
  <2>1. IsFiniteSet(Slabs)
    BY <1>1, PageFinite, FS_Subset
  <2>2. Cardinality(Slabs \cup {p}) = IF p \in Slabs THEN Cardinality(Slabs)
                                      ELSE Cardinality(Slabs) + 1
    BY <2>1, FS_AddElement
  <2>3. msobnr = Cardinality(Slabs)
    BY DEF IInv, TInv
  <2>4. QED
    BY <1>1, <2>2, <2>3 DEF Becomes
<1>4. QED
  BY <1>2, <1>3 DEF IInv, TInv

(* The objects of the other slabs keep their holders.                      *)
LEMMA BecomesFree ==
  ASSUME IInv, NEW k \in Class, NEW p \in Page, NEW t, NEW N,
         Becomes(k, p, t, N), Fit(k, p, t, N),
         NEW adr \in AllOf(t), \A a : a # adr => (Held(a)' <=> Held(a)),
         \A a \in AllOf(t) : a \in t.so_frelst <=> ~Held(a)'
  PROVE  FreeInv'
<1>1. /\ kmsob'[p] = t /\ \A q \in Slabs : q # p => kmsob'[q] = kmsob[q]
      /\ Slabs' = Slabs \cup {p}
  BY BecomesSlabs
<1>2. ASSUME NEW q \in Slabs, q # p
      PROVE  adr \notin AllOf(kmsob[q])
  <2>1. /\ Separate(runs \cup N) /\ Sound(t, runs \cup N)
        /\ Sound(kmsob[q], runs \cup N) /\ Owns(kmsob[q]) \cap Owns(t) = {}
    BY <1>2 DEF Fit, IInv, SlabRuns, Sound
  <2>2. AllOf(kmsob[q]) \cap AllOf(t) = {}
    BY <2>1, SlabsDiffer
  <2>3. QED
    BY <2>2
<1>3. ASSUME NEW q \in Slabs'
      PROVE  /\ Counted(kmsob'[q]) /\ kmsob'[q].so_fobjnr < kmsob'[q].so_mobjnr
             /\ \A a \in AllOf(kmsob'[q]) : a \in kmsob'[q].so_frelst <=> ~Held(a)'
  <2>1. CASE q = p
    BY <1>1, <2>1 DEF Fit
  <2>2. CASE q # p
    <3>1. q \in Slabs /\ kmsob'[q] = kmsob[q]
      BY <1>1, <1>3, <2>2
    <3>2. /\ Counted(kmsob[q]) /\ kmsob[q].so_fobjnr < kmsob[q].so_mobjnr
          /\ \A a \in AllOf(kmsob[q]) : a \in kmsob[q].so_frelst <=> ~Held(a)
      BY <3>1 DEF IInv, FreeInv
    <3>3. \A a \in AllOf(kmsob[q]) : Held(a)' <=> Held(a)
      BY <1>2, <2>2, <3>1
    <3>4. QED
      BY <3>1, <3>2, <3>3
  <2>3. QED
    BY <2>1, <2>2
<1>4. QED
  BY <1>3 DEF FreeInv

LEMMA BecomesInv ==
  ASSUME IInv, NEW k \in Class, NEW p \in Page, NEW t, NEW N,
         Becomes(k, p, t, N), Fit(k, p, t, N),
         live' \subseteq [adr : Nat, sz : Size],
         \A b : b \in live' /\ ~Small(b) <=> b \in live /\ ~Small(b),
         NEW adr \in AllOf(t), \A a : a # adr => (Held(a)' <=> Held(a)),
         \A a \in AllOf(t) : a \in t.so_frelst <=> ~Held(a)',
         SmallInv'
  PROVE  IInv'
<1>1. lost' = lost /\ msalsthead' = msalsthead
  BY DEF Becomes
<1>2. Large' = Large
  BY <1>1 DEF Large
<1>3. LostInv'
  <2>1. \A b \in lost : ~Small(b)
    BY DEF IInv, LostInv
  <2>2. live' \cap lost = {}
    BY <2>1 DEF IInv, LostInv
  <2>3. \A b \in lost : Relpnr(Pages(b.sz)) # Pages(b.sz)
    BY DEF IInv, LostInv
  <2>4. \A b \in live' : ~Small(b) =>
          BlockRun(b).msa \in msalsthead[ListOf(BlockRun(b).relpnr)]
    BY DEF IInv, LostInv
  <2>5. QED
    BY <1>1, <2>1, <2>2, <2>3, <2>4 DEF LostInv
<1>4. TInv'
  BY BecomesTypes
<1>5. ClassInv'
  BY BecomesClass
<1>6. RunsInv' /\ SlabRuns' /\ BlockRuns' /\ AllOwned'
  BY <1>2, BecomesRuns
<1>7. FreeInv'
  BY BecomesFree
<1>8. QED
  BY <1>3, <1>4, <1>5, <1>6, <1>7 DEF IInv

-----------------------------------------------------------------------------
(* A small block is given out.                                             *)

NewBlock(n) == \E a \in Nat : /\ Block(a, n) \notin live \cup lost
                              /\ live' = live \cup {Block(a, n)}

LEMMA GiveInv ==
  ASSUME IInv, NEW n \in Size, n <= OBJSORPAGE,
         NEW k \in ClassesFor(AlignUp(n, ALIGNMENT)), NEW p \in Page, NEW t, NEW N,
         Becomes(k, p, t, N), Fit(k, p, t, N),
         NEW adr \in AllOf(t), ~Held(adr),
         p \in Slabs => AllOf(kmsob[p]) \subseteq AllOf(t),
         \A a \in AllOf(t) : a \in t.so_frelst <=> ~Held(a) /\ a # adr,
         live' = live \cup {Block(adr, n)}
  PROVE  IInv' /\ NewBlock(n)
<1> DEFINE b == Block(adr, n)
<1>1. k \in Class
  BY DEF ClassesFor
<1>2. /\ kmsob'[p] = t /\ \A q \in Page : q # p => kmsob'[q] = kmsob[q]
      /\ emplst'[k] = {p} /\ \A j \in Class : j # k => emplst'[j] = emplst[j]
  BY <1>1, BecomesSlabs
<1>3. /\ b.adr = adr /\ b.sz = n /\ Small(b) /\ adr \in Nat
      /\ b \in [adr : Nat, sz : Size]
  BY HomeOf DEF Block, Small, Fit
<1> HIDE DEF b
<1>4. live' = live \cup {b}
  BY DEF b
<1>5. live' \subseteq [adr : Nat, sz : Size]
  BY <1>3, <1>4 DEF IInv, TInv
<1>6. \A c : c \in live' /\ ~Small(c) <=> c \in live /\ ~Small(c)
  BY <1>3, <1>4
<1>7. \A a : Held(a)' <=> Held(a) \/ a = adr
  BY <1>3, <1>4 DEF Held, Small
<1>8. SmallInv'
  <2>1. ASSUME NEW c \in live', Small(c)
        PROVE  \E j \in ClassesFor(AlignUp(c.sz, ALIGNMENT)) : \E q \in emplst'[j] :
                 c.adr \in AllOf(kmsob'[q])
    <3>1. CASE c = b
      BY <1>2, <1>3, <3>1
    <3>2. CASE c # b
      <4>1. PICK j \in ClassesFor(AlignUp(c.sz, ALIGNMENT)) : \E q \in emplst[j] :
              c.adr \in AllOf(kmsob[q])
        BY <1>4, <2>1, <3>2 DEF IInv, SmallInv
      <4>2. PICK q \in emplst[j] : c.adr \in AllOf(kmsob[q])
        BY <4>1
      <4>3. j \in Class /\ q \in Page /\ q \in Slabs /\ emplst[j] = {q}
        <5>1. j \in Class
          BY DEF ClassesFor
        <5>2. QED
          BY <5>1, SlabOf
      <4>4. CASE j = k
        <5>1. q = p
          BY <4>3, <4>4 DEF Fit
        <5>2. QED
          BY <1>2, <4>2, <4>3, <4>4, <5>1
      <4>5. CASE j # k
        <5>1. emplst'[j] = emplst[j] /\ q # p
          <6>1. \A i \in Class : i # k => p \notin emplst[i]
            BY <1>1, BecomesSlabs
          <6>2. QED
            BY <1>2, <4>3, <4>5, <6>1
        <5>2. QED
          BY <1>2, <4>2, <4>3, <5>1
      <4>6. QED
        BY <4>4, <4>5
    <3>3. QED
      BY <3>1, <3>2
  <2>2. ASSUME NEW c \in live', NEW d \in live', Small(c), Small(d), c.adr = d.adr
        PROVE  c = d
    <3>1. \A e \in live : Small(e) => e.adr # adr
      BY DEF Held
    <3>2. c \in live /\ d \in live => c = d
      BY <2>2 DEF IInv, SmallInv
    <3>3. QED
      BY <1>3, <1>4, <2>2, <3>1, <3>2
  <2>3. QED
    BY <2>1, <2>2 DEF SmallInv, Small
<1>9. NewBlock(n)
  <2>1. b \notin live
    BY <1>3 DEF Held
  <2>2. b \notin lost
    BY <1>3 DEF IInv, LostInv
  <2>3. QED
    BY <1>3, <2>1, <2>2 DEF NewBlock, b
<1>10. IInv'
  BY <1>1, <1>5, <1>6, <1>7, <1>8, BecomesInv
<1>11. QED
  BY <1>9, <1>10

LEMMA ObjszNewInv ==
  ASSUME IInv, NEW n \in Size, Krlnew(n), ObjszNew(n)
  PROVE  IInv' /\ NewBlock(n)
<1>1. n <= OBJSORPAGE /\ UNCHANGED <<msalsthead, lost>>
  BY DEF ObjszNew, Krlnew
<1>2. PICK adr : KmsobNew(AlignUp(n, ALIGNMENT), adr) /\ live' = live \cup {Block(adr, n)}
  BY DEF ObjszNew
<1>3. PICK k \in ClassesFor(AlignUp(n, ALIGNMENT)) :
        \/ \E p \in NewSlab(k) :
             /\ kmsob[p].so_fobjnr >= 1
             /\ adr \in kmsob[p].so_frelst
             /\ kmsob' = [kmsob EXCEPT ![p] = Taken(@, adr)]
             /\ cahe' = [cahe EXCEPT ![k] = p]
             /\ UNCHANGED <<runs, emplst, msobnr>>
        \/ \E p \in NewSlab(k), r \in FreeRuns(pages_of[k]) :
             /\ kmsob[p].so_fobjnr < 1
             /\ adr \in Extended(kmsob[p], r).so_frelst
             /\ runs' = runs \cup {r}
             /\ kmsob' = [kmsob EXCEPT ![p] = Taken(Extended(@, r), adr)]
             /\ cahe' = [cahe EXCEPT ![k] = p]
             /\ UNCHANGED <<emplst, msobnr>>
        \/ \E r \in FreeRuns(pages_of[k]) :
             /\ NewSlab(k) = {}
             /\ adr \in Fresh(r, k).so_frelst
             /\ runs' = runs \cup {r}
             /\ emplst' = [emplst EXCEPT ![k] = @ \cup {r.msa}]
             /\ msobnr' = msobnr + 1
             /\ kmsob' = [kmsob EXCEPT ![r.msa] = Taken(Fresh(r, k), adr)]
             /\ cahe' = [cahe EXCEPT ![k] = r.msa]
  BY <1>2 DEF KmsobNew
<1>4. k \in Class
  BY DEF ClassesFor
<1>5. \A p \in NewSlab(k) : p \in emplst[k]
  BY <1>4 DEF NewSlab, IInv, ClassInv
<1>6. /\ emplst \in [Class -> SUBSET Page] /\ kmsob \in [Page -> Kmsob \cup {NULL}]
      /\ Separate(runs) /\ runs \cup {} = runs
  BY DEF IInv, TInv, RunsInv
<1>7. ASSUME NEW p \in NewSlab(k),
             adr \in kmsob[p].so_frelst,
             kmsob' = [kmsob EXCEPT ![p] = Taken(@, adr)],
             cahe' = [cahe EXCEPT ![k] = p],
             UNCHANGED <<runs, emplst, msobnr>>
      PROVE  IInv' /\ NewBlock(n)
  <2>1. /\ p \in Page /\ p \in Slabs /\ emplst[k] = {p}
        /\ Sound(kmsob[p], runs) /\ kmsob[p].mc_kmobin.msa = p
        /\ Counted(kmsob[p]) /\ kmsob[p].so_objsz = ol_sz[k]
        /\ \A a \in AllOf(kmsob[p]) : a \in kmsob[p].so_frelst <=> ~Held(a)
    BY <1>4, <1>5, SlabOf
  <2>2. PICK t : t = Taken(kmsob[p], adr)
    OBVIOUS
  <2>3. /\ Sound(t, runs) /\ Counted(t) /\ t.so_fobjnr < t.so_mobjnr
        /\ t.so_objsz = kmsob[p].so_objsz /\ t.mc_kmobin = kmsob[p].mc_kmobin
        /\ Owns(t) = Owns(kmsob[p]) /\ AllOf(t) = AllOf(kmsob[p])
        /\ t.so_frelst = kmsob[p].so_frelst \ {adr}
    BY <1>6, <1>7, <2>1, <2>2, TakenIs
  <2>4. Fit(k, p, t, {})
    BY <1>6, <2>1, <2>3 DEF Fit
  <2>5. Becomes(k, p, t, {})
    <3>1. emplst' = [emplst EXCEPT ![k] = {p}] /\ kmsob' = [kmsob EXCEPT ![p] = t]
      BY <1>4, <1>6, <1>7, <2>1, <2>2
    <3>2. QED
      BY <1>1, <1>7, <2>1, <3>1 DEF Becomes
  <2>6. /\ adr \in AllOf(t) /\ ~Held(adr)
        /\ \A a \in AllOf(t) : a \in t.so_frelst <=> ~Held(a) /\ a # adr
    BY <1>7, <2>1, <2>3 DEF Counted
  <2>7. QED
    BY <1>1, <1>2, <2>1, <2>3, <2>4, <2>5, <2>6, GiveInv
<1>8. ASSUME NEW p \in NewSlab(k), NEW r \in FreeRuns(pages_of[k]),
             adr \in Extended(kmsob[p], r).so_frelst,
             runs' = runs \cup {r},
             kmsob' = [kmsob EXCEPT ![p] = Taken(Extended(@, r), adr)],
             cahe' = [cahe EXCEPT ![k] = p],
             UNCHANGED <<emplst, msobnr>>
      PROVE  IInv' /\ NewBlock(n)
  <2>1. /\ p \in Page /\ p \in Slabs /\ emplst[k] = {p}
        /\ Sound(kmsob[p], runs) /\ kmsob[p].mc_kmobin.msa = p
        /\ Counted(kmsob[p]) /\ kmsob[p].so_objsz = ol_sz[k]
        /\ \A a \in AllOf(kmsob[p]) : a \in kmsob[p].so_frelst <=> ~Held(a)
    BY <1>4, <1>5, SlabOf
  <2>2. r \in Run /\ r \notin runs /\ Separate(runs \cup {r})
    BY FreeRunIs
  <2>3. PICK x : x = Extended(kmsob[p], r)
    OBVIOUS
  <2>4. PICK new : new = Objects(r, KMBEXT, kmsob[p].so_objsz)
    OBVIOUS
  <2>5. /\ Sound(x, runs \cup {r}) /\ Counted(x)
        /\ x.so_objsz = kmsob[p].so_objsz /\ x.mc_kmobin = kmsob[p].mc_kmobin
        /\ Owns(x) = Owns(kmsob[p]) \cup {r} /\ AllOf(x) = AllOf(kmsob[p]) \cup new
        /\ x.so_frelst = kmsob[p].so_frelst \cup new
    <3>1. PICK more : more = runs \cup {r}
      OBVIOUS
    <3>2. QED
      BY ONLY <1>6, <2>1, <2>2, <2>3, <2>4, <3>1, ExtendedIs
  <2>6. PICK t : t = Taken(x, adr)
    OBVIOUS
  <2>7. /\ Sound(t, runs \cup {r}) /\ Counted(t) /\ t.so_fobjnr < t.so_mobjnr
        /\ t.so_objsz = x.so_objsz /\ t.mc_kmobin = x.mc_kmobin
        /\ Owns(t) = Owns(x) /\ AllOf(t) = AllOf(x)
        /\ t.so_frelst = x.so_frelst \ {adr}
    BY <1>8, <2>2, <2>3, <2>5, <2>6, TakenIs
  <2>8. \A a \in AllOf(x) : a \in x.so_frelst <=> ~Held(a)
    <3>1. \A a \in new : ~Held(a)
      <4>1. kmsob[p].so_objsz \in Nat \ {0} /\ KMBEXT \in Nat
        BY <2>1, SlabFields DEF Sound
      <4>2. \A a \in new : Vstat(r) <= a /\ a <= Vend(r)
        BY <2>2, <2>4, <4>1, ObjectsWithin
      <4>3. QED
        BY <4>2, NotHeldInFree
    <3>2. QED
      BY <2>1, <2>5, <3>1
  <2>9. Fit(k, p, t, {r})
    BY <2>1, <2>2, <2>5, <2>7 DEF Fit
  <2>10. Becomes(k, p, t, {r})
    <3>1. emplst' = [emplst EXCEPT ![k] = {p}] /\ kmsob' = [kmsob EXCEPT ![p] = t]
      BY <1>4, <1>6, <1>8, <2>1, <2>3, <2>6
    <3>2. QED
      BY <1>1, <1>8, <2>1, <3>1 DEF Becomes
  <2>11. /\ adr \in AllOf(t) /\ ~Held(adr) /\ AllOf(kmsob[p]) \subseteq AllOf(t)
         /\ \A a \in AllOf(t) : a \in t.so_frelst <=> ~Held(a) /\ a # adr
    BY <1>8, <2>3, <2>5, <2>7, <2>8 DEF Counted
  <2>12. QED
    BY <1>1, <1>2, <2>1, <2>9, <2>10, <2>11, GiveInv
<1>9. ASSUME NEW r \in FreeRuns(pages_of[k]),
             NewSlab(k) = {},
             adr \in Fresh(r, k).so_frelst,
             runs' = runs \cup {r},
             emplst' = [emplst EXCEPT ![k] = @ \cup {r.msa}],
             msobnr' = msobnr + 1,
             kmsob' = [kmsob EXCEPT ![r.msa] = Taken(Fresh(r, k), adr)],
             cahe' = [cahe EXCEPT ![k] = r.msa]
      PROVE  IInv' /\ NewBlock(n)
  <2>1. /\ r \in Run /\ r \notin runs /\ Separate(runs \cup {r}) /\ r.msa \notin Slabs
    BY FreeRunIs
  <2>2. r.msa \in Page /\ emplst[k] = {}
    BY <1>9, <2>1 DEF Run, NewSlab
  <2>3. PICK x : x = Fresh(r, k)
    OBVIOUS
  <2>4. /\ Sound(x, runs \cup {r}) /\ Counted(x)
        /\ x.so_objsz = ol_sz[k] /\ x.mc_kmobin = r /\ Owns(x) = {r}
        /\ AllOf(x) = Objects(r, KMSOB, ol_sz[k]) /\ x.so_frelst = AllOf(x)
    BY ONLY <1>4, <2>1, <2>3, FreshIs
  <2>5. PICK t : t = Taken(x, adr)
    OBVIOUS
  <2>6. /\ Sound(t, runs \cup {r}) /\ Counted(t) /\ t.so_fobjnr < t.so_mobjnr
        /\ t.so_objsz = x.so_objsz /\ t.mc_kmobin = x.mc_kmobin
        /\ Owns(t) = Owns(x) /\ AllOf(t) = AllOf(x)
        /\ t.so_frelst = x.so_frelst \ {adr}
    BY <1>9, <2>1, <2>3, <2>4, <2>5, TakenIs
  <2>7. \A a \in AllOf(x) : ~Held(a)
    <3>1. \A a \in AllOf(x) : Vstat(r) <= a /\ a <= Vend(r)
      <4>1. x.so_objsz \in Nat /\ Vend(r) \in Nat
        BY <2>1, <2>4, SlabFields, RunIs DEF Sound
      <4>2. \A a \in AllOf(x) : a \in Nat /\ Vstat(r) <= a /\ a + x.so_objsz <= Vend(r)
        BY <2>4, HomeOf
      <4>3. QED
        BY <4>1, <4>2
    <3>2. QED
      BY <3>1, NotHeldInFree
  <2>8. Fit(k, r.msa, t, {r})
    BY <2>1, <2>2, <2>4, <2>6 DEF Fit
  <2>9. Becomes(k, r.msa, t, {r})
    <3>1. /\ emplst' = [emplst EXCEPT ![k] = {r.msa}]
          /\ kmsob' = [kmsob EXCEPT ![r.msa] = t]
      BY <1>4, <1>6, <1>9, <2>2, <2>3, <2>5
    <3>2. QED
      BY <1>1, <1>9, <2>1, <3>1 DEF Becomes
  <2>10. /\ adr \in AllOf(t) /\ ~Held(adr)
         /\ \A a \in AllOf(t) : a \in t.so_frelst <=> ~Held(a) /\ a # adr
    BY <1>9, <2>3, <2>4, <2>6, <2>7
  <2>11. QED
    BY <1>1, <1>2, <2>1, <2>2, <2>8, <2>9, <2>10, GiveInv
<1>10. QED
  BY <1>3, <1>7, <1>8, <1>9

-----------------------------------------------------------------------------
(* A small block is taken back.                                            *)

LEMMA ClassIs ==
  ASSUME NEW m, NEW k \in ClassesFor(m), NEW j \in ClassesFor(m)
  PROVE  k \in Class /\ k = j
<1>1. /\ k \in Class /\ j \in Class /\ k <= j /\ j <= k
  BY DEF ClassesFor
<1>2. k \in Nat /\ j \in Nat
  BY <1>1, KmSobAssumption DEF Class
<1>3. QED
  BY <1>1, <1>2

(* The slab that is found for a block is the one it is an object of.       *)
LEMMA FoundIs ==
  ASSUME IInv, NEW b \in live, Small(b)
  PROVE  /\ KmsobFound(b.adr, AlignUp(b.sz, ALIGNMENT)) # {}
         /\ \A k \in ClassesFor(AlignUp(b.sz, ALIGNMENT)) :
            \A p \in KmsobFound(b.adr, AlignUp(b.sz, ALIGNMENT)) :
              /\ k \in Class /\ p \in emplst[k]
              /\ b.adr \in AllOf(kmsob[p]) /\ b.adr \notin kmsob[p].so_frelst
<1> DEFINE fsz == AlignUp(b.sz, ALIGNMENT)
<1>1. b.adr \in Nat /\ b.sz \in Nat
  BY KrlPoolAssumption DEF IInv, TInv
<1>2. fsz \in Nat
  BY <1>1, AlignUpIs, KrlPoolAssumption
<1> HIDE DEF fsz
<1>3. Held(b.adr)
  BY DEF Held
<1>4. PICK k \in ClassesFor(fsz) : \E p \in emplst[k] : b.adr \in AllOf(kmsob[p])
  BY DEF IInv, SmallInv, fsz
<1>5. PICK p \in emplst[k] : b.adr \in AllOf(kmsob[p])
  BY <1>4
<1>6. k \in Class /\ fsz <= ol_sz[k]
  BY <1>2, KmSobAssumption DEF ClassesFor
<1>7. /\ p \in Page /\ Sound(kmsob[p], runs) /\ kmsob[p].so_objsz = ol_sz[k]
      /\ kmsob[p].so_fobjnr < kmsob[p].so_mobjnr
  BY <1>6, SlabOf
<1>8. InSlab(kmsob[p], b.adr, fsz)
  BY <1>1, <1>2, <1>5, <1>6, <1>7, InSlabIs
<1>9. p \in KmsobFound(b.adr, fsz)
  <2>1. kmsob[p].so_fobjnr \in Nat /\ kmsob[p].so_mobjnr \in Nat
    BY <1>7, SlabFields DEF Sound
  <2>2. kmsob[p].so_fobjnr + 1 <= kmsob[p].so_mobjnr
    BY <1>7, <2>1
  <2>3. QED
    BY <1>7, <1>8, <2>2 DEF KmsobFound
<1>10. ASSUME NEW j \in ClassesFor(fsz), NEW q \in KmsobFound(b.adr, fsz)
       PROVE  /\ j \in Class /\ q \in emplst[j]
              /\ b.adr \in AllOf(kmsob[q]) /\ b.adr \notin kmsob[q].so_frelst
  <2>1. PICK i \in ClassesFor(fsz) : q \in emplst[i] /\ InSlab(kmsob[q], b.adr, fsz)
    BY DEF KmsobFound
  <2>2. j \in Class /\ i = j
    BY ClassIs
  <2>3. /\ Sound(kmsob[q], runs)
        /\ \A a \in AllOf(kmsob[q]) : a \in kmsob[q].so_frelst <=> ~Held(a)
    BY <2>1, <2>2, SlabOf
  <2>4. b.adr \in AllOf(kmsob[q])
    BY <1>1, <1>2, <2>1, <2>3, InSlabIs
  <2>5. QED
    BY <1>3, <2>1, <2>2, <2>3, <2>4
<1>11. QED
  BY <1>9, <1>10 DEF fsz

(* When b is gone nobody holds its object, and every other is held as      *)
(* before.                                                                 *)
LEMMA TakeBack ==
  ASSUME IInv, NEW b \in live, Small(b), live' = live \ {b}
  PROVE  /\ \A a : Held(a)' <=> Held(a) /\ a # b.adr
         /\ live' \subseteq [adr : Nat, sz : Size]
         /\ \A c : c \in live' /\ ~Small(c) <=> c \in live /\ ~Small(c)
<1>1. \A c \in live : Small(c) /\ c.adr = b.adr => c = b
  BY DEF IInv, SmallInv
<1>2. \A a : Held(a)' <=> Held(a) /\ a # b.adr
  BY <1>1 DEF Held, Small
<1>3. QED
  BY <1>2 DEF IInv, TInv

LEMMA PutBackInv ==
  ASSUME IInv, NEW b \in live, Small(b), live' = live \ {b},
         UNCHANGED <<msalsthead, lost>>,
         NEW k \in Class, NEW p \in emplst[k],
         b.adr \in AllOf(kmsob[p]), b.adr \notin kmsob[p].so_frelst,
         NEW t, t = PutBack(kmsob[p], b.adr), ~AllFree(t),
         kmsob' = [kmsob EXCEPT ![p] = t], cahe' = [cahe EXCEPT ![k] = p],
         UNCHANGED <<runs, emplst, msobnr>>
  PROVE  IInv'
<1>1. /\ p \in Page /\ p \in Slabs /\ emplst[k] = {p}
      /\ Sound(kmsob[p], runs) /\ kmsob[p].mc_kmobin.msa = p
      /\ Counted(kmsob[p]) /\ kmsob[p].so_objsz = ol_sz[k]
      /\ \A a \in AllOf(kmsob[p]) : a \in kmsob[p].so_frelst <=> ~Held(a)
  BY SlabOf
<1>2. /\ emplst \in [Class -> SUBSET Page] /\ kmsob \in [Page -> Kmsob \cup {NULL}]
      /\ Separate(runs) /\ runs \cup {} = runs
  BY DEF IInv, TInv, RunsInv
<1>3. /\ Sound(t, runs) /\ Counted(t) /\ t.so_fobjnr < t.so_mobjnr
      /\ t.so_objsz = kmsob[p].so_objsz /\ t.mc_kmobin = kmsob[p].mc_kmobin
      /\ Owns(t) = Owns(kmsob[p]) /\ AllOf(t) = AllOf(kmsob[p])
      /\ t.so_frelst = kmsob[p].so_frelst \cup {b.adr}
  BY <1>1, <1>2, PutBackIs
<1>4. Fit(k, p, t, {})
  BY <1>1, <1>2, <1>3 DEF Fit
<1>5. Becomes(k, p, t, {})
  <2>1. emplst' = [emplst EXCEPT ![k] = {p}]
    BY <1>1, <1>2
  <2>2. QED
    BY <1>1, <2>1 DEF Becomes
<1>6. /\ \A a : Held(a)' <=> Held(a) /\ a # b.adr
      /\ live' \subseteq [adr : Nat, sz : Size]
      /\ \A c : c \in live' /\ ~Small(c) <=> c \in live /\ ~Small(c)
  BY TakeBack
<1>7. \A a \in AllOf(t) : a \in t.so_frelst <=> ~Held(a)'
  BY <1>1, <1>3, <1>6
<1>8. SmallInv'
  <2>1. \A q \in Page : AllOf(kmsob'[q]) = AllOf(kmsob[q])
    BY <1>1, <1>2, <1>3
  <2>2. \A c \in live' : Small(c) => \E j \in ClassesFor(AlignUp(c.sz, ALIGNMENT)) :
          \E q \in emplst'[j] : c.adr \in AllOf(kmsob'[q])
    <3>1. \A m : \A j \in ClassesFor(m) : \A q \in emplst[j] : q \in Page
      BY <1>2 DEF ClassesFor
    <3>2. QED
      BY <2>1, <3>1 DEF IInv, SmallInv
  <2>3. \A c, d \in live' : Small(c) /\ Small(d) /\ c.adr = d.adr => c = d
    BY DEF IInv, SmallInv
  <2>4. QED
    BY <2>2, <2>3 DEF SmallInv, Small
<1>9. \A a : a # b.adr => (Held(a)' <=> Held(a))
  BY <1>6
<1>10. b.adr \in AllOf(t)
  BY <1>3
<1>11. QED
  BY <1>1, <1>4, <1>5, <1>6, <1>7, <1>8, <1>9, <1>10, BecomesInv

(* With the last object the slab goes, and all its pages.                  *)
LEMMA DestroyInv ==
  ASSUME IInv, NEW b \in live, Small(b), live' = live \ {b},
         UNCHANGED <<msalsthead, lost>>,
         NEW k \in Class, NEW p \in emplst[k],
         b.adr \in AllOf(kmsob[p]), b.adr \notin kmsob[p].so_frelst,
         NEW t, t = PutBack(kmsob[p], b.adr), AllFree(t),
         emplst' = [emplst EXCEPT ![k] = @ \ {p}],
         msobnr' = msobnr - 1,
         cahe' = [cahe EXCEPT ![k] = IF @ = p THEN NULL ELSE @],
         runs' = runs \ PagesGivenBack(t),
         kmsob' = [kmsob EXCEPT ![p] = NULL]
  PROVE  IInv'
<1>1. /\ p \in Page /\ p \in Slabs /\ emplst[k] = {p}
      /\ Sound(kmsob[p], runs) /\ kmsob[p].mc_kmobin.msa = p
      /\ Counted(kmsob[p]) /\ kmsob[p].so_objsz = ol_sz[k]
      /\ \A a \in AllOf(kmsob[p]) : a \in kmsob[p].so_frelst <=> ~Held(a)
  BY SlabOf
<1>2. /\ emplst \in [Class -> SUBSET Page] /\ kmsob \in [Page -> Kmsob \cup {NULL}]
      /\ cahe \in [Class -> Page \cup {NULL}] /\ Separate(runs)
  BY DEF IInv, TInv, RunsInv
<1>3. /\ Owns(t) = Owns(kmsob[p]) /\ t.so_frelst = kmsob[p].so_frelst \cup {b.adr}
      /\ t.so_frelst = AllOf(kmsob[p])
  BY <1>1, <1>2, PutBackIs
<1>4. /\ kmsob'[p] = NULL /\ \A q \in Page : q # p => kmsob'[q] = kmsob[q]
      /\ emplst'[k] = {} /\ \A j \in Class : j # k => emplst'[j] = emplst[j]
      /\ \A j \in Class : cahe'[j] = IF j = k /\ cahe[j] = p THEN NULL ELSE cahe[j]
      /\ runs' = runs \ Owns(kmsob[p])
  BY <1>1, <1>2, <1>3 DEF PagesGivenBack, Owns
<1>5. Slabs' = Slabs \ {p} /\ Slabs \subseteq Page
  <2>1. \A j \in Class : j # k => p \notin emplst[j]
    BY <1>1 DEF IInv, ClassInv
  <2>2. \A q \in Page : q \in Slabs' <=> q \in Slabs /\ q # p
    BY <1>1, <1>4, <2>1 DEF Slabs
  <2>3. Slabs' \subseteq Page /\ Slabs \subseteq Page
    BY DEF Slabs
  <2>4. QED
    BY <2>2, <2>3
<1>6. \A q \in Slabs' : q \in Slabs /\ q # p /\ kmsob'[q] = kmsob[q]
  BY <1>4, <1>5
<1>7. /\ \A a : Held(a)' <=> Held(a) /\ a # b.adr
      /\ live' \subseteq [adr : Nat, sz : Size]
      /\ \A c : c \in live' /\ ~Small(c) <=> c \in live /\ ~Small(c)
  BY TakeBack
<1>8. Large' = Large
  BY <1>7 DEF Large
<1>9. TInv'
  <2>1. IsFiniteSet(Slabs)
    BY <1>5, PageFinite, FS_Subset
  <2>2. Cardinality(Slabs \ {p}) = Cardinality(Slabs) - 1
    BY <1>1, <2>1, FS_RemoveElement
  <2>3. msobnr' = Cardinality(Slabs')
    BY <1>5, <2>2 DEF IInv, TInv
  <2>4. /\ runs' \subseteq Run
        /\ emplst' \in [Class -> SUBSET Page]
        /\ cahe' \in [Class -> Page \cup {NULL}]
        /\ kmsob' \in [Page -> Kmsob \cup {NULL}]
    BY <1>2 DEF Separate
  <2>5. QED
    BY <1>7, <2>3, <2>4 DEF IInv, TInv
<1>10. RunsInv'
  BY <1>2, <1>4 DEF RunsInv, Separate
<1>11. ClassInv'
  <2>1. \A q \in Page : kmsob'[q] # NULL <=> q \in Slabs'
    BY <1>4, <1>5 DEF IInv, ClassInv
  <2>2. \A j \in Class : \A q \in emplst'[j] :
          /\ q \in emplst[j] /\ q \in Page /\ q # p
          /\ kmsob'[q] = kmsob[q]
    <3>1. \A j \in Class : j # k => p \notin emplst[j]
      BY <1>1 DEF IInv, ClassInv
    <3>2. QED
      BY <1>2, <1>4, <3>1
  <2>3. \A j \in Class : cahe'[j] # NULL => cahe'[j] \in emplst'[j]
    <3>1. \A j \in Class : cahe[j] # NULL => cahe[j] \in emplst[j]
      BY DEF IInv, ClassInv
    <3>2. QED
      BY <1>1, <1>4, <3>1
  <2>4. QED
    BY <2>1, <2>2, <2>3 DEF IInv, ClassInv
<1>12. SlabRuns'
  <2>1. \A q \in Slabs' : Owns(kmsob[q]) \cap Owns(kmsob[p]) = {}
    BY <1>1, <1>6 DEF IInv, SlabRuns
  <2>2. \A q \in Slabs' : Sound(kmsob'[q], runs')
    BY <1>4, <1>6, <2>1 DEF IInv, SlabRuns, Sound
  <2>3. QED
    BY <1>6, <2>2 DEF IInv, SlabRuns
<1>13. BlockRuns'
  <2>1. \A c \in Large : BlockRun(c) \in runs /\ BlockRun(c) \notin Owns(kmsob[p])
    BY <1>1 DEF IInv, BlockRuns
  <2>2. \A c \in Large : BlockRun(c) \in runs'
    BY <1>4, <2>1
  <2>3. QED
    BY <1>6, <1>8, <2>2 DEF IInv, BlockRuns
<1>14. AllOwned'
  <2>1. \A r \in runs : \/ \E q \in Slabs : r \in Owns(kmsob[q])
                        \/ \E c \in Large : r = BlockRun(c)
    BY DEF IInv, AllOwned
  <2>2. \A q \in Slabs : q # p => q \in Slabs' /\ kmsob'[q] = kmsob[q]
    BY <1>4, <1>5
  <2>3. QED
    BY <1>4, <1>8, <2>1, <2>2 DEF AllOwned
<1>15. LostInv'
  BY <1>7 DEF IInv, LostInv
<1>16. SmallInv'
  <2>1. ASSUME NEW c \in live', Small(c)
        PROVE  \E j \in ClassesFor(AlignUp(c.sz, ALIGNMENT)) : \E q \in emplst'[j] :
                 c.adr \in AllOf(kmsob'[q])
    <3>1. PICK j \in ClassesFor(AlignUp(c.sz, ALIGNMENT)) : \E q \in emplst[j] :
            c.adr \in AllOf(kmsob[q])
      BY <2>1 DEF IInv, SmallInv
    <3>2. PICK q \in emplst[j] : c.adr \in AllOf(kmsob[q])
      BY <3>1
    <3>3. j \in Class /\ q \in Page
      BY <1>2 DEF ClassesFor
    <3>4. Held(c.adr)'
      BY <2>1 DEF Held, Small
    <3>5. q # p
      BY <1>1, <1>3, <1>7, <3>2, <3>4
    <3>6. q \in emplst'[j] /\ kmsob'[q] = kmsob[q]
      BY <1>1, <1>4, <3>2, <3>3, <3>5
    <3>7. QED
      BY <3>2, <3>6
  <2>2. \A c, d \in live' : Small(c) /\ Small(d) /\ c.adr = d.adr => c = d
    BY DEF IInv, SmallInv
  <2>3. QED
    BY <2>1, <2>2 DEF SmallInv, Small
<1>17. FreeInv'
  <2>1. \A q \in Slabs' : b.adr \notin AllOf(kmsob[q])
    <3>1. ASSUME NEW q \in Slabs'
          PROVE  b.adr \notin AllOf(kmsob[q])
      <4>1. /\ Sound(kmsob[q], runs) /\ Owns(kmsob[q]) \cap Owns(kmsob[p]) = {}
        BY <1>1, <1>6 DEF IInv, SlabRuns
      <4>2. AllOf(kmsob[q]) \cap AllOf(kmsob[p]) = {}
        BY <1>1, <1>2, <4>1, SlabsDiffer
      <4>3. QED
        BY <4>2
    <3>2. QED
      BY <3>1
  <2>2. \A q \in Slabs' :
          /\ Counted(kmsob[q]) /\ kmsob[q].so_fobjnr < kmsob[q].so_mobjnr
          /\ \A a \in AllOf(kmsob[q]) : a \in kmsob[q].so_frelst <=> ~Held(a)
    BY <1>6 DEF IInv, FreeInv
  <2>3. \A q \in Slabs' : \A a \in AllOf(kmsob[q]) : Held(a)' <=> Held(a)
    BY <1>7, <2>1
  <2>4. QED
    BY <1>6, <2>2, <2>3 DEF FreeInv
<1>18. QED
  BY <1>9, <1>10, <1>11, <1>12, <1>13, <1>14, <1>15, <1>16, <1>17 DEF IInv

LEMMA ObjszDeleteInv ==
  ASSUME IInv, NEW b \in live, Krldelete(b), ObjszDelete(b)
  PROVE  IInv'
<1> DEFINE fsz == AlignUp(b.sz, ALIGNMENT)
<1>1. /\ Small(b) /\ live' = live \ {b} /\ UNCHANGED <<msalsthead, lost>>
      /\ KmsobDelete(b.adr, fsz)
  BY DEF ObjszDelete, Krldelete, Small
<1> HIDE DEF fsz
<1>2. PICK k \in ClassesFor(fsz), p \in KmsobFound(b.adr, fsz) :
        LET s == PutBack(kmsob[p], b.adr)
        IN  \/ /\ AllFree(s)
               /\ emplst' = [emplst EXCEPT ![k] = @ \ {p}]
               /\ msobnr' = msobnr - 1
               /\ cahe' = [cahe EXCEPT ![k] = IF @ = p THEN NULL ELSE @]
               /\ runs' = runs \ PagesGivenBack(s)
               /\ kmsob' = [kmsob EXCEPT ![p] = NULL]
            \/ /\ ~AllFree(s)
               /\ kmsob' = [kmsob EXCEPT ![p] = s]
               /\ cahe' = [cahe EXCEPT ![k] = p]
               /\ UNCHANGED <<runs, emplst, msobnr>>
  BY <1>1 DEF KmsobDelete
<1>3. /\ k \in Class /\ p \in emplst[k]
      /\ b.adr \in AllOf(kmsob[p]) /\ b.adr \notin kmsob[p].so_frelst
  BY <1>1, FoundIs DEF fsz
<1>4. PICK t : t = PutBack(kmsob[p], b.adr)
  OBVIOUS
<1>5. CASE AllFree(t)
  BY <1>1, <1>2, <1>3, <1>4, <1>5, DestroyInv
<1>6. CASE ~AllFree(t)
  BY <1>1, <1>2, <1>3, <1>4, <1>6, PutBackInv
<1>7. QED
  BY <1>5, <1>6

-----------------------------------------------------------------------------
(* Blocks of pages.                                                        *)

LEMMA ListOfIs ==
  ASSUME NEW n \in Nat \ {0}
  PROVE  ListOf(n) \in Lists
BY KrlPoolAssumption DEF ListOf, Lists

(* A run is known by its first page.                                       *)
LEMMA SameRun ==
  ASSUME IInv, NEW r \in runs, NEW o \in runs, r.msa = o.msa
  PROVE  r = o
<1>1. r \in Run /\ o \in Run
  BY DEF IInv, TInv
<1>2. r.msa \in PagesOf(r) /\ o.msa \in PagesOf(o)
  BY <1>1, RunIs DEF PagesOf
<1>3. QED
  BY <1>2 DEF IInv, RunsInv, Separate

LEMMA BlockIs ==
  ASSUME IInv, NEW b \in Large
  PROVE  /\ b.adr \in Nat /\ b.sz \in Size /\ b.sz \in Nat \ {0} /\ Pages(b.sz) \in Nat \ {0}
         /\ BlockRun(b) \in runs /\ BlockRun(b) \in Run
         /\ BlockRun(b).msa = b.adr \div PAGESIZE
         /\ BlockRun(b).relpnr = Relpnr(Pages(b.sz))
         /\ BlockRun(b).relpnr \in Nat \ {0}
<1>1. b.adr \in Nat /\ b.sz \in Size /\ b.sz \in Nat \ {0}
  BY KrlPoolAssumption DEF IInv, TInv, Large
<1>2. BlockRun(b) \in runs /\ BlockRun(b) \in Run
  BY DEF IInv, BlockRuns, TInv
<1>3. BlockRun(b).msa = b.adr \div PAGESIZE /\ BlockRun(b).relpnr = Relpnr(Pages(b.sz))
  BY DEF BlockRun
<1>4. QED
  BY <1>1, <1>2, <1>3, PagesIs, RunIs

(* The slabs stay as they are when a run comes or goes that is no slab's,  *)
(* and no small block.                                                     *)
LEMMA SlabsKept ==
  ASSUME IInv, UNCHANGED <<emplst, cahe, kmsob, msobnr>>,
         Separate(runs'), \A p \in Slabs : Owns(kmsob[p]) \subseteq runs',
         \A b : b \in live' /\ Small(b) <=> b \in live /\ Small(b)
  PROVE  Slabs' = Slabs /\ RunsInv' /\ ClassInv' /\ SlabRuns' /\ SmallInv' /\ FreeInv'
<1>1. Slabs' = Slabs
  BY DEF Slabs
<1>2. RunsInv' /\ ClassInv'
  BY <1>1 DEF IInv, RunsInv, ClassInv
<1>3. SlabRuns'
  BY <1>1 DEF IInv, SlabRuns, Sound
<1>4. SmallInv'
  BY DEF IInv, SmallInv
<1>5. \A a : Held(a)' <=> Held(a)
  BY DEF Held, Small
<1>6. FreeInv'
  BY <1>1, <1>5 DEF IInv, FreeInv
<1>7. QED
  BY <1>1, <1>2, <1>3, <1>4, <1>6

LEMMA PagesNewInv ==
  ASSUME IInv, NEW n \in Size, Krlnew(n), PagesNew(n)
  PROVE  IInv' /\ NewBlock(n)
<1>1. PICK r \in FreeRuns(Pages(n)) :
        /\ runs' = runs \cup {r}
        /\ msalsthead' = [msalsthead EXCEPT ![ListOf(r.relpnr)] = @ \cup {r.msa}]
        /\ live' = live \cup {Block(Vstat(r), n)}
  BY DEF PagesNew
<1>2. UNCHANGED <<emplst, cahe, kmsob, msobnr, lost>> /\ n > OBJSORPAGE
  BY DEF PagesNew, Krlnew
<1>3. PICK b : b = Block(Vstat(r), n)
  OBVIOUS
<1>4. /\ r \in Run /\ r \notin runs /\ Separate(runs \cup {r})
      /\ r.relpnr \in Rounded(Pages(n))
  BY FreeRunIs
<1>5. n \in Nat \ {0} /\ Pages(n) \in Nat \ {0}
  BY PagesIs, KrlPoolAssumption
<1>6. /\ r.msa \in Page /\ r.relpnr \in Nat \ {0} /\ Vstat(r) \in Nat
      /\ Vstat(r) \div PAGESIZE = r.msa
  BY <1>4, RunIs DEF Run
<1>7. b.adr = Vstat(r) /\ b.sz = n /\ b \in [adr : Nat, sz : Size] /\ ~Small(b)
  BY <1>2, <1>3, <1>5, <1>6, KrlPoolAssumption DEF Block, Small
<1>8. BlockRun(b) = r /\ r.relpnr >= Pages(n)
  <2>1. Relpnr(Pages(n)) = r.relpnr
    BY <1>4, <1>5, RelpnrIs
  <2>2. BlockRun(b) = [msa |-> r.msa, relpnr |-> r.relpnr]
    BY <1>6, <1>7, <2>1 DEF BlockRun
  <2>3. QED
    BY <1>4, <2>2 DEF Run, Rounded
<1>9. b \notin live /\ b \notin lost /\ \A c \in Large : BlockRun(c) # r
  <2>1. \A c \in Large : BlockRun(c) \in runs
    BY BlockIs
  <2>2. b \notin Large
    BY <1>4, <1>8, <2>1
  <2>3. QED
    BY <1>4, <1>7, <2>1, <2>2 DEF Large
<1>10. Large' = Large \cup {b}
  BY <1>1, <1>2, <1>3, <1>7 DEF Large
<1>11. /\ Slabs' = Slabs /\ RunsInv' /\ ClassInv' /\ SlabRuns' /\ SmallInv' /\ FreeInv'
  <2>1. \A c : c \in live' /\ Small(c) <=> c \in live /\ Small(c)
    BY <1>1, <1>3, <1>7
  <2>2. \A p \in Slabs : Owns(kmsob[p]) \subseteq runs'
    BY <1>1 DEF IInv, SlabRuns, Sound
  <2>3. QED
    BY <1>1, <1>2, <1>4, <2>1, <2>2, SlabsKept
<1>12. ListOf(r.relpnr) \in Lists
  BY <1>6, ListOfIs
<1>13. /\ msalsthead' \in [Lists -> SUBSET Page]
       /\ r.msa \in msalsthead'[ListOf(r.relpnr)]
       /\ \A i \in Lists : msalsthead[i] \subseteq msalsthead'[i]
  BY <1>1, <1>6, <1>12 DEF IInv, TInv
<1>14. TInv'
  BY <1>1, <1>2, <1>3, <1>4, <1>7, <1>11, <1>13 DEF IInv, TInv
<1>15. BlockRuns'
  <2>1. \A p \in Slabs : r \notin Owns(kmsob[p])
    BY <1>4 DEF IInv, SlabRuns, Sound
  <2>2. \A c \in Large : /\ BlockRun(c) \in runs' /\ c.adr = Vstat(BlockRun(c))
                         /\ BlockRun(c).relpnr >= Pages(c.sz)
                         /\ \A p \in Slabs : BlockRun(c) \notin Owns(kmsob[p])
    BY <1>1 DEF IInv, BlockRuns
  <2>3. \A c, d \in Large \cup {b} : BlockRun(c) = BlockRun(d) => c = d
    BY <1>8, <1>9 DEF IInv, BlockRuns
  <2>4. \A c \in Large' : /\ BlockRun(c) \in runs' /\ c.adr = Vstat(BlockRun(c))
                          /\ BlockRun(c).relpnr >= Pages(c.sz)
                          /\ \A p \in Slabs : BlockRun(c) \notin Owns(kmsob[p])
    BY <1>1, <1>7, <1>8, <1>10, <2>1, <2>2
  <2>5. QED
    BY <1>2, <1>10, <1>11, <2>3, <2>4 DEF BlockRuns
<1>16. AllOwned'
  BY <1>1, <1>2, <1>8, <1>10, <1>11 DEF IInv, AllOwned
<1>17. LostInv'
  <2>1. \A c \in live : ~Small(c) =>
          BlockRun(c).msa \in msalsthead'[ListOf(BlockRun(c).relpnr)]
    <3>1. ASSUME NEW c \in live, ~Small(c)
          PROVE  BlockRun(c).msa \in msalsthead'[ListOf(BlockRun(c).relpnr)]
      <4>1. ListOf(BlockRun(c).relpnr) \in Lists
        BY <3>1, BlockIs, ListOfIs DEF Large
      <4>2. BlockRun(c).msa \in msalsthead[ListOf(BlockRun(c).relpnr)]
        BY <3>1 DEF IInv, LostInv
      <4>3. QED
        BY <1>13, <4>1, <4>2
    <3>2. QED
      BY <3>1
  <2>2. \A c \in live' : ~Small(c) =>
          BlockRun(c).msa \in msalsthead'[ListOf(BlockRun(c).relpnr)]
    BY <1>1, <1>3, <1>8, <1>13, <2>1
  <2>3. live' \cap lost' = {}
    BY <1>1, <1>2, <1>3, <1>9 DEF IInv, LostInv
  <2>4. \A c \in lost' : ~Small(c) /\ Relpnr(Pages(c.sz)) # Pages(c.sz)
    BY <1>2 DEF IInv, LostInv
  <2>5. QED
    BY <2>2, <2>3, <2>4 DEF LostInv, Small
<1>18. NewBlock(n)
  BY <1>1, <1>3, <1>6, <1>9 DEF NewBlock
<1>19. QED
  BY <1>11, <1>14, <1>15, <1>16, <1>17, <1>18 DEF IInv

LEMMA PagesDeleteInv ==
  ASSUME IInv, NEW b \in live, Krldelete(b), PagesDelete(b)
  PROVE  IInv'
<1> DEFINE r == [msa |-> b.adr \div PAGESIZE, relpnr |-> Pages(b.sz)]
<1>1. /\ ~Small(b) /\ live' = live \ {b} /\ r \in runs /\ runs' = runs \ {r}
      /\ msalsthead' = [msalsthead EXCEPT ![ListOf(Pages(b.sz))] = @ \ {r.msa}]
      /\ UNCHANGED <<emplst, cahe, kmsob, msobnr, lost>>
  <2>1. b.sz > OBJSORPAGE /\ b.sz \in Nat /\ OBJSORPAGE \in Nat
    BY KrlPoolAssumption DEF PagesDelete, IInv, TInv
  <2>2. QED
    BY <2>1 DEF PagesDelete, Krldelete, Small
<1>2. b \in Large /\ b \notin lost
  BY <1>1 DEF Large, IInv, LostInv
<1>3. r = BlockRun(b)
  <2>1. r.msa = BlockRun(b).msa /\ BlockRun(b) \in runs
    BY <1>2, BlockIs
  <2>2. QED
    BY <1>1, <2>1, SameRun
<1> HIDE DEF r
<1>4. Large' = Large \ {b}
  BY <1>1, <1>2 DEF Large
<1>5. \A c \in Large : c # b => BlockRun(c) # r /\ BlockRun(c).msa # r.msa
  <2>1. \A c \in Large : c # b => BlockRun(c) # r
    BY <1>2, <1>3 DEF IInv, BlockRuns
  <2>2. \A c \in Large : BlockRun(c) \in runs
    BY BlockIs
  <2>3. QED
    BY <1>1, <2>1, <2>2, SameRun
<1>6. \A p \in Slabs : r \notin Owns(kmsob[p])
  BY <1>2, <1>3 DEF IInv, BlockRuns
<1>7. /\ Slabs' = Slabs /\ RunsInv' /\ ClassInv' /\ SlabRuns' /\ SmallInv' /\ FreeInv'
  <2>1. \A c : c \in live' /\ Small(c) <=> c \in live /\ Small(c)
    BY <1>1
  <2>2. \A p \in Slabs : Owns(kmsob[p]) \subseteq runs'
    BY <1>1, <1>6 DEF IInv, SlabRuns, Sound
  <2>3. Separate(runs')
    BY <1>1 DEF IInv, RunsInv, Separate
  <2>4. QED
    BY <1>1, <2>1, <2>2, <2>3, SlabsKept
<1>8. /\ msalsthead' \in [Lists -> SUBSET Page]
      /\ \A i \in Lists : \A m \in msalsthead[i] : m # r.msa => m \in msalsthead'[i]
  BY <1>1 DEF IInv, TInv
<1>9. TInv'
  BY <1>1, <1>7, <1>8 DEF IInv, TInv
<1>10. BlockRuns'
  BY <1>1, <1>4, <1>5, <1>7 DEF IInv, BlockRuns
<1>11. AllOwned'
  <2>1. \A o \in runs' : \/ \E p \in Slabs : o \in Owns(kmsob[p])
                         \/ \E c \in Large : o = BlockRun(c) /\ c # b
    BY <1>1, <1>3 DEF IInv, AllOwned
  <2>2. QED
    BY <1>1, <1>4, <1>7, <2>1 DEF AllOwned
<1>12. LostInv'
  <2>1. ASSUME NEW c \in live', ~Small(c)
        PROVE  BlockRun(c).msa \in msalsthead'[ListOf(BlockRun(c).relpnr)]
    <3>1. c \in Large /\ c # b /\ c \in live
      BY <1>1, <2>1 DEF Large
    <3>2. ListOf(BlockRun(c).relpnr) \in Lists
      BY <3>1, BlockIs, ListOfIs
    <3>3. BlockRun(c).msa \in msalsthead[ListOf(BlockRun(c).relpnr)]
      BY <2>1, <3>1 DEF IInv, LostInv
    <3>4. QED
      BY <1>5, <1>8, <3>1, <3>2, <3>3
  <2>2. live' \cap lost' = {} /\ \A c \in lost' : ~Small(c) /\ Relpnr(Pages(c.sz)) # Pages(c.sz)
    BY <1>1 DEF IInv, LostInv
  <2>3. QED
    BY <2>1, <2>2 DEF LostInv, Small
<1>13. QED
  BY <1>7, <1>9, <1>10, <1>11, <1>12 DEF IInv

(* What krldelete refuses is a block of pages, filed under another number  *)
(* of pages than it is looked for.                                         *)
LEMMA RefusedInv ==
  ASSUME IInv, NEW b \in live, Refused(b)
  PROVE  IInv'
<1>1. /\ ~Served(b) /\ live' = live \ {b} /\ lost' = lost \cup {b}
      /\ UNCHANGED <<runs, emplst, cahe, kmsob, msobnr>>
  BY DEF Refused, sobvars
<1>2. ~Small(b)
  BY <1>1, FoundIs DEF Served, Small
<1>3. msalsthead' = [msalsthead EXCEPT ![ListOf(Pages(b.sz))] = @ \ {b.adr \div PAGESIZE}]
  BY <1>2 DEF Refused, Small
<1>4. b \in Large
  BY <1>2 DEF Large
<1>5. Large' = Large
  BY <1>1, <1>2 DEF Large
<1>6. Relpnr(Pages(b.sz)) # Pages(b.sz)
  <2>1. SUFFICES ASSUME Relpnr(Pages(b.sz)) = Pages(b.sz) PROVE FALSE
    OBVIOUS
  <2>2. /\ BlockRun(b) \in runs
        /\ BlockRun(b) = [msa |-> b.adr \div PAGESIZE, relpnr |-> Pages(b.sz)]
    BY <1>4, <2>1, BlockIs DEF BlockRun
  <2>3. b.adr \div PAGESIZE \in msalsthead[ListOf(Pages(b.sz))]
    BY <1>2, <2>2 DEF IInv, LostInv
  <2>4. QED
    BY <1>1, <1>2, <2>2, <2>3 DEF Served, OnList, Small
<1>7. \A c \in Large : c # b => BlockRun(c).msa # b.adr \div PAGESIZE
  <2>1. \A c \in Large : BlockRun(c) = BlockRun(b) => c = b
    BY <1>4 DEF IInv, BlockRuns
  <2>2. \A c \in Large : BlockRun(c) \in runs
    BY BlockIs
  <2>3. BlockRun(b).msa = b.adr \div PAGESIZE
    BY <1>4, BlockIs
  <2>4. QED
    BY <1>4, <2>1, <2>2, <2>3, SameRun
<1>8. /\ Slabs' = Slabs /\ RunsInv' /\ ClassInv' /\ SlabRuns' /\ SmallInv' /\ FreeInv'
  <2>1. \A c : c \in live' /\ Small(c) <=> c \in live /\ Small(c)
    BY <1>1, <1>2
  <2>2. \A p \in Slabs : Owns(kmsob[p]) \subseteq runs'
    BY <1>1 DEF IInv, SlabRuns, Sound
  <2>3. Separate(runs')
    BY <1>1 DEF IInv, RunsInv
  <2>4. QED
    BY <1>1, <2>1, <2>2, <2>3, SlabsKept
<1>9. /\ msalsthead' \in [Lists -> SUBSET Page]
      /\ \A i \in Lists : \A m \in msalsthead[i] :
           m # b.adr \div PAGESIZE => m \in msalsthead'[i]
  BY <1>3 DEF IInv, TInv
<1>10. TInv'
  BY <1>1, <1>8, <1>9 DEF IInv, TInv
<1>11. BlockRuns' /\ AllOwned'
  BY <1>1, <1>5, <1>8 DEF IInv, BlockRuns, AllOwned
<1>12. LostInv'
  <2>1. ASSUME NEW c \in live', ~Small(c)
        PROVE  BlockRun(c).msa \in msalsthead'[ListOf(BlockRun(c).relpnr)]
    <3>1. c \in Large /\ c # b /\ c \in live
      BY <1>1, <2>1 DEF Large
    <3>2. ListOf(BlockRun(c).relpnr) \in Lists
      BY <3>1, BlockIs, ListOfIs
    <3>3. BlockRun(c).msa \in msalsthead[ListOf(BlockRun(c).relpnr)]
      BY <2>1, <3>1 DEF IInv, LostInv
    <3>4. QED
      BY <1>7, <1>9, <3>1, <3>2, <3>3
  <2>2. live' \cap lost' = {}
    BY <1>1 DEF IInv, LostInv
  <2>3. \A c \in lost' : ~Small(c) /\ Relpnr(Pages(c.sz)) # Pages(c.sz)
    BY <1>1, <1>2, <1>6 DEF IInv, LostInv
  <2>4. QED
    BY <2>1, <2>2, <2>3 DEF LostInv, Small
<1>13. QED
  BY <1>8, <1>10, <1>11, <1>12 DEF IInv

-----------------------------------------------------------------------------
(* The invariant holds.                                                    *)

LEMMA StutterInv ==
  ASSUME IInv, UNCHANGED <<sobvars, msalsthead, live, lost>>
  PROVE  IInv'
<1>1. Slabs' = Slabs /\ Large' = Large
  BY DEF sobvars, Slabs, Large
<1>2. \A a : Held(a)' <=> Held(a)
  BY DEF Held
<1>3. QED
  BY <1>1, <1>2 DEF sobvars, IInv, TInv, RunsInv, ClassInv, SlabRuns, BlockRuns, AllOwned,
                    LostInv, SmallInv, FreeInv

LEMMA NextInv ==
  ASSUME IInv, [Next]_vars
  PROVE  IInv'
<1>1. CASE UNCHANGED vars
  BY <1>1, StutterInv DEF vars
<1>2. ASSUME NEW n \in Size, Krlnew(n)
      PROVE  IInv'
  BY <1>2, ObjszNewInv, PagesNewInv DEF Krlnew
<1>3. ASSUME NEW n \in Size, NoMemory(n)
      PROVE  IInv'
  BY <1>3, StutterInv DEF NoMemory
<1>4. ASSUME NEW b \in live, Krldelete(b)
      PROVE  IInv'
  BY <1>4, ObjszDeleteInv, PagesDeleteInv DEF Krldelete
<1>5. ASSUME NEW b \in live, Refused(b)
      PROVE  IInv'
  BY <1>5, RefusedInv
<1>6. QED
  BY <1>1, <1>2, <1>3, <1>4, <1>5 DEF Next

LEMMA InitInv == Init => IInv
<1> SUFFICES ASSUME Init PROVE IInv
  OBVIOUS
<1>1. /\ runs = {} /\ msobnr = 0 /\ live = {} /\ lost = {}
      /\ \A k \in Class : emplst[k] = {} /\ cahe[k] = NULL
      /\ \A p \in Page : kmsob[p] = NULL
      /\ emplst \in [Class -> SUBSET Page] /\ cahe \in [Class -> Page \cup {NULL}]
      /\ kmsob \in [Page -> Kmsob \cup {NULL}] /\ msalsthead \in [Lists -> SUBSET Page]
  BY DEF Init, SobInit
<1>2. Slabs = {} /\ Large = {}
  BY <1>1 DEF Slabs, Large
<1>3. TInv
  BY <1>1, <1>2, FS_EmptySet DEF TInv
<1>4. RunsInv /\ ClassInv /\ SlabRuns /\ BlockRuns /\ AllOwned
  BY <1>1, <1>2 DEF RunsInv, Separate, ClassInv, SlabRuns, BlockRuns, AllOwned
<1>5. LostInv /\ SmallInv /\ FreeInv
  BY <1>1, <1>2 DEF LostInv, SmallInv, FreeInv
<1>6. QED
  BY <1>3, <1>4, <1>5 DEF IInv

(* The invariant of the memory pool: every run of pages has one owner, a   *)
(* slab or a block, a slab of a class has objects of that class, each free *)
(* or held by one block, and nothing is lost but blocks whose number of    *)
(* pages is no power of two.                                               *)
THEOREM PoolInvariant == Spec => []IInv
<1>1. Init => IInv
  BY InitInv
<1>2. IInv /\ [Next]_vars => IInv'
  BY NextInv
<1>3. QED
  BY <1>1, <1>2, PTL DEF Spec

-----------------------------------------------------------------------------
(* What follows from it.                                                   *)

LEMMA InvConsistent ==
  ASSUME IInv
  PROVE  SlabsConsistent
<1>1. \A p \in Page : kmsob[p] # NULL <=> p \in Slabs
  BY DEF IInv, ClassInv
<1>2. ASSUME NEW p \in Slabs
      PROVE  /\ kmsob[p].so_frelst \cap InUse(kmsob[p]) = {}
             /\ kmsob[p].so_frelst \cup InUse(kmsob[p]) = AllOf(kmsob[p])
             /\ kmsob[p].so_fobjnr = Cardinality(kmsob[p].so_frelst)
             /\ kmsob[p].so_mobjnr = Cardinality(AllOf(kmsob[p]))
             /\ kmsob[p].so_fobjnr < kmsob[p].so_mobjnr
  <2>1. /\ Counted(kmsob[p]) /\ kmsob[p].so_fobjnr < kmsob[p].so_mobjnr
        /\ \A a \in AllOf(kmsob[p]) : a \in kmsob[p].so_frelst <=> ~Held(a)
    BY DEF IInv, FreeInv
  <2>2. \A a : a \in InUse(kmsob[p]) <=> a \in AllOf(kmsob[p]) /\ Held(a)
    BY DEF InUse, Held, Small
  <2>3. QED
    BY <2>1, <2>2 DEF Counted
<1>3. ASSUME NEW k \in Class
      PROVE  Cardinality(emplst[k]) <= 1
  <2>1. CASE emplst[k] = {}
    BY <2>1, FS_EmptySet
  <2>2. CASE emplst[k] # {}
    <3>1. PICK p \in emplst[k] : TRUE
      BY <2>2
    <3>2. emplst[k] = {p}
      BY <3>1, SlabOf
    <3>3. Cardinality(emplst[k]) = 1
      BY <3>2, FS_Singleton
    <3>4. QED
      BY <3>3
  <2>3. QED
    BY <2>1, <2>2
<1>4. /\ \A k \in Class : cahe[k] # NULL => cahe[k] \in emplst[k]
      /\ msobnr = Cardinality(Slabs)
  BY DEF IInv, ClassInv, TInv
<1>5. QED
  BY <1>1, <1>2, <1>3, <1>4 DEF SlabsConsistent

LEMMA InvNothingKept ==
  ASSUME IInv
  PROVE  NothingKept
<1> DEFINE slabs  == UNION {kmsob[p].so_mext \cup {kmsob[p].mc_kmobin} : p \in Slabs}
           blocks == {[msa |-> b.adr \div PAGESIZE, relpnr |-> Relpnr(Pages(b.sz))] :
                        b \in {x \in live \cup lost : x.sz > OBJSORPAGE}}
<1>1. \A b \in live \cup lost : b.sz > OBJSORPAGE <=> ~Small(b)
  <2>1. \A b \in live \cup lost : b.sz \in Nat
    BY KrlPoolAssumption DEF IInv, TInv
  <2>2. QED
    BY <2>1, KrlPoolAssumption DEF Small
<1>2. \A r : r \in slabs <=> \E p \in Slabs : r \in Owns(kmsob[p])
  BY DEF Owns
<1>3. \A r : r \in blocks <=> \E b \in Large : r = BlockRun(b)
  BY <1>1 DEF Large, BlockRun
<1>4. \A r : r \in slabs \/ r \in blocks => r \in runs
  BY <1>2, <1>3 DEF IInv, SlabRuns, Sound, BlockRuns
<1>5. \A r \in runs : r \in slabs \/ r \in blocks
  BY <1>2, <1>3 DEF IInv, AllOwned
<1>6. \A b \in lost : b.sz > OBJSORPAGE /\ Relpnr(Pages(b.sz)) # Pages(b.sz)
  BY <1>1 DEF IInv, LostInv
<1> HIDE DEF slabs, blocks
<1>7. runs = slabs \cup blocks
  BY <1>4, <1>5
<1>8. QED
  BY <1>6, <1>7, Zenon DEF NothingKept, slabs, blocks

(* In every slab each object is on the free list or in one caller's hands, *)
(* and the counts by which kmsob_extn_pages, scan_freekmsob_isok and       *)
(* _destroy_kmsob decide are those of the lists, for any sizes of classes, *)
(* pages and descriptors.                                                  *)
THEOREM SlabsAlwaysConsistent == Spec => []SlabsConsistent
<1>1. IInv => SlabsConsistent
  BY InvConsistent
<1>2. QED
  BY <1>1, PoolInvariant, PTL

(* No page leaks: what the page allocator gave out belongs to a slab that  *)
(* exists or to a block in use, but for blocks of pages whose number is no *)
(* power of two, which krldelete does not find or cannot merge.            *)
THEOREM NothingEverKept == Spec => []NothingKept
<1>1. IInv => NothingKept
  BY InvNothingKept
<1>2. QED
  BY <1>1, PoolInvariant, PTL

-----------------------------------------------------------------------------
(* The memory pool is a heap.                                              *)

LEMMA LastAddress ==
  ASSUME NEW r \in Run, NEW n \in Nat, NEW m \in Nat, n <= m * PAGESIZE, m <= r.relpnr
  PROVE  Vstat(r) + n - 1 <= Vend(r)
<1>1. PAGESIZE \in Nat /\ r.msa \in Nat /\ r.relpnr \in Nat
  BY KmSobAssumption, RunIs
<1>2. m * PAGESIZE \in Nat /\ m * PAGESIZE <= r.relpnr * PAGESIZE
  BY <1>1, Multiple
<1>3. (r.msa + r.relpnr) * PAGESIZE = r.msa * PAGESIZE + r.relpnr * PAGESIZE
  BY <1>1
<1>4. r.msa * PAGESIZE \in Nat /\ r.relpnr * PAGESIZE \in Nat
  BY <1>1
<1>5. QED
  BY <1>2, <1>3, <1>4 DEF Vstat, Vend

LEMMA LargeSpan ==
  ASSUME IInv, NEW b \in Large
  PROVE  /\ b.adr \in Nat /\ b.sz \in Nat \ {0} /\ b.adr = Vstat(BlockRun(b))
         /\ b.adr + b.sz - 1 <= Vend(BlockRun(b))
<1>1. /\ b.adr \in Nat /\ b.sz \in Nat \ {0} /\ Pages(b.sz) \in Nat \ {0}
      /\ BlockRun(b) \in Run /\ BlockRun(b).relpnr \in Nat
  BY BlockIs
<1>2. b.adr = Vstat(BlockRun(b)) /\ Pages(b.sz) <= BlockRun(b).relpnr
  BY <1>1 DEF IInv, BlockRuns
<1>3. b.sz <= Pages(b.sz) * PAGESIZE
  <2>1. PAGESIZE \in Nat /\ Pages(b.sz) * PAGESIZE >= b.sz
    BY <1>1, PagesIs, KmSobAssumption
  <2>2. QED
    BY <1>1, <2>1
<1>4. QED
  BY <1>1, <1>2, <1>3, LastAddress

LEMMA SmallSpan ==
  ASSUME IInv, NEW b \in live, Small(b)
  PROVE  /\ b.adr \in Nat /\ b.sz \in Nat \ {0}
         /\ \E q \in Slabs : /\ Sound(kmsob[q], runs) /\ b.adr \in AllOf(kmsob[q])
                             /\ b.sz <= kmsob[q].so_objsz
<1>1. b.adr \in Nat /\ b.sz \in Nat \ {0}
  BY KrlPoolAssumption DEF IInv, TInv
<1>2. AlignUp(b.sz, ALIGNMENT) \in Nat /\ AlignUp(b.sz, ALIGNMENT) >= b.sz
  BY <1>1, AlignUpIs, KrlPoolAssumption
<1>3. PICK k \in ClassesFor(AlignUp(b.sz, ALIGNMENT)) : \E p \in emplst[k] :
        b.adr \in AllOf(kmsob[p])
  BY DEF IInv, SmallInv
<1>4. PICK p \in emplst[k] : b.adr \in AllOf(kmsob[p])
  BY <1>3
<1>5. k \in Class /\ ol_sz[k] >= AlignUp(b.sz, ALIGNMENT) /\ ol_sz[k] \in Nat
  BY KmSobAssumption DEF ClassesFor
<1>6. p \in Slabs /\ Sound(kmsob[p], runs) /\ kmsob[p].so_objsz = ol_sz[k]
  BY <1>5, SlabOf
<1>7. b.sz <= kmsob[p].so_objsz
  BY <1>1, <1>2, <1>5, <1>6
<1>8. QED
  BY <1>1, <1>4, <1>6, <1>7

(* Blocks do not overlap, those that were lost included.                   *)
LEMMA BlocksApart ==
  ASSUME IInv, NEW b \in live \cup lost, NEW c \in live \cup lost, b # c
  PROVE  b.adr + b.sz - 1 < c.adr \/ c.adr + c.sz - 1 < b.adr
<1>1. /\ \A x \in live \cup lost : x \in Large \/ (x \in live /\ Small(x))
      /\ Separate(runs)
  BY DEF Large, IInv, LostInv, RunsInv
<1>2. ASSUME NEW x \in live, Small(x), NEW y \in Large
      PROVE  x.adr + x.sz - 1 < y.adr \/ y.adr + y.sz - 1 < x.adr
  <2>1. PICK q \in Slabs : /\ Sound(kmsob[q], runs) /\ x.adr \in AllOf(kmsob[q])
                           /\ x.sz <= kmsob[q].so_objsz
    BY <1>2, SmallSpan
  <2>2. BlockRun(y) \in runs /\ BlockRun(y) \notin Owns(kmsob[q]) /\ BlockRun(y) \in Run
    BY BlockIs DEF IInv, BlockRuns
  <2>3. x.adr + kmsob[q].so_objsz <= Vstat(BlockRun(y)) \/ Vend(BlockRun(y)) < x.adr
    BY <1>1, <2>1, <2>2, BlockApart
  <2>4. /\ x.adr \in Nat /\ x.sz \in Nat \ {0} /\ y.adr \in Nat /\ y.sz \in Nat \ {0}
        /\ y.adr = Vstat(BlockRun(y)) /\ y.adr + y.sz - 1 <= Vend(BlockRun(y))
        /\ Vend(BlockRun(y)) \in Nat /\ kmsob[q].so_objsz \in Nat
    BY <1>2, <2>1, <2>2, SmallSpan, LargeSpan, RunIs, SlabFields DEF Sound
  <2>5. QED
    BY <2>1, <2>3, <2>4
<1>3. CASE b \in Large /\ c \in Large
  <2>1. /\ BlockRun(b) \in runs /\ BlockRun(c) \in runs /\ BlockRun(b) # BlockRun(c)
        /\ BlockRun(b) \in Run /\ BlockRun(c) \in Run
    BY <1>3, BlockIs DEF IInv, BlockRuns
  <2>2. \/ Vend(BlockRun(b)) < Vstat(BlockRun(c))
        \/ Vend(BlockRun(c)) < Vstat(BlockRun(b))
    BY <1>1, <2>1, Apart DEF Separate
  <2>3. /\ b.adr \in Nat /\ b.sz \in Nat \ {0} /\ c.adr \in Nat /\ c.sz \in Nat \ {0}
        /\ b.adr = Vstat(BlockRun(b)) /\ b.adr + b.sz - 1 <= Vend(BlockRun(b))
        /\ c.adr = Vstat(BlockRun(c)) /\ c.adr + c.sz - 1 <= Vend(BlockRun(c))
        /\ Vend(BlockRun(b)) \in Nat /\ Vend(BlockRun(c)) \in Nat
    BY <1>3, <2>1, LargeSpan, RunIs
  <2>4. QED
    BY <2>2, <2>3
<1>4. CASE b \in live /\ Small(b) /\ c \in live /\ Small(c)
  <2>1. PICK q \in Slabs : /\ Sound(kmsob[q], runs) /\ b.adr \in AllOf(kmsob[q])
                           /\ b.sz <= kmsob[q].so_objsz
    BY <1>4, SmallSpan
  <2>2. PICK o \in Slabs : /\ Sound(kmsob[o], runs) /\ c.adr \in AllOf(kmsob[o])
                           /\ c.sz <= kmsob[o].so_objsz
    BY <1>4, SmallSpan
  <2>3. b.adr # c.adr
    BY <1>4 DEF IInv, SmallInv
  <2>4. \/ b.adr + kmsob[q].so_objsz <= c.adr
        \/ c.adr + kmsob[o].so_objsz <= b.adr
    <3>1. CASE q = o
      BY <1>1, <2>1, <2>2, <2>3, <3>1, SlabApart
    <3>2. CASE q # o
      <4>1. Owns(kmsob[q]) \cap Owns(kmsob[o]) = {}
        BY <3>2 DEF IInv, SlabRuns
      <4>2. QED
        BY <1>1, <2>1, <2>2, <4>1, SlabsApart
    <3>3. QED
      BY <3>1, <3>2
  <2>5. /\ b.adr \in Nat /\ b.sz \in Nat \ {0} /\ c.adr \in Nat /\ c.sz \in Nat \ {0}
        /\ kmsob[q].so_objsz \in Nat /\ kmsob[o].so_objsz \in Nat
    BY <1>4, <2>1, <2>2, SmallSpan, SlabFields DEF Sound
  <2>6. QED
    BY <2>1, <2>2, <2>4, <2>5
<1>5. QED
  BY <1>1, <1>2, <1>3, <1>4

LEMMA BlockInMemory ==
  ASSUME IInv, NEW b \in live \cup lost
  PROVE  /\ b.adr \in Nat /\ b.sz \in Nat \ {0}
         /\ b.adr + b.sz - 1 <= PageNr * PAGESIZE - 1
<1>0. PageNr * PAGESIZE \in Nat
  BY KmSobAssumption
<1>1. CASE b \in Large
  <2>1. BlockRun(b) \in runs /\ BlockRun(b) \in Run
    BY <1>1, BlockIs
  <2>2. Vend(BlockRun(b)) <= PageNr * PAGESIZE - 1 /\ Vend(BlockRun(b)) \in Nat
    BY <2>1, InMemory, RunIs DEF IInv, RunsInv, Separate
  <2>3. /\ b.adr \in Nat /\ b.sz \in Nat \ {0}
        /\ b.adr + b.sz - 1 <= Vend(BlockRun(b))
    BY <1>1, LargeSpan
  <2>4. QED
    BY <1>0, <2>2, <2>3
<1>2. CASE b \notin Large
  <2>1. b \in live /\ Small(b)
    BY <1>2 DEF Large, IInv, LostInv
  <2>2. PICK q \in Slabs : /\ Sound(kmsob[q], runs) /\ b.adr \in AllOf(kmsob[q])
                           /\ b.sz <= kmsob[q].so_objsz
    BY <2>1, SmallSpan
  <2>3. PICK r \in Owns(kmsob[q]) : b.adr + kmsob[q].so_objsz <= Vend(r)
    BY <2>2, HomeOf
  <2>4. r \in Run /\ PagesOf(r) \subseteq Page
    BY <2>2 DEF Sound, IInv, RunsInv, Separate
  <2>5. /\ Vend(r) <= PageNr * PAGESIZE - 1 /\ Vend(r) \in Nat
        /\ b.adr \in Nat /\ b.sz \in Nat \ {0} /\ kmsob[q].so_objsz \in Nat
    BY <2>1, <2>2, <2>4, InMemory, RunIs, SmallSpan, SlabFields DEF Sound
  <2>6. QED
    BY <1>0, <2>2, <2>3, <2>5
<1>3. QED
  BY <1>1, <1>2

(* All blocks lie in the memory, apart from each other.                    *)
Packed ==
  /\ \A b \in live \cup lost : /\ b.adr \in Nat /\ b.sz \in Nat \ {0}
                              /\ b.adr + b.sz - 1 <= PageNr * PAGESIZE - 1
  /\ \A b, c \in live \cup lost : b # c =>
       b.adr + b.sz - 1 < c.adr \/ c.adr + c.sz - 1 < b.adr

LEMMA InvPacked == IInv => Packed
BY BlockInMemory, BlocksApart DEF Packed

(* A new block is apart from all the others.                               *)
LEMMA NewIsHeapNew ==
  ASSUME IInv, IInv', NEW n \in Size, NewBlock(n), lost' = lost, ok' = TRUE
  PROVE  H!New
<1>1. PICK a \in Nat : /\ Block(a, n) \notin live \cup lost
                       /\ live' = live \cup {Block(a, n)}
  BY DEF NewBlock
<1>2. PICK b : b = [adr |-> a, sz |-> n]
  OBVIOUS
<1>3. /\ b.adr = a /\ b.sz = n /\ b \notin live \cup lost
      /\ (live \cup lost)' = (live \cup lost) \cup {b}
  BY <1>1, <1>2 DEF Block
<1>4. /\ a \in Nat /\ n \in Nat \ {0} /\ a + n - 1 <= PageNr * PAGESIZE - 1
  <2>1. Packed'
    BY InvPacked, PTL
  <2>2. QED
    BY <1>3, <2>1 DEF Packed
<1>5. PageNr * PAGESIZE \in Nat
  BY KmSobAssumption
<1>6. a \in 0 .. PageNr * PAGESIZE - 1 /\ H!Span(b) \subseteq 0 .. PageNr * PAGESIZE - 1
  BY <1>3, <1>4, <1>5 DEF H!Span
<1>7. ASSUME NEW o \in live \cup lost
      PROVE  H!Span(o) \cap H!Span(b) = {}
  <2>1. Packed'
    BY InvPacked, PTL
  <2>2. o.adr \in Nat /\ o.sz \in Nat \ {0}
    BY BlockInMemory
  <2>3. o.adr + o.sz - 1 < b.adr \/ b.adr + b.sz - 1 < o.adr
    BY <1>3, <2>1 DEF Packed
  <2>4. QED
    BY <1>3, <1>4, <2>2, <2>3 DEF H!Span
<1>8. QED
  BY <1>2, <1>3, <1>6, <1>7 DEF H!New

LEMMA StepIsHeapStep ==
  ASSUME IInv, IInv', [Next]_vars
  PROVE  [H!Next]_<<live \cup lost, ok>>
<1>1. CASE UNCHANGED vars
  BY <1>1 DEF vars
<1>2. ASSUME NEW n \in Size, Krlnew(n)
      PROVE  H!Next
  <2>1. NewBlock(n) /\ lost' = lost /\ ok' = TRUE
    BY <1>2, ObjszNewInv, PagesNewInv DEF Krlnew
  <2>2. QED
    BY <2>1, NewIsHeapNew DEF H!Next
<1>3. ASSUME NEW n \in Size, NoMemory(n)
      PROVE  H!Next
  BY <1>3 DEF NoMemory, H!Next, H!Fail
<1>4. ASSUME NEW b \in live, Krldelete(b)
      PROVE  H!Next
  <2>1. b \notin lost /\ live' = live \ {b} /\ lost' = lost /\ ok' = TRUE
    BY <1>4 DEF Krldelete, IInv, LostInv
  <2>2. (live \cup lost)' = (live \cup lost) \ {b}
    BY <2>1
  <2>3. QED
    BY <2>1, <2>2 DEF H!Next, H!Delete
<1>5. ASSUME NEW b \in live, Refused(b)
      PROVE  H!Next
  <2>1. (live \cup lost)' = live \cup lost /\ ok' = FALSE
    BY <1>5 DEF Refused
  <2>2. QED
    BY <2>1 DEF H!Next, H!Fail
<1>6. QED
  BY <1>1, <1>2, <1>3, <1>4, <1>5 DEF Next

(* krlnew and krldelete implement a heap: a block that is given out lies   *)
(* in the memory and meets no other block, be it an object of a slab, a    *)
(* run of pages, or a block that krldelete refused; one that is taken back *)
(* is the one that was given.                                              *)
THEOREM PoolIsHeap == Spec => ImplementsHeap
<1>1. Init => H!Init
  BY DEF Init, H!Init
<1>2. IInv /\ IInv' /\ [Next]_vars => [H!Next]_<<live \cup lost, ok>>
  BY StepIsHeapStep
<1>3. QED
  BY <1>1, <1>2, PoolInvariant, PTL DEF Spec, ImplementsHeap, H!Spec
=============================================================================
