--------------------------- MODULE MemDivMerProofs ---------------------------
(***************************************************************************)
(* Safety of the page allocator for any memory map, any number of block    *)
(* sizes and any number of callers.                                        *)
(***************************************************************************)
EXTENDS MemDivMer, FiniteSetTheorems, WellFoundedInduction, TLAPS

-----------------------------------------------------------------------------
(* The inductive invariant.                                                *)

TInv ==
  /\ af_frelst \in [Area -> [Order -> SUBSET Page]]
  /\ af_fobjnr \in [Area -> [Order -> Nat]]
  /\ mf_olkty \in [Page -> {"INIT", "ODER", "BAFH"}]
  /\ md_odlink \in [Page -> Int]
  /\ mf_uindx \in [Page -> Nat]
  /\ ma_lock \in [Area -> Caller \cup {Nobody}]
  /\ call \in [Caller -> Call]
  /\ held \subseteq Page \X Order

(* A piece is <<kind, where, first page, order>>. *)
Last(x) == End(x[3], x[4])
Within(x) == /\ x[3] \in Page /\ x[4] \in Order
             /\ InArea(mf_marty[x[3]], x[3], x[4])
             /\ Continuous(x[3], x[4])

(* Pieces lie in one area, without holes, apart from each other, and cover *)
(* the memory.                                                             *)
Tiles(P) ==
  /\ \A x \in P : Within(x)
  /\ \A x, y \in P : x # y => Apart(x[3], x[4], y[3], y[4])
  /\ \A p \in Page : p \in Managed <=> \E x \in P : x[3] <= p /\ p <= Last(x)

(* A block is free in its own area; the process area has single pages. *)
Tagged(x) == /\ x[1] = "free" => x[2] = mf_marty[x[3]]
             /\ mf_marty[x[3]] = PROC => x[4] = 0

IsUsed(x) == x[1] = "held" \/ (x[1] = "hand" /\ call[x[2]].pc = "check")
IsCut(x)  == x[1] = "hand" /\ call[x[2]].pc = "div"

(* The descriptors of the first and last page say what the piece is; those *)
(* in between say nothing, but are not in use.                             *)
Linked(s, e)  == mf_olkty[s] = "ODER" /\ md_odlink[s] = e
OnBafh(e, i)  == mf_olkty[e] = "BAFH" /\ md_odlink[e] = i
Described(x) ==
  LET s == x[3]
      e == Last(x)
  IN  /\ IsUsed(x) => Linked(s, e) /\ mf_uindx[s] = 1 /\ mf_uindx[e] = 1
      /\ ~IsUsed(x) =>
           /\ Unused(s, e)
           /\ s # e => Linked(s, e)
           /\ ~IsCut(x) => OnBafh(e, x[4])
           /\ IsCut(x) /\ s = e => mf_olkty[s] = "BAFH" \/ Linked(s, s)
      /\ \A p \in Page : s < p /\ p < e => mf_uindx[p] = 0

(* A caller that cuts or joins has the lock; the lists between the block   *)
(* it cuts and the size it wants are empty.                                *)
CallOk(c) ==
  /\ call[c].pc = "div" =>
       /\ ma_lock[AreaOf(c)] = c
       /\ call[c].ask >= 1
       /\ af_oderpnr[call[c].odr] >= call[c].ask
       /\ \A j \in Order : /\ j < call[c].odr /\ af_oderpnr[j] >= call[c].ask
                           => af_frelst[AreaOf(c)][j] = {}
  /\ call[c].pc = "check" => call[c].ask = af_oderpnr[call[c].odr]
  /\ call[c].pc = "merge" => ma_lock[AreaOf(c)] = c

Counted == \A a \in Area, i \in Order :
             af_fobjnr[a][i] = Cardinality(af_frelst[a][i])

IInv == /\ TInv
        /\ Tiles(Pieces)
        /\ \A x \in Pieces : Tagged(x) /\ Described(x)
        /\ \A c \in Caller : CallOk(c)
        /\ Counted
        /\ NoFreeNeighbours
        /\ ~died

-----------------------------------------------------------------------------
(* Sizes.                                                                  *)

(* A set of numbers that is not empty has a least one.                     *)
LEMMA MinNat ==
  ASSUME NEW T, T \subseteq Nat, T # {}
  PROVE  \E x \in T : \A y \in T : x <= y
<1>1. PICK x \in T : \A y \in T : ~(<<y, x>> \in OpToRel(<, Nat))
  BY WFMin, NatLessThanWellFounded
<1>2. \A y \in T : ~(y < x)
  BY <1>1 DEF OpToRel
<1>3. QED
  BY <1>2

(* The sizes are positive and double from one order to the next.           *)
LEMMA OderFacts ==
  /\ \A i \in Order : i \in Int /\ 0 <= i /\ i < LMAX
                      /\ af_oderpnr[i] \in Int /\ af_oderpnr[i] >= 1
  /\ 0 \in Order /\ af_oderpnr[0] = 1
  /\ \A i \in Order : i > 0 => i - 1 \in Order
                               /\ af_oderpnr[i] = af_oderpnr[i - 1] + af_oderpnr[i - 1]
  /\ \A i \in Order : i < LMAX - 1 => i + 1 \in Order
                               /\ af_oderpnr[i + 1] = af_oderpnr[i] + af_oderpnr[i]
<1>1. \A i \in Order : i > 0 => i - 1 \in Order
                               /\ af_oderpnr[i] = af_oderpnr[i - 1] + af_oderpnr[i - 1]
  BY AreaAssumption, OderAssumption DEF Order
<1>2. ASSUME NEW i \in Order, i < LMAX - 1
      PROVE  i + 1 \in Order /\ af_oderpnr[i + 1] = af_oderpnr[i] + af_oderpnr[i]
  <2>1. i + 1 \in Order /\ i + 1 > 0 /\ (i + 1) - 1 = i
    BY <1>2, AreaAssumption DEF Order
  <2>2. QED
    BY <2>1, <1>1
<1>3. QED
  BY <1>1, <1>2, AreaAssumption, OderAssumption DEF Order

(* Larger orders are larger blocks. *)
LEMMA OderGrows ==
  ASSUME NEW i \in Order, NEW j \in Order, i < j
  PROVE  af_oderpnr[i] < af_oderpnr[j]
<1> DEFINE T == {k \in Order : i < k /\ ~(af_oderpnr[i] < af_oderpnr[k])}
<1>1. SUFFICES ASSUME T # {} PROVE FALSE
  OBVIOUS
<1>2. T \subseteq Nat
  BY DEF Order
<1>3. PICK m \in T : \A y \in T : m <= y
  BY <1>1, <1>2, MinNat
<1> HIDE DEF T
<1>4. m \in Order /\ i < m /\ ~(af_oderpnr[i] < af_oderpnr[m])
  BY <1>3 DEF T
<1>5. m - 1 \in Order /\ af_oderpnr[m] = af_oderpnr[m - 1] + af_oderpnr[m - 1]
      /\ af_oderpnr[m - 1] >= 1
  BY <1>4, OderFacts
<1>6. CASE m - 1 = i
  BY <1>4, <1>5, <1>6, OderFacts
<1>7. CASE i < m - 1
  <2>1. m - 1 \notin T
    BY <1>3, <1>4, OderFacts
  <2>2. af_oderpnr[i] < af_oderpnr[m - 1]
    BY <2>1, <1>5, <1>7 DEF T
  <2>3. QED
    BY <2>2, <1>4, <1>5, OderFacts
<1>8. QED
  BY <1>4, <1>6, <1>7, OderFacts

(* retn_divoder is the least size that is large enough. *)
LEMMA DivOderLeast ==
  ASSUME NEW n \in Int, NEW i \in Order, af_oderpnr[i] >= n
  PROVE  /\ DivOder(n) \in Order
         /\ af_oderpnr[DivOder(n)] >= n
         /\ \A j \in Order : af_oderpnr[j] >= n => DivOder(n) <= j
<1> DEFINE T == {k \in Order : af_oderpnr[k] >= n}
<1>1. T \subseteq Nat /\ T # {}
  BY DEF Order
<1>2. PICK m \in T : \A y \in T : m <= y
  BY <1>1, MinNat
<1>3. \E k \in Order : /\ af_oderpnr[k] >= n
                       /\ \A j \in Order : af_oderpnr[j] >= n => k <= j
  BY <1>2
<1>4. QED
  BY <1>3 DEF DivOder

(* The size of a block is rounded up to itself.                            *)
LEMMA DivOderExact ==
  ASSUME NEW i \in Order
  PROVE  DivOder(af_oderpnr[i]) = i
<1>1. /\ DivOder(af_oderpnr[i]) \in Order
      /\ af_oderpnr[DivOder(af_oderpnr[i])] >= af_oderpnr[i]
      /\ DivOder(af_oderpnr[i]) <= i
  BY DivOderLeast, OderFacts
<1>2. ~(DivOder(af_oderpnr[i]) < i)
  BY <1>1, OderGrows, OderFacts
<1>3. QED
  BY <1>1, <1>2, OderFacts

(* onmpgs_retn_bafhlst takes the smallest block that is large enough. *)
LEMMA DivListLeast ==
  ASSUME NEW a, NEW n, \E i \in Order : af_oderpnr[i] >= n /\ af_fobjnr[a][i] > 0
  PROVE  /\ DivList(a, n) \in Order
         /\ af_oderpnr[DivList(a, n)] >= n
         /\ \A j \in Order : af_oderpnr[j] >= n /\ af_fobjnr[a][j] > 0
                               => DivList(a, n) <= j
<1> DEFINE T == {k \in Order : af_oderpnr[k] >= n /\ af_fobjnr[a][k] > 0}
<1>0. PICK i \in Order : af_oderpnr[i] >= n /\ af_fobjnr[a][i] > 0
  OBVIOUS
<1>1. T \subseteq Nat /\ T # {}
  <2>1. i \in T
    BY <1>0
  <2>2. T \subseteq Order
    OBVIOUS
  <2>3. \A k \in Order : k \in Nat
    BY OderFacts
  <2>4. QED
    BY <2>1, <2>2, <2>3
<1>2. PICK m \in T : \A y \in T : m <= y
  BY <1>1, MinNat
<1>3. DivList(a, n) = CHOOSE k \in T : \A j \in T : k <= j
  BY DEF DivList
<1> HIDE DEF T
<1>4. DivList(a, n) \in T /\ \A j \in T : DivList(a, n) <= j
  BY <1>2, <1>3
<1>5. QED
  BY <1>4 DEF T

-----------------------------------------------------------------------------
(* Pieces.                                                                 *)

(* A block ends at or behind its first page, there if it is a single page. *)
LEMMA EndInt ==
  ASSUME NEW s \in Page, NEW i \in Order
  PROVE  /\ s \in Int /\ 0 <= s /\ s < PageNr
         /\ End(s, i) \in Int /\ s <= End(s, i)
         /\ (s = End(s, i) <=> i = 0)
         /\ End(s, i) = s + af_oderpnr[i] - 1
<1>1. /\ s \in Int /\ 0 <= s /\ s < PageNr
      /\ End(s, i) \in Int /\ s <= End(s, i)
      /\ End(s, i) = s + af_oderpnr[i] - 1
  BY OderFacts, AreaAssumption DEF Page, End
<1>2. i = 0 => af_oderpnr[i] = 1
  BY OderFacts
<1>3. i # 0 => af_oderpnr[i] > 1
  BY OderFacts, OderGrows
<1>4. QED
  BY <1>1, <1>2, <1>3, OderFacts

(* Pages are numbers; the holes of memory only make addresses grow faster. *)
LEMMA PageFacts ==
  /\ \A p \in Page : p \in Int /\ 0 <= p /\ p < PageNr
  /\ \A p \in Int : 0 <= p /\ p < PageNr => p \in Page
  /\ \A p \in Page : paf_padrs[p] \in Int
  /\ \A p, q \in Page : p <= q => paf_padrs[q] - paf_padrs[p] >= q - p
<1>1. /\ \A p \in Page : p \in Int /\ 0 <= p /\ p < PageNr
      /\ \A p \in Int : 0 <= p /\ p < PageNr => p \in Page
      /\ \A p \in Page : paf_padrs[p] \in Int
  BY AreaAssumption DEF Page
<1>2. ASSUME NEW p \in Page, NEW q \in Page, p <= q
      PROVE  paf_padrs[q] - paf_padrs[p] >= q - p
  <2>1. CASE p < q
    BY <2>1, AreaAssumption
  <2>2. CASE p = q
    <3>1. paf_padrs[q] - paf_padrs[p] = 0 /\ q - p = 0
      BY <2>2, <1>1
    <3>2. QED
      BY <3>1
  <2>3. QED
    BY <2>1, <2>2, <1>1, <1>2
<1>3. QED
  BY <1>1, <1>2

(* The two halves of a block. *)
LEMMA Halves ==
  ASSUME NEW a, NEW s \in Page, NEW i \in Order, i > 0,
         InArea(a, s, i), Continuous(s, i),
         NEW j \in Order, j = i - 1,
         NEW u, u = s + af_oderpnr[j]
  PROVE  /\ u \in Page /\ s < u /\ End(s, j) + 1 = u /\ End(u, j) = End(s, i)
         /\ s <= End(s, j) /\ u <= End(u, j)
         /\ InArea(a, s, j) /\ InArea(a, u, j)
         /\ Continuous(s, j) /\ Continuous(u, j)
<1> DEFINE n == af_oderpnr[j]
           m == End(s, j)
           e == End(s, i)
<1>1. n \in Int /\ n >= 1 /\ af_oderpnr[i] = n + n
  BY OderFacts
<1>2. /\ s \in Int /\ 0 <= s /\ m = s + n - 1 /\ e = s + n + n - 1 /\ u = s + n
      /\ End(u, j) = e
  BY <1>1, PageFacts DEF End
<1>3. e \in Page /\ e < PageNr
  BY PageFacts DEF InArea
<1>4. m \in Page /\ u \in Page
  <2>1. m \in Int /\ 0 <= m /\ m < PageNr /\ u \in Int /\ 0 <= u /\ u < PageNr
    <3> HIDE DEF n, m, e
    <3>1. QED
      BY <1>1, <1>2, <1>3, AreaAssumption
  <2>2. QED
    BY <2>1, PageFacts
<1>5. InArea(a, s, j) /\ InArea(a, u, j)
  <2>1. \A p \in s .. e : mf_marty[p] = a
    BY DEF InArea
  <2>2. \A p \in s .. m : p \in s .. e
    <3> HIDE DEF n, m, e
    <3>1. QED
      BY <1>1, <1>2
  <2>3. \A p \in u .. e : p \in s .. e
    <3> HIDE DEF n, m, e
    <3>1. QED
      BY <1>1, <1>2
  <2>4. QED
    BY <2>1, <2>2, <2>3, <1>2, <1>3, <1>4 DEF InArea
<1>6. Continuous(s, j) /\ Continuous(u, j)
  <2> DEFINE ps == paf_padrs[s]
             pm == paf_padrs[m]
             pu == paf_padrs[u]
             pe == paf_padrs[e]
  <2>1. ps \in Int /\ pm \in Int /\ pu \in Int /\ pe \in Int
    BY <1>3, <1>4, PageFacts
  <2>2. s <= m /\ m <= u /\ u <= e
    <3> HIDE DEF n, m, e
    <3>1. QED
      BY <1>1, <1>2
  <2>3. pm - ps >= m - s /\ pu - pm >= u - m /\ pe - pu >= e - u
    <3> HIDE DEF n, m, e
    <3>1. QED
      BY <2>2, <1>3, <1>4, PageFacts
  <2>4. pe - ps = (n + n) - 1
    BY <1>1 DEF Continuous
  <2>5. pm - ps = n - 1 /\ pe - pu = n - 1
    <3> HIDE DEF n, m, e, ps, pm, pu, pe
    <3>1. QED
      BY <1>1, <1>2, <2>1, <2>3, <2>4
  <2>6. QED
    BY <1>2, <2>5 DEF Continuous
<1>7. s < u /\ m + 1 = u /\ s <= m /\ u <= e
  <2> HIDE DEF n, m, e
  <2>1. QED
    BY <1>1, <1>2
<1>8. QED
  BY <1>2, <1>4, <1>5, <1>6, <1>7

(* Two blocks of one size, one behind the other. *)
LEMMA Joined ==
  ASSUME NEW a, NEW s \in Page, NEW i \in Order, i < LMAX - 1,
         InArea(a, s, i), Continuous(s, i),
         NEW t \in Page, InArea(a, t, i), Continuous(t, i), Follows(s, t, i),
         NEW j \in Order, j = i + 1
  PROVE  /\ s < t /\ End(s, i) < t /\ End(s, j) = End(t, i) /\ t <= End(t, i)
         /\ s <= End(s, i)
         /\ InArea(a, s, j) /\ Continuous(s, j)
<1> DEFINE n == af_oderpnr[i]
           m == End(s, i)
           e == End(t, i)
<1>1. n \in Int /\ n >= 1 /\ af_oderpnr[j] = n + n
  BY OderFacts
<1>2. /\ s \in Int /\ 0 <= s /\ m = s + n - 1 /\ t = s + n /\ e = s + n + n - 1
      /\ End(s, j) = e
  BY <1>1, PageFacts DEF End, Follows
<1>3. e \in Page /\ m \in Page
  BY DEF InArea
<1>4. InArea(a, s, j)
  <2>1. \A p \in s .. m : mf_marty[p] = a
    BY DEF InArea
  <2>2. \A p \in t .. e : mf_marty[p] = a
    BY DEF InArea
  <2>3. \A p \in s .. e : p \in s .. m \/ p \in t .. e
    <3> HIDE DEF n, m, e
    <3>1. QED
      BY <1>1, <1>2
  <2>4. \A p \in s .. e : mf_marty[p] = a
    BY <2>1, <2>2, <2>3
  <2>5. QED
    BY <2>4, <1>2, <1>3 DEF InArea
<1>5. Continuous(s, j)
  <2> DEFINE ps == paf_padrs[s]
             pm == paf_padrs[m]
             pt == paf_padrs[t]
             pe == paf_padrs[e]
  <2>1. ps \in Int /\ pm \in Int /\ pt \in Int /\ pe \in Int
    BY <1>3, PageFacts
  <2>2. pm - ps = n - 1 /\ pe - pt = n - 1 /\ pm + 1 = pt
    BY DEF Continuous, Follows
  <2>3. pe - ps = (n + n) - 1
    <3> HIDE DEF n, m, e, ps, pm, pt, pe
    <3>1. QED
      BY <1>1, <2>1, <2>2
  <2>4. QED
    BY <1>1, <1>2, <2>3 DEF Continuous
<1>6. s < t /\ m < t /\ t <= e /\ s <= m
  <2> HIDE DEF n, m, e
  <2>1. QED
    BY <1>1, <1>2
<1>7. QED
  BY <1>2, <1>4, <1>5, <1>6

(* A piece that is renamed still tiles. *)
LEMMA TilesMove ==
  ASSUME NEW P, Tiles(P), NEW x \in P, NEW y, y[3] = x[3], y[4] = x[4]
  PROVE  Tiles((P \ {x}) \cup {y})
BY DEF Tiles, Within, Last, Apart

(* A block cut in two halves. *)
LEMMA TilesSplit ==
  ASSUME NEW P, Tiles(P), NEW x \in P, NEW y, NEW z, x[4] > 0,
         y[3] = x[3], y[4] = x[4] - 1,
         z[3] = x[3] + af_oderpnr[x[4] - 1], z[4] = x[4] - 1
  PROVE  Tiles((P \ {x}) \cup {y, z})
<1> DEFINE Q == (P \ {x}) \cup {y, z}
<1>1. /\ x[3] \in Page /\ x[4] \in Order /\ x[4] - 1 \in Order
      /\ InArea(mf_marty[x[3]], x[3], x[4]) /\ Continuous(x[3], x[4])
  BY OderFacts DEF Tiles, Within
<1>2. /\ z[3] \in Page /\ x[3] < z[3] /\ Last(y) + 1 = z[3] /\ Last(z) = Last(x)
      /\ y[3] <= Last(y) /\ z[3] <= Last(z)
      /\ InArea(mf_marty[x[3]], y[3], y[4]) /\ InArea(mf_marty[x[3]], z[3], z[4])
      /\ Continuous(y[3], y[4]) /\ Continuous(z[3], z[4])
  BY <1>1, Halves DEF Last
<1>3. /\ x[3] \in Int /\ z[3] \in Int /\ Last(y) \in Int /\ Last(x) \in Int
      /\ x[3] <= Last(x)
  BY <1>1, <1>2, EndInt DEF Last
<1>4. Within(y) /\ Within(z)
  <2>1. mf_marty[z[3]] = mf_marty[x[3]]
    BY <1>2, <1>3 DEF InArea, Last
  <2>2. QED
    BY <1>1, <1>2, <2>1 DEF Within
<1>5. \A p \in Page : x[3] <= p /\ p <= Last(x)
        <=> (y[3] <= p /\ p <= Last(y)) \/ (z[3] <= p /\ p <= Last(z))
  <2>1. \A p \in Int : x[3] <= p /\ p <= Last(x)
          <=> (x[3] <= p /\ p <= Last(y)) \/ (z[3] <= p /\ p <= Last(x))
    BY <1>2, <1>3
  <2>2. QED
    BY <2>1, <1>2, PageFacts
<1>6. ASSUME NEW v \in P, v # x
      PROVE  /\ Apart(v[3], v[4], y[3], y[4]) /\ Apart(v[3], v[4], z[3], z[4])
             /\ Apart(y[3], y[4], v[3], v[4]) /\ Apart(z[3], z[4], v[3], v[4])
  <2>1. /\ Last(v) < x[3] \/ Last(x) < v[3]
        /\ v[3] \in Int /\ Last(v) \in Int
    BY <1>6, EndInt DEF Tiles, Within, Apart, Last
  <2>2. /\ Last(v) < x[3] \/ Last(y) < v[3]
        /\ Last(v) < z[3] \/ Last(z) < v[3]
    BY <2>1, <1>2, <1>3
  <2>3. QED
    BY <2>2 DEF Apart, Last
<1>7. Apart(y[3], y[4], z[3], z[4]) /\ Apart(z[3], z[4], y[3], y[4])
  <2>1. Last(y) < z[3]
    BY <1>2, <1>3
  <2>2. QED
    BY <2>1 DEF Apart, Last
<1>8. \A v \in Q : Within(v)
  BY <1>4 DEF Tiles
<1>9. ASSUME NEW v \in Q, NEW w \in Q, v # w
      PROVE  Apart(v[3], v[4], w[3], w[4])
  <2>1. CASE v \in P \ {x} /\ w \in P \ {x}
    BY <1>9, <2>1 DEF Tiles
  <2>2. CASE v \in {y, z} /\ w \in P \ {x}
    BY <2>2, <1>6
  <2>3. CASE v \in P \ {x} /\ w \in {y, z}
    BY <2>3, <1>6
  <2>4. CASE v \in {y, z} /\ w \in {y, z}
    BY <2>4, <1>9, <1>7
  <2>5. QED
    BY <1>9, <2>1, <2>2, <2>3, <2>4
<1>10. \A p \in Page : p \in Managed <=> \E v \in Q : v[3] <= p /\ p <= Last(v)
  BY <1>5 DEF Tiles
<1> HIDE DEF Q
<1>11. Tiles(Q)
  BY <1>8, <1>9, <1>10 DEF Tiles
<1>12. QED
  BY <1>11 DEF Q

(* Two neighbours of one size joined. *)
LEMMA TilesJoin ==
  ASSUME NEW P, Tiles(P), NEW x \in P, NEW y \in P, NEW z,
         x[4] < LMAX - 1, y[4] = x[4],
         mf_marty[x[3]] = mf_marty[y[3]],
         Follows(x[3], y[3], x[4]),
         z[3] = x[3], z[4] = x[4] + 1
  PROVE  Tiles((P \ {x, y}) \cup {z})
<1> DEFINE Q == (P \ {x, y}) \cup {z}
<1>1. /\ x[3] \in Page /\ x[4] \in Order /\ y[3] \in Page /\ x[4] + 1 \in Order
      /\ InArea(mf_marty[x[3]], x[3], x[4]) /\ Continuous(x[3], x[4])
      /\ InArea(mf_marty[x[3]], y[3], x[4]) /\ Continuous(y[3], x[4])
  BY OderFacts DEF Tiles, Within
<1>2. /\ x[3] < y[3] /\ Last(x) < y[3] /\ Last(z) = Last(y)
      /\ y[3] <= Last(y) /\ x[3] <= Last(x)
      /\ InArea(mf_marty[x[3]], z[3], z[4]) /\ Continuous(z[3], z[4])
  BY <1>1, Joined DEF Last
<1>3. /\ Last(x) + 1 = y[3]
      /\ x[3] \in Int /\ y[3] \in Int /\ Last(x) \in Int /\ Last(y) \in Int
  BY <1>1, EndInt DEF Last, Follows
<1>4. Within(z)
  BY <1>1, <1>2 DEF Within
<1>5. \A p \in Page : z[3] <= p /\ p <= Last(z)
        <=> (x[3] <= p /\ p <= Last(x)) \/ (y[3] <= p /\ p <= Last(y))
  <2>1. \A p \in Int : x[3] <= p /\ p <= Last(y)
          <=> (x[3] <= p /\ p <= Last(x)) \/ (y[3] <= p /\ p <= Last(y))
    BY <1>2, <1>3
  <2>2. QED
    BY <2>1, <1>2, PageFacts
<1>6. ASSUME NEW v \in P, v # x, v # y
      PROVE  Apart(v[3], v[4], z[3], z[4]) /\ Apart(z[3], z[4], v[3], v[4])
  <2>1. /\ Last(v) < x[3] \/ Last(x) < v[3]
        /\ Last(v) < y[3] \/ Last(y) < v[3]
        /\ v[3] \in Int /\ Last(v) \in Int /\ v[3] <= Last(v)
    BY <1>6, EndInt DEF Tiles, Within, Apart, Last
  <2>2. Last(v) < x[3] \/ Last(y) < v[3]
    BY <2>1, <1>2, <1>3
  <2>3. QED
    BY <2>2, <1>2 DEF Apart, Last
<1>7. \A v \in Q : Within(v)
  BY <1>4 DEF Tiles
<1>8. \A v, w \in Q : v # w => Apart(v[3], v[4], w[3], w[4])
  BY <1>6 DEF Tiles
<1>9. \A p \in Page : p \in Managed <=> \E v \in Q : v[3] <= p /\ p <= Last(v)
  BY <1>5 DEF Tiles
<1> HIDE DEF Q
<1>10. Tiles(Q)
  BY <1>7, <1>8, <1>9 DEF Tiles
<1>11. QED
  BY <1>10 DEF Q

(* What the pieces are, before and after a step. *)
PiecesBy ==
  \A x : x \in Pieces <=>
    \/ \E a \in Area, i \in Order, s \in Page :
         s \in af_frelst[a][i] /\ x = <<"free", a, s, i>>
    \/ \E r \in held : x = <<"held", Nobody, r[1], r[2]>>
    \/ \E c \in Caller : HasBlock(c) /\ x = <<"hand", c, call[c].msa, call[c].odr>>

(* The pieces are what PiecesBy says.                                      *)
LEMMA PiecesAre == PiecesBy
<1> DEFINE free == {x \in Area \X Order \X Page : x[3] \in af_frelst[x[1]][x[2]]}
           F == {<<"free", x[1], x[3], x[2]>> : x \in free}
           H == {<<"held", Nobody, r[1], r[2]>> : r \in held}
           C == {<<"hand", c, call[c].msa, call[c].odr>> : c \in {d \in Caller : HasBlock(d)}}
<1>1. Pieces = F \cup H \cup C
  BY DEF Pieces
<1>2. ASSUME NEW x
      PROVE  x \in F <=> \E a \in Area, i \in Order, s \in Page :
                           s \in af_frelst[a][i] /\ x = <<"free", a, s, i>>
  <2>1. ASSUME NEW a \in Area, NEW i \in Order, NEW s \in Page, s \in af_frelst[a][i]
        PROVE  <<"free", a, s, i>> \in F
    <3>1. <<a, i, s>> \in free
      BY <2>1
    <3>2. QED
      BY <3>1
  <2>2. ASSUME x \in F
        PROVE  \E a \in Area, i \in Order, s \in Page :
                 s \in af_frelst[a][i] /\ x = <<"free", a, s, i>>
    <3>1. PICK y \in free : x = <<"free", y[1], y[3], y[2]>>
      BY <2>2
    <3>2. y[1] \in Area /\ y[2] \in Order /\ y[3] \in Page /\ y[3] \in af_frelst[y[1]][y[2]]
      OBVIOUS
    <3>3. QED
      BY <3>1, <3>2
  <2>3. QED
    BY <2>1, <2>2
<1>3. \A x : x \in H <=> \E r \in held : x = <<"held", Nobody, r[1], r[2]>>
  OBVIOUS
<1>4. \A x : x \in C <=>
        \E c \in Caller : HasBlock(c) /\ x = <<"hand", c, call[c].msa, call[c].odr>>
  OBVIOUS
<1> HIDE DEF F, H, C
<1>5. QED
  BY <1>1, <1>2, <1>3, <1>4 DEF PiecesBy

(* So they are after a step.                                               *)
LEMMA PiecesNext == PiecesBy'
BY PiecesAre, PTL

(* A step that writes the descriptors W leaves a piece that has none of    *)
(* them described as it was.                                               *)
LEMMA DescribedFrame ==
  ASSUME NEW z, z[3] \in Page, Last(z) \in Page, Described(z), NEW W,
         z[3] <= Last(z),
         \A p \in Page \ W : /\ mf_olkty'[p] = mf_olkty[p]
                             /\ md_odlink'[p] = md_odlink[p]
                             /\ mf_uindx'[p] = mf_uindx[p],
         \A p \in W : ~(z[3] <= p /\ p <= Last(z)),
         IsUsed(z)' <=> IsUsed(z), IsCut(z)' <=> IsCut(z)
  PROVE  Described(z)'
<1>1. z[3] \notin W /\ Last(z) \notin W
  BY PageFacts
<1>2. /\ mf_olkty'[z[3]] = mf_olkty[z[3]] /\ mf_olkty'[Last(z)] = mf_olkty[Last(z)]
      /\ md_odlink'[z[3]] = md_odlink[z[3]] /\ md_odlink'[Last(z)] = md_odlink[Last(z)]
      /\ mf_uindx'[z[3]] = mf_uindx[z[3]] /\ mf_uindx'[Last(z)] = mf_uindx[Last(z)]
  BY <1>1
<1>3. \A p \in Page : z[3] < p /\ p < Last(z) => mf_uindx'[p] = 0
  <2>1. \A p \in Page : z[3] < p /\ p < Last(z) => z[3] <= p /\ p <= Last(z)
    BY PageFacts
  <2>2. QED
    BY <2>1 DEF Described
<1>4. QED
  BY <1>2, <1>3 DEF Described, Linked, OnBafh, Unused, Last

(* What the invariant says of one piece. *)
LEMMA PieceFacts ==
  ASSUME IInv, NEW x \in Pieces
  PROVE  /\ x[3] \in Page /\ x[4] \in Order /\ Last(x) \in Page /\ x[3] <= Last(x)
         /\ x[3] \in Int /\ Last(x) \in Int
         /\ InArea(mf_marty[x[3]], x[3], x[4]) /\ Continuous(x[3], x[4])
         /\ Tagged(x) /\ Described(x) /\ mf_marty[x[3]] \in Area
         /\ Last(x) = x[3] + af_oderpnr[x[4]] - 1
         /\ (x[3] = Last(x) <=> x[4] = 0)
         /\ mf_marty[Last(x)] = mf_marty[x[3]]
<1>1. Within(x) /\ Tagged(x) /\ Described(x)
  BY DEF IInv, Tiles
<1>2. QED
  BY <1>1, EndInt, AreaAssumption DEF Within, InArea, Last

(* Two pieces have no page in common, nor the first or the last one.       *)
LEMMA PiecesApart ==
  ASSUME IInv, NEW x \in Pieces, NEW y \in Pieces, x # y
  PROVE  /\ \A p \in Int : x[3] <= p /\ p <= Last(x) => ~(y[3] <= p /\ p <= Last(y))
         /\ x[3] # y[3] /\ Last(x) # Last(y)
<1>1. Last(x) < y[3] \/ Last(y) < x[3]
  BY DEF IInv, Tiles, Apart, Last
<1>2. /\ x[3] \in Int /\ Last(x) \in Int /\ x[3] <= Last(x)
      /\ y[3] \in Int /\ Last(y) \in Int /\ y[3] <= Last(y)
  BY PieceFacts
<1>3. QED
  BY <1>1, <1>2

(* The block in a caller's hands is a piece; two callers that cut or join  *)
(* work in different areas.                                                *)
LEMMA HandFacts ==
  ASSUME IInv, NEW c \in Caller, HasBlock(c)
  PROVE  /\ <<"hand", c, call[c].msa, call[c].odr>> \in Pieces
         /\ call[c].msa \in Page /\ call[c].odr \in Order /\ AreaOf(c) \in Area
         /\ CallOk(c)
         /\ call[c].ask \in Nat
         /\ \A d \in Caller : d # c /\ call[d].pc \in {"div", "merge"} /\ call[c].pc \in {"div", "merge"}
                                => AreaOf(d) # AreaOf(c)
<1>1. <<"hand", c, call[c].msa, call[c].odr>> \in Pieces
  BY PiecesAre DEF PiecesBy
<1>2. call[c].msa \in Page /\ call[c].odr \in Order /\ AreaOf(c) \in Area
  BY <1>1, PieceFacts DEF AreaOf
<1>3. CallOk(c) /\ call[c].ask \in Nat
  BY DEF IInv, TInv, Call
<1>4. QED
  BY <1>1, <1>2, <1>3 DEF IInv, CallOk, HasBlock

(* A caller that cuts or joins has the lock of the area it works in.       *)
LEMMA LockFacts ==
  ASSUME IInv, NEW d \in Caller, call[d].pc \in {"div", "merge"}
  PROVE  AreaOf(d) \in Area /\ ma_lock[AreaOf(d)] = d /\ d # Nobody
<1>1. AreaOf(d) \in Area /\ CallOk(d)
  BY HandFacts DEF HasBlock
<1>2. QED
  BY <1>1, AreaAssumption DEF CallOk

(* A block on a list is a piece, and of the area of the list.              *)
LEMMA FreeFacts ==
  ASSUME IInv, NEW a \in Area, NEW i \in Order, NEW s \in af_frelst[a][i]
  PROVE  /\ <<"free", a, s, i>> \in Pieces
         /\ s \in Page /\ mf_marty[s] = a
<1>1. s \in Page
  BY DEF IInv, TInv
<1>2. <<"free", a, s, i>> \in Pieces
  BY <1>1, PiecesAre DEF PiecesBy
<1>3. QED
  BY <1>1, <1>2, PieceFacts DEF Tagged

(* A list is empty when its count is zero.                                 *)
LEMMA Finite ==
  ASSUME IInv, NEW a \in Area, NEW i \in Order
  PROVE  IsFiniteSet(af_frelst[a][i]) /\ af_frelst[a][i] \in SUBSET Page
         /\ (af_fobjnr[a][i] > 0 <=> af_frelst[a][i] # {})
<1>1. af_frelst[a][i] \in SUBSET Page
  BY DEF IInv, TInv
<1>2. IsFiniteSet(Page)
  BY FS_Interval, AreaAssumption DEF Page
<1>3. IsFiniteSet(af_frelst[a][i])
  BY <1>1, <1>2, FS_Subset
<1>4. af_fobjnr[a][i] = Cardinality(af_frelst[a][i]) /\ af_fobjnr[a][i] \in Nat
  BY DEF IInv, Counted, TInv
<1>5. Cardinality(af_frelst[a][i]) = 0 <=> af_frelst[a][i] = {}
  BY <1>3, FS_EmptySet
<1>6. af_fobjnr[a][i] > 0 <=> af_fobjnr[a][i] # 0
  BY <1>4
<1>7. af_fobjnr[a][i] = 0 <=> af_frelst[a][i] = {}
  BY <1>4, <1>5
<1>8. QED
  BY <1>1, <1>3, <1>6, <1>7

(* Which pieces there are, kind by kind. *)
LEMMA PieceKinds ==
  ASSUME TInv
  PROVE  /\ \A b \in Area, j \in Order, t \in Page :
              <<"free", b, t, j>> \in Pieces <=> t \in af_frelst[b][j]
         /\ \A t, j : <<"held", Nobody, t, j>> \in Pieces <=> <<t, j>> \in held
         /\ \A d \in Caller : \A t, j : <<"hand", d, t, j>> \in Pieces
              <=> HasBlock(d) /\ t = call[d].msa /\ j = call[d].odr
<1>1. held \subseteq Page \X Order
  BY DEF TInv
<1>2. \A t, j : <<"held", Nobody, t, j>> \in Pieces <=> <<t, j>> \in held
  <2>1. \A r \in held : r = <<r[1], r[2]>>
    BY <1>1
  <2>2. ASSUME NEW t, NEW j, <<"held", Nobody, t, j>> \in Pieces
        PROVE  <<t, j>> \in held
    <3>1. PICK r \in held : <<"held", Nobody, t, j>> = <<"held", Nobody, r[1], r[2]>>
      BY <2>2, PiecesAre DEF PiecesBy
    <3>2. QED
      BY <3>1, <2>1
  <2>3. ASSUME NEW t, NEW j, <<t, j>> \in held
        PROVE  <<"held", Nobody, t, j>> \in Pieces
    <3>1. \E r \in held : <<"held", Nobody, t, j>> = <<"held", Nobody, r[1], r[2]>>
      BY <2>3
    <3>2. QED
      BY <3>1, PiecesAre DEF PiecesBy
  <2>4. QED
    BY <2>2, <2>3
<1>3. \A b \in Area, j \in Order, t \in Page :
        <<"free", b, t, j>> \in Pieces <=> t \in af_frelst[b][j]
  BY PiecesAre DEF PiecesBy
<1>4. \A d \in Caller : \A t, j : <<"hand", d, t, j>> \in Pieces
        <=> HasBlock(d) /\ t = call[d].msa /\ j = call[d].odr
  BY PiecesAre DEF PiecesBy
<1>5. QED
  BY <1>2, <1>3, <1>4

(* A step of caller c that writes the descriptors W leaves every piece     *)
(* alone that is not in its hands and has none of them.                    *)
LEMMA OthersKept ==
  ASSUME IInv, NEW c \in Caller,
         \A d \in Caller : d # c => call'[d] = call[d],
         NEW W,
         \A p \in Page \ W : /\ mf_olkty'[p] = mf_olkty[p]
                             /\ md_odlink'[p] = md_odlink[p]
                             /\ mf_uindx'[p] = mf_uindx[p],
         NEW z \in Pieces, ~(z[1] = "hand" /\ z[2] = c),
         \A p \in W : ~(z[3] <= p /\ p <= Last(z))
  PROVE  Tagged(z)' /\ Described(z)'
<1>1. /\ z[3] \in Page /\ Last(z) \in Page /\ z[3] <= Last(z)
      /\ Tagged(z) /\ Described(z)
  BY PieceFacts
<1>2. z[1] = "hand" => z[2] \in Caller
  BY PiecesAre DEF PiecesBy
<1>3. (IsUsed(z)' <=> IsUsed(z)) /\ (IsCut(z)' <=> IsCut(z))
  BY <1>2 DEF IsUsed, IsCut
<1>4. Described(z)'
  BY <1>1, <1>3, DescribedFrame
<1>5. QED
  BY <1>1, <1>4 DEF Tagged

(* What a step must leave to a caller that does not take it. *)
LEMMA CallOkOther ==
  ASSUME IInv, NEW d \in Caller, call'[d] = call[d],
         call[d].pc \in {"div", "merge"} => ma_lock'[AreaOf(d)] = ma_lock[AreaOf(d)],
         call[d].pc = "div" =>
           \A j \in Order : af_frelst'[AreaOf(d)][j] \subseteq af_frelst[AreaOf(d)][j]
  PROVE  CallOk(d)'
<1>1. CallOk(d)
  BY DEF IInv
<1>2. AreaOf(d)' = AreaOf(d)
  BY DEF AreaOf
<1>3. CASE call[d].pc = "div"
  <2>1. \A j \in Order : j < call[d].odr /\ af_oderpnr[j] >= call[d].ask
                         => af_frelst'[AreaOf(d)][j] = {}
    BY <1>1, <1>3 DEF CallOk
  <2>2. QED
    BY <1>1, <1>2, <1>3, <2>1 DEF CallOk
<1>4. CASE call[d].pc # "div"
  BY <1>1, <1>2, <1>4 DEF CallOk
<1>5. QED
  BY <1>3, <1>4

(* The lengths kept beside the lists. *)
Added(a, i, s) == /\ af_frelst' = [af_frelst EXCEPT ![a][i] = @ \cup {s}]
                  /\ af_fobjnr' = [af_fobjnr EXCEPT ![a][i] = @ + 1]
Removed(a, i, s) == /\ af_frelst' = [af_frelst EXCEPT ![a][i] = @ \ {s}]
                    /\ af_fobjnr' = [af_fobjnr EXCEPT ![a][i] = @ - 1]

(* Taking a block off its list keeps the count right.                      *)
LEMMA CountedRemove ==
  ASSUME IInv, NEW a \in Area, NEW i \in Order, NEW s \in af_frelst[a][i], Removed(a, i, s)
  PROVE  /\ Counted' /\ NoFreeNeighbours'
         /\ af_frelst' \in [Area -> [Order -> SUBSET Page]]
         /\ af_fobjnr' \in [Area -> [Order -> Nat]]
         /\ \A b \in Area, j \in Order : \A t : t \in af_frelst'[b][j]
              <=> t \in af_frelst[b][j] /\ ~(b = a /\ j = i /\ t = s)
<1>1. /\ af_frelst \in [Area -> [Order -> SUBSET Page]]
      /\ af_fobjnr \in [Area -> [Order -> Nat]]
      /\ Counted /\ NoFreeNeighbours
  BY DEF IInv, TInv
<1>2. \A b \in Area, j \in Order :
        /\ af_frelst'[b][j] = IF b = a /\ j = i THEN af_frelst[a][i] \ {s}
                              ELSE af_frelst[b][j]
        /\ af_fobjnr'[b][j] = IF b = a /\ j = i THEN af_fobjnr[a][i] - 1
                              ELSE af_fobjnr[b][j]
  BY <1>1 DEF Removed
<1>3. IsFiniteSet(af_frelst[a][i])
  BY Finite
<1>4. Cardinality(af_frelst[a][i] \ {s}) = Cardinality(af_frelst[a][i]) - 1
  BY <1>3, FS_RemoveElement
<1>5. af_fobjnr[a][i] > 0 /\ af_fobjnr[a][i] \in Nat
  BY <1>1, Finite
<1>6. af_frelst' \in [Area -> [Order -> SUBSET Page]]
  BY <1>1 DEF Removed
<1>7. af_fobjnr' \in [Area -> [Order -> Nat]]
  BY <1>1, <1>5 DEF Removed
<1>8. Counted'
  BY <1>1, <1>2, <1>4 DEF Counted
<1>9. \A b \in Area, j \in Order : af_frelst'[b][j] \subseteq af_frelst[b][j]
  BY <1>2
<1>10. NoFreeNeighbours'
  <2>1. ASSUME NEW b \in Area \ {PROC}, NEW j \in Order, j < LMAX - 1,
               NEW t \in af_frelst'[b][j], NEW v \in af_frelst'[b][j]
        PROVE  ~Follows(t, v, j)
    <3>1. t \in af_frelst[b][j] /\ v \in af_frelst[b][j]
      BY <1>9
    <3>2. QED
      BY <2>1, <3>1, <1>1 DEF NoFreeNeighbours
  <2>2. QED
    BY <2>1 DEF NoFreeNeighbours, Follows, End
<1>11. \A b \in Area, j \in Order : \A t : t \in af_frelst'[b][j]
         <=> t \in af_frelst[b][j] /\ ~(b = a /\ j = i /\ t = s)
  BY <1>2
<1>12. QED
  BY <1>11, <1>6, <1>7, <1>8, <1>10

(* Putting a block on a list keeps the count right, and the list without   *)
(* neighbours if the block has none there.                                 *)
LEMMA CountedAdd ==
  ASSUME IInv, NEW a \in Area, NEW i \in Order, NEW s \in Page,
         s \notin af_frelst[a][i], Added(a, i, s),
         a # PROC /\ i < LMAX - 1 =>
           \A t \in af_frelst[a][i] : ~Follows(s, t, i) /\ ~Follows(t, s, i)
  PROVE  /\ Counted' /\ NoFreeNeighbours'
         /\ af_frelst' \in [Area -> [Order -> SUBSET Page]]
         /\ af_fobjnr' \in [Area -> [Order -> Nat]]
         /\ \A b \in Area, j \in Order : \A t : t \in af_frelst'[b][j]
              <=> t \in af_frelst[b][j] \/ (b = a /\ j = i /\ t = s)
<1>1. /\ af_frelst \in [Area -> [Order -> SUBSET Page]]
      /\ af_fobjnr \in [Area -> [Order -> Nat]]
      /\ Counted /\ NoFreeNeighbours
  BY DEF IInv, TInv
<1>2. \A b \in Area, j \in Order :
        /\ af_frelst'[b][j] = IF b = a /\ j = i THEN af_frelst[a][i] \cup {s}
                              ELSE af_frelst[b][j]
        /\ af_fobjnr'[b][j] = IF b = a /\ j = i THEN af_fobjnr[a][i] + 1
                              ELSE af_fobjnr[b][j]
  BY <1>1 DEF Added
<1>3. IsFiniteSet(af_frelst[a][i])
  BY Finite
<1>4. Cardinality(af_frelst[a][i] \cup {s}) = Cardinality(af_frelst[a][i]) + 1
  BY <1>3, FS_AddElement
<1>5. af_fobjnr[a][i] \in Nat
  BY <1>1
<1>6. af_frelst' \in [Area -> [Order -> SUBSET Page]]
  BY <1>1 DEF Added
<1>7. af_fobjnr' \in [Area -> [Order -> Nat]]
  BY <1>1, <1>5 DEF Added
<1>8. Counted'
  BY <1>1, <1>2, <1>4 DEF Counted
<1>9. ~Follows(s, s, i)
  BY EndInt DEF Follows
<1>10. ASSUME NEW b \in Area \ {PROC}, NEW j \in Order, j < LMAX - 1,
              NEW t \in af_frelst'[b][j], NEW v \in af_frelst'[b][j]
       PROVE  ~Follows(t, v, j)
  <2>1. CASE b = a /\ j = i
    <3>1. /\ t \in af_frelst[a][i] \/ t = s
          /\ v \in af_frelst[a][i] \/ v = s
      BY <2>1, <1>2
    <3>2. QED
      BY <3>1, <2>1, <1>1, <1>9, <1>10 DEF NoFreeNeighbours
  <2>2. CASE ~(b = a /\ j = i)
    <3>1. t \in af_frelst[b][j] /\ v \in af_frelst[b][j]
      BY <2>2, <1>2
    <3>2. QED
      BY <3>1, <1>1, <1>10 DEF NoFreeNeighbours
  <2>3. QED
    BY <2>1, <2>2
<1>11. NoFreeNeighbours'
  BY <1>10 DEF NoFreeNeighbours, Follows, End
<1>12. \A b \in Area, j \in Order : \A t : t \in af_frelst'[b][j]
         <=> t \in af_frelst[b][j] \/ (b = a /\ j = i /\ t = s)
  BY <1>2
<1>13. QED
  BY <1>12, <1>6, <1>7, <1>8, <1>11

-----------------------------------------------------------------------------
(* The steps.                                                              *)

(* A step that leaves the memory and the lists alone, by a caller without  *)
(* a block that gets none. *)
LEMMA IdleStep ==
  ASSUME IInv, NEW c \in Caller, ~HasBlock(c),
         call' \in [Caller -> Call], ~HasBlock(c)',
         \A d \in Caller : d # c => call'[d] = call[d],
         UNCHANGED <<lists, links, mf_uindx, ma_lock, held, died>>
  PROVE  IInv'
<1>1. /\ af_frelst' = af_frelst /\ af_fobjnr' = af_fobjnr /\ mf_olkty' = mf_olkty
      /\ md_odlink' = md_odlink /\ mf_uindx' = mf_uindx /\ ma_lock' = ma_lock
      /\ held' = held /\ died' = died
  BY DEF lists, links
<1>2. TInv /\ TInv'
  BY <1>1 DEF IInv, TInv
<1>3. \A v : v \in Pieces' <=> v \in Pieces
  <2>1. \A d \in Caller : HasBlock(d)' <=> HasBlock(d)
    BY DEF HasBlock
  <2>2. \A d \in Caller : HasBlock(d) => call'[d] = call[d]
    OBVIOUS
  <2>3. QED
    BY <1>1, <2>1, <2>2, PiecesAre, PiecesNext DEF PiecesBy
<1>4. Tiles(Pieces)'
  BY <1>3 DEF IInv, Tiles, Within, Last, Managed
<1>5. ASSUME NEW z \in Pieces
      PROVE  Tagged(z)' /\ Described(z)'
  <2> DEFINE W == {}
  <2>1. ~(z[1] = "hand" /\ z[2] = c)
    BY PiecesAre DEF PiecesBy
  <2>2. \A p \in Page \ W : /\ mf_olkty'[p] = mf_olkty[p]
                              /\ md_odlink'[p] = md_odlink[p]
                              /\ mf_uindx'[p] = mf_uindx[p]
    BY <1>1
  <2>3. \A p \in W : ~(z[3] <= p /\ p <= Last(z))
    BY DEF W
  <2> HIDE DEF W
  <2>4. QED
    BY <2>1, <2>2, <2>3, OthersKept
<1>6. ASSUME NEW d \in Caller
      PROVE  CallOk(d)'
  <2>1. CASE d = c
    BY <2>1 DEF CallOk, HasBlock
  <2>2. CASE d # c
    BY <2>2, <1>1, CallOkOther
  <2>3. QED
    BY <2>1, <2>2
<1>7. Counted' /\ NoFreeNeighbours' /\ ~died'
  BY <1>1 DEF IInv, Counted, NoFreeNeighbours
<1>8. QED
  BY <1>2, <1>3, <1>4, <1>5, <1>6, <1>7 DEF IInv

(* A block is taken off a list with its lock. *)
LEMMA TakeStep ==
  ASSUME IInv, NEW c \in Caller, ~HasBlock(c), NEW a \in Area, ma_lock[a] = Nobody,
         NEW i \in Order, NEW n \in Nat, n >= 1, af_oderpnr[i] >= n,
         \A j \in Order : j < i /\ af_oderpnr[j] >= n => af_frelst[a][j] = {},
         TakeBlock(c, a, i, n)
  PROVE  IInv'
<1>1. PICK s \in af_frelst[a][i] :
        /\ af_frelst' = [af_frelst EXCEPT ![a][i] = @ \ {s}]
        /\ af_fobjnr' = [af_fobjnr EXCEPT ![a][i] = @ - 1]
        /\ IF OdEnd(s) - s + 1 = af_oderpnr[i]
             THEN /\ call' = [call EXCEPT ![c] =
                                [pc |-> "div", msa |-> s, odr |-> i, ask |-> n]]
                  /\ Lock(a, c)
             ELSE /\ call' = [call EXCEPT ![c] = Idle]
                  /\ UNCHANGED ma_lock
        /\ UNCHANGED <<counts, links, mf_uindx, held, died>>
  BY DEF TakeBlock
<1> DEFINE x == <<"free", a, s, i>>
           y == <<"hand", c, s, i>>
<1>2. TInv
  BY DEF IInv
<1>3. /\ x \in Pieces /\ s \in Page /\ mf_marty[s] = a
      /\ Described(x) /\ Tagged(x)
      /\ Last(x) = s + af_oderpnr[i] - 1 /\ s \in Int
      /\ ~IsUsed(x) /\ ~IsCut(x)
  BY FreeFacts, PieceFacts DEF IsUsed, IsCut
<1>4. /\ OnBafh(Last(x), i) /\ Unused(s, Last(x))
      /\ s # Last(x) => Linked(s, Last(x))
  BY <1>3 DEF Described
<1>5. OdEnd(s) = Last(x)
  BY <1>4 DEF OdEnd, OnBafh, Linked
<1>6. OdEnd(s) - s + 1 = af_oderpnr[i]
  BY <1>3, <1>5, OderFacts
<1>7. /\ call' = [call EXCEPT ![c] = [pc |-> "div", msa |-> s, odr |-> i, ask |-> n]]
      /\ ma_lock' = [ma_lock EXCEPT ![a] = c]
      /\ mf_olkty' = mf_olkty /\ md_odlink' = md_odlink /\ mf_uindx' = mf_uindx
      /\ held' = held /\ died' = died
  BY <1>1, <1>6 DEF Lock, links
<1>8. /\ Counted' /\ NoFreeNeighbours'
      /\ af_frelst' \in [Area -> [Order -> SUBSET Page]]
      /\ af_fobjnr' \in [Area -> [Order -> Nat]]
      /\ \A b \in Area, j \in Order : \A t : t \in af_frelst'[b][j]
           <=> t \in af_frelst[b][j] /\ ~(b = a /\ j = i /\ t = s)
  <2>1. s \in af_frelst[a][i] /\ Removed(a, i, s)
    BY <1>1 DEF Removed
  <2>2. QED
    BY <2>1, CountedRemove
<1>9. /\ call'[c] = [pc |-> "div", msa |-> s, odr |-> i, ask |-> n]
      /\ \A d \in Caller : d # c => call'[d] = call[d]
      /\ call' \in [Caller -> Call]
      /\ ma_lock'[a] = c /\ \A b \in Area : b # a => ma_lock'[b] = ma_lock[b]
      /\ ma_lock' \in [Area -> Caller \cup {Nobody}]
  BY <1>2, <1>3, <1>7 DEF TInv, Call, Pc
<1>10. TInv'
  BY <1>2, <1>7, <1>8, <1>9 DEF TInv
<1>11. \A v : v \in Pieces' <=> v \in (Pieces \ {x}) \cup {y}
  <2>1. ASSUME NEW b \in Area, NEW j \in Order, NEW t \in Page
        PROVE  t \in af_frelst'[b][j]
                 <=> t \in af_frelst[b][j] /\ <<"free", b, t, j>> # x
    BY <1>8
  <2>2. ASSUME NEW v
        PROVE  (\E b \in Area, j \in Order, t \in Page :
                  t \in af_frelst'[b][j] /\ v = <<"free", b, t, j>>)
                <=> /\ v # x
                    /\ \E b \in Area, j \in Order, t \in Page :
                         t \in af_frelst[b][j] /\ v = <<"free", b, t, j>>
    BY <2>1
  <2>3. ASSUME NEW v
        PROVE  (\E d \in Caller : HasBlock(d)' /\ v = <<"hand", d, call'[d].msa, call'[d].odr>>)
                <=> \/ v = y
                    \/ \E d \in Caller : HasBlock(d) /\ v = <<"hand", d, call[d].msa, call[d].odr>>
    BY <1>9 DEF HasBlock
  <2>4. QED
    BY <1>7, <2>2, <2>3, PiecesAre, PiecesNext DEF PiecesBy
<1>12. Tiles(Pieces)'
  <2>1. Tiles((Pieces \ {x}) \cup {y})
    BY <1>3, TilesMove DEF IInv
  <2>2. QED
    BY <2>1, <1>11 DEF Tiles, Within, Last, Managed
<1>13. Tagged(y)' /\ Described(y)'
  <2>1. IsCut(y)' /\ ~IsUsed(y)'
    BY <1>9 DEF IsCut, IsUsed
  <2>2. Last(y) = Last(x)
    BY DEF Last
  <2>3. \A p \in Page : s < p /\ p < Last(y) => mf_uindx'[p] = 0
    BY <1>3, <1>7, <2>2 DEF Described
  <2>4. Described(y)'
    BY <1>4, <1>7, <2>1, <2>2, <2>3 DEF Described, Linked, OnBafh, Unused, Last
  <2>5. QED
    BY <1>3, <2>4 DEF Tagged
<1>14. ASSUME NEW z \in Pieces \ {x}
       PROVE  Tagged(z)' /\ Described(z)'
  <2> DEFINE W == {}
  <2>1. ~(z[1] = "hand" /\ z[2] = c)
    BY PiecesAre DEF PiecesBy
  <2>2. \A p \in Page \ W : /\ mf_olkty'[p] = mf_olkty[p]
                             /\ md_odlink'[p] = md_odlink[p]
                             /\ mf_uindx'[p] = mf_uindx[p]
    BY <1>7
  <2>3. \A p \in W : ~(z[3] <= p /\ p <= Last(z))
    BY DEF W
  <2> HIDE DEF W
  <2>4. QED
    BY <1>9, <2>1, <2>2, <2>3, OthersKept
<1>15. ASSUME NEW d \in Caller
       PROVE  CallOk(d)'
  <2>1. CASE d = c
    <3>1. AreaOf(c)' = a
      BY <1>3, <1>9 DEF AreaOf
    <3>2. \A j \in Order : j < i /\ af_oderpnr[j] >= n => af_frelst'[a][j] = {}
      BY <1>8
    <3>3. QED
      BY <2>1, <1>9, <3>1, <3>2 DEF CallOk
  <2>2. CASE d # c
    <3>1. call[d].pc \in {"div", "merge"} =>
            AreaOf(d) \in Area /\ ma_lock[AreaOf(d)] = d /\ AreaOf(d) # a
      BY LockFacts
    <3>2. call[d].pc \in {"div", "merge"} => ma_lock'[AreaOf(d)] = ma_lock[AreaOf(d)]
      BY <3>1, <1>9
    <3>3. call[d].pc = "div" =>
            \A j \in Order : af_frelst'[AreaOf(d)][j] \subseteq af_frelst[AreaOf(d)][j]
      BY <3>1, <1>8
    <3>4. QED
      BY <2>2, <1>9, <3>2, <3>3, CallOkOther
  <2>3. QED
    BY <2>1, <2>2
<1>16. ~died'
  BY <1>7 DEF IInv
<1>17. QED
  BY <1>8, <1>10, <1>11, <1>12, <1>13, <1>14, <1>15, <1>16 DEF IInv

(* The block in hand is cut. *)
LEMMA SplitStep ==
  ASSUME IInv, NEW c \in Caller, DivSplit(c),
         NEW s, s = call[c].msa, NEW o, o = call[c].odr,
         NEW e, e = md_odlink[s], NEW a, a = AreaOf(c)
  PROVE  IInv'
<1> DEFINE i == o - 1
           u == s + af_oderpnr[i]
           x == <<"hand", c, s, o>>
           y == <<"hand", c, s, i>>
           z == <<"free", a, u, i>>
<1>1. /\ call[c].pc = "div" /\ o > DivOder(call[c].ask)
      /\ IF e - u + 1 = af_oderpnr[i] /\ Unused(u, e)
           THEN /\ mf_olkty' = [mf_olkty EXCEPT ![u] = "ODER", ![e] = "BAFH"]
                /\ md_odlink' = [md_odlink EXCEPT ![u] = e, ![e] = i, ![s] = u - 1]
                /\ af_frelst' = [af_frelst EXCEPT ![a][i] = @ \cup {u}]
                /\ af_fobjnr' = [af_fobjnr EXCEPT ![a][i] = @ + 1]
                /\ call' = [call EXCEPT ![c].odr = i]
                /\ UNCHANGED <<counts, mf_uindx, ma_lock, held, died>>
           ELSE SystemError
  BY DEF DivSplit
<1>2. TInv
  BY DEF IInv
<1>3. HasBlock(c)
  BY <1>1 DEF HasBlock
<1>4. /\ x \in Pieces /\ s \in Page /\ o \in Order /\ a \in Area
      /\ CallOk(c) /\ call[c].ask \in Nat /\ a = mf_marty[s]
  BY <1>3, HandFacts DEF AreaOf
<1>5. /\ ma_lock[a] = c /\ call[c].ask >= 1 /\ af_oderpnr[o] >= call[c].ask
      /\ \A j \in Order : j < o /\ af_oderpnr[j] >= call[c].ask => af_frelst[a][j] = {}
  BY <1>1, <1>4 DEF CallOk
<1>6. /\ i \in Order /\ o > 0 /\ i < o /\ af_oderpnr[i] >= call[c].ask
      /\ af_oderpnr[o] = af_oderpnr[i] + af_oderpnr[i] /\ i < LMAX - 1
  <2>1. /\ DivOder(call[c].ask) \in Order
        /\ af_oderpnr[DivOder(call[c].ask)] >= call[c].ask
    BY <1>4, <1>5, DivOderLeast
  <2>2. o \in Int /\ DivOder(call[c].ask) \in Int /\ DivOder(call[c].ask) >= 0 /\ o < LMAX
    BY <1>4, <2>1, OderFacts
  <2>3. o > 0 /\ i < o /\ i < LMAX - 1
    BY <1>1, <2>2, AreaAssumption
  <2>4. i \in Order /\ af_oderpnr[o] = af_oderpnr[i] + af_oderpnr[i]
    BY <2>3, <1>4, OderFacts
  <2>5. DivOder(call[c].ask) = i \/ DivOder(call[c].ask) < i
    BY <1>1, <2>2
  <2>6. af_oderpnr[DivOder(call[c].ask)] = af_oderpnr[i]
        \/ af_oderpnr[DivOder(call[c].ask)] < af_oderpnr[i]
    BY <2>1, <2>4, <2>5, OderGrows
  <2>7. af_oderpnr[i] >= call[c].ask
    BY <2>1, <2>4, <2>6, <1>4, OderFacts
  <2>8. QED
    BY <2>3, <2>4, <2>7
<1>7. /\ Described(x) /\ Tagged(x) /\ InArea(a, s, o) /\ Continuous(s, o)
      /\ Last(x) \in Page /\ Last(x) = End(s, o)
      /\ IsCut(x) /\ ~IsUsed(x)
  BY <1>1, <1>4, PieceFacts DEF IsCut, IsUsed, Last
<1>8. /\ u \in Page /\ s < u /\ End(s, i) + 1 = u /\ End(u, i) = End(s, o)
      /\ s <= End(s, i) /\ u <= End(u, i)
      /\ InArea(a, s, i) /\ InArea(a, u, i)
  <2>1. i = o - 1 /\ u = s + af_oderpnr[i] /\ i \in Order /\ o > 0
    BY <1>6
  <2> HIDE DEF i, u
  <2>2. QED
    BY <2>1, <1>4, <1>7, Halves
<1>9. /\ s \in Int /\ u \in Int /\ End(s, i) \in Int /\ End(u, i) \in Int
      /\ End(u, i) = u + af_oderpnr[i] - 1 /\ af_oderpnr[i] \in Int
  BY <1>4, <1>6, <1>8, EndInt, OderFacts
<1> HIDE DEF i, u
<1>10. /\ Linked(s, e) /\ e = End(u, i) /\ mf_uindx[s] = 0 /\ mf_uindx[e] = 0
       /\ \A p \in Page : s < p /\ p < e => mf_uindx[p] = 0
  <2>1. s # Last(x)
    BY <1>7, <1>8, <1>9
  <2>2. Linked(s, Last(x)) /\ Unused(s, Last(x))
    BY <1>7, <2>1 DEF Described
  <2>3. e = Last(x)
    BY <2>2 DEF Linked
  <2>4. \A p \in Page : s < p /\ p < e => mf_uindx[p] = 0
    BY <1>7, <2>3 DEF Described
  <2>5. QED
    BY <1>7, <1>8, <2>2, <2>3, <2>4 DEF Unused
<1>11. e - u + 1 = af_oderpnr[i]
  BY <1>9, <1>10
<1>12. Unused(u, e) /\ e \in Page
  <2>1. u = e \/ u < e
    BY <1>8, <1>9, <1>10
  <2>2. e \in Page
    BY <1>7, <1>8, <1>10
  <2>3. QED
    BY <1>8, <1>10, <2>1, <2>2 DEF Unused
<1>13. /\ mf_olkty' = [mf_olkty EXCEPT ![u] = "ODER", ![e] = "BAFH"]
       /\ md_odlink' = [md_odlink EXCEPT ![u] = e, ![e] = i, ![s] = u - 1]
       /\ af_frelst' = [af_frelst EXCEPT ![a][i] = @ \cup {u}]
       /\ af_fobjnr' = [af_fobjnr EXCEPT ![a][i] = @ + 1]
       /\ call' = [call EXCEPT ![c].odr = i]
       /\ mf_uindx' = mf_uindx /\ ma_lock' = ma_lock /\ held' = held /\ died' = died
  BY <1>1, <1>11, <1>12
<1>14. /\ call' \in [Caller -> Call]
       /\ call'[c].pc = "div" /\ call'[c].msa = s /\ call'[c].odr = i
       /\ call'[c].ask = call[c].ask
       /\ \A d \in Caller : d # c => call'[d] = call[d]
  BY <1>1, <1>2, <1>6, <1>13 DEF TInv, Call
<1>15. /\ mf_olkty' \in [Page -> {"INIT", "ODER", "BAFH"}]
       /\ md_odlink' \in [Page -> Int]
       /\ mf_olkty'[e] = "BAFH" /\ (u # e => mf_olkty'[u] = "ODER")
       /\ mf_olkty'[s] = mf_olkty[s] /\ md_odlink'[s] = u - 1
       /\ md_odlink'[e] = i /\ (u # e => md_odlink'[u] = e)
       /\ \A p \in Page : p \notin {s, u, e} =>
            mf_olkty'[p] = mf_olkty[p] /\ md_odlink'[p] = md_odlink[p]
  <2>1. s # u /\ s # e /\ e \in Int /\ i \in Int /\ u - 1 \in Int
    BY <1>8, <1>9, <1>10, <1>6, OderFacts
  <2>2. mf_olkty \in [Page -> {"INIT", "ODER", "BAFH"}] /\ md_odlink \in [Page -> Int]
    BY <1>2 DEF TInv
  <2>3. QED
    BY <1>4, <1>8, <1>12, <1>13, <2>1, <2>2
<1>16. /\ Counted' /\ NoFreeNeighbours'
       /\ af_frelst' \in [Area -> [Order -> SUBSET Page]]
       /\ af_fobjnr' \in [Area -> [Order -> Nat]]
       /\ \A b \in Area, j \in Order : \A t : t \in af_frelst'[b][j]
            <=> t \in af_frelst[b][j] \/ (b = a /\ j = i /\ t = u)
  <2>1. af_frelst[a][i] = {}
    BY <1>5, <1>6
  <2>2. Added(a, i, u)
    BY <1>13 DEF Added
  <2>3. /\ u \notin af_frelst[a][i]
        /\ \A t \in af_frelst[a][i] : ~Follows(u, t, i) /\ ~Follows(t, u, i)
    BY <2>1
  <2>4. a \in Area /\ i \in Order /\ u \in Page
    BY <1>4, <1>6, <1>8
  <2>5. QED
    BY <2>2, <2>3, <2>4, CountedAdd
<1>17. TInv'
  BY <1>2, <1>13, <1>14, <1>15, <1>16 DEF TInv
<1>18. \A v : v \in Pieces' <=> v \in (Pieces \ {x}) \cup {y, z}
  <2>1. ASSUME NEW v
        PROVE  (\E b \in Area, j \in Order, t \in Page :
                  t \in af_frelst'[b][j] /\ v = <<"free", b, t, j>>)
                <=> \/ v = z
                    \/ \E b \in Area, j \in Order, t \in Page :
                         t \in af_frelst[b][j] /\ v = <<"free", b, t, j>>
    BY <1>4, <1>6, <1>8, <1>16
  <2>2. ASSUME NEW v
        PROVE  (\E d \in Caller : HasBlock(d)' /\ v = <<"hand", d, call'[d].msa, call'[d].odr>>)
                <=> \/ v = y
                    \/ v # x /\ \E d \in Caller :
                         HasBlock(d) /\ v = <<"hand", d, call[d].msa, call[d].odr>>
    BY <1>3, <1>14 DEF HasBlock
  <2>3. QED
    BY <1>13, <2>1, <2>2, PiecesAre, PiecesNext DEF PiecesBy
<1>19. Tiles(Pieces)'
  <2>1. Tiles((Pieces \ {x}) \cup {y, z})
    <3>1. Tiles(Pieces) /\ x[4] > 0 /\ x[4] = o /\ x[3] = s
          /\ y[3] = s /\ y[4] = o - 1
          /\ z[3] = s + af_oderpnr[o - 1] /\ z[4] = o - 1
      BY <1>6 DEF IInv, i, u
    <3> HIDE DEF x, y, z
    <3>2. QED
      BY <3>1, <1>4, TilesSplit DEF x
  <2>2. QED
    BY <2>1, <1>18 DEF Tiles, Within, Last, Managed
<1>20. Tagged(y)' /\ Described(y)'
  <2>1. IsCut(y)' /\ ~IsUsed(y)'
    BY <1>14 DEF IsCut, IsUsed
  <2>2. Last(y) = u - 1 /\ s <= u - 1 /\ u - 1 < e /\ u - 1 \in Page
    <3>1. Last(y) = End(s, i) /\ End(s, i) \in Page
      BY <1>8 DEF Last, InArea
    <3>2. QED
      BY <3>1, <1>8, <1>9, <1>10
  <2>3. \A p \in Page : s <= p /\ p <= u - 1 => mf_uindx'[p] = 0
    BY <1>9, <1>10, <1>13, <2>2, PageFacts
  <2>4. Unused(s, u - 1)'
    BY <1>4, <1>9, <2>2, <2>3 DEF Unused
  <2>5. Linked(s, u - 1)'
    BY <1>10, <1>15 DEF Linked
  <2>6. \A p \in Page : s < p /\ p < u - 1 => mf_uindx'[p] = 0
    BY <1>9, <2>3, PageFacts
  <2>7. Described(y)'
    <3>1. y[3] = s /\ Last(y)' = u - 1
      BY <2>2 DEF Last
    <3> HIDE DEF y
    <3>2. QED
      BY <3>1, <2>1, <2>4, <2>5, <2>6 DEF Described
  <2>8. Tagged(y)'
    BY <1>6, <1>7, OderFacts DEF Tagged
  <2>9. QED
    BY <2>7, <2>8
<1>21. Tagged(z)' /\ Described(z)'
  <2>1. ~IsCut(z)' /\ ~IsUsed(z)'
    BY DEF IsCut, IsUsed
  <2>2. Last(z)' = e /\ z[3] = u /\ z[4] = i
    BY <1>10 DEF Last
  <2>3. Unused(u, e)' /\ OnBafh(e, i)' /\ (u # e => Linked(u, e)')
    BY <1>12, <1>13, <1>15 DEF Unused, OnBafh, Linked
  <2>4. \A p \in Page : u < p /\ p < e => mf_uindx'[p] = 0
    BY <1>8, <1>9, <1>10, <1>13, PageFacts
  <2>5. mf_marty[u] = a
    BY <1>8, <1>9 DEF InArea
  <2>6. Tagged(z)'
    BY <2>2, <2>5, <1>4, <1>6, <1>7, OderFacts DEF Tagged
  <2>7. Described(z)'
    <3> HIDE DEF z
    <3>1. QED
      BY <2>1, <2>2, <2>3, <2>4 DEF Described
  <2>8. QED
    BY <2>6, <2>7
<1>22. ASSUME NEW v \in Pieces \ {x}
       PROVE  Tagged(v)' /\ Described(v)'
  <2> DEFINE W == {s, u, e}
  <2>1. ~(v[1] = "hand" /\ v[2] = c)
    BY PiecesAre DEF PiecesBy
  <2>2. \A p \in Page \ W : /\ mf_olkty'[p] = mf_olkty[p]
                            /\ md_odlink'[p] = md_odlink[p]
                            /\ mf_uindx'[p] = mf_uindx[p]
    BY <1>13, <1>15
  <2>3. \A p \in W : ~(v[3] <= p /\ p <= Last(v))
    <3>1. \A p \in W : p \in Int /\ s <= p /\ p <= Last(x)
      BY <1>7, <1>8, <1>9, <1>10
    <3>2. \A p \in Int : s <= p /\ p <= Last(x) => ~(v[3] <= p /\ p <= Last(v))
      BY <1>4, PiecesApart
    <3>3. QED
      BY <3>1, <3>2
  <2> HIDE DEF W
  <2>4. QED
    BY <1>14, <2>1, <2>2, <2>3, OthersKept
<1>23. ASSUME NEW d \in Caller
       PROVE  CallOk(d)'
  <2>1. CASE d = c
    <3>1. AreaOf(c)' = a
      BY <1>14 DEF AreaOf
    <3>2. \A j \in Order : j < i /\ af_oderpnr[j] >= call[c].ask => af_frelst'[a][j] = {}
      <4>1. \A j \in Order : j < i => j < o /\ j # i
        BY <1>4, <1>6, OderFacts
      <4>2. QED
        BY <4>1, <1>4, <1>5, <1>16
    <3>3. QED
      BY <2>1, <1>5, <1>6, <1>13, <1>14, <3>1, <3>2 DEF CallOk
  <2>2. CASE d # c
    <3>1. call[d].pc \in {"div", "merge"} =>
            AreaOf(d) \in Area /\ AreaOf(d) # a /\ ma_lock'[AreaOf(d)] = ma_lock[AreaOf(d)]
      BY <2>2, <1>5, <1>13, LockFacts
    <3>2. call[d].pc = "div" =>
            \A j \in Order : af_frelst'[AreaOf(d)][j] \subseteq af_frelst[AreaOf(d)][j]
      BY <3>1, <1>16
    <3>3. QED
      BY <2>2, <1>14, <3>1, <3>2, CallOkOther
  <2>3. QED
    BY <2>1, <2>2
<1>24. ~died'
  BY <1>13 DEF IInv
<1>25. QED
  BY <1>16, <1>17, <1>18, <1>19, <1>20, <1>21, <1>22, <1>23, <1>24 DEF IInv

(* The block in hand is given out. *)
LEMMA DoneStep ==
  ASSUME IInv, NEW c \in Caller, DivDone(c),
         NEW s, s = call[c].msa, NEW i, i = call[c].odr, NEW a, a = AreaOf(c),
         NEW e, e = OdEnd(s)
  PROVE  IInv'
<1> DEFINE x == <<"hand", c, s, i>>
           y == <<"held", Nobody, s, i>>
<1>1. /\ call[c].pc = "div"
      /\ IF /\ mf_olkty[s] \in {"ODER", "BAFH"}
            /\ e - s + 1 = af_oderpnr[i]
            /\ Unused(s, e)
           THEN /\ mf_uindx' = [mf_uindx EXCEPT ![s] = 1, ![e] = 1]
                /\ mf_olkty' = [mf_olkty EXCEPT ![s] = "ODER"]
                /\ md_odlink' = [md_odlink EXCEPT ![s] = e]
                /\ ma_lock' = [ma_lock EXCEPT ![a] = Nobody]
                /\ held' = held \cup {<<s, i>>}
                /\ call' = [call EXCEPT ![c] = Idle]
                /\ UNCHANGED <<lists, died>>
           ELSE SystemError
  BY DEF DivDone, Unlock
<1>2. TInv
  BY DEF IInv
<1>3. HasBlock(c)
  BY <1>1 DEF HasBlock
<1>4. /\ x \in Pieces /\ s \in Page /\ i \in Order /\ a \in Area /\ a = mf_marty[s]
      /\ ma_lock[a] = c
  BY <1>1, <1>3, HandFacts, LockFacts DEF AreaOf
<1>5. /\ Described(x) /\ Tagged(x) /\ Last(x) \in Page /\ s <= Last(x)
      /\ Last(x) = s + af_oderpnr[i] - 1
      /\ s \in Int /\ Last(x) \in Int
      /\ IsCut(x) /\ ~IsUsed(x)
  BY <1>1, <1>4, PieceFacts DEF IsCut, IsUsed
<1>6. /\ Unused(s, Last(x))
      /\ s # Last(x) => Linked(s, Last(x))
      /\ s = Last(x) => mf_olkty[s] = "BAFH" \/ Linked(s, s)
      /\ \A p \in Page : s < p /\ p < Last(x) => mf_uindx[p] = 0
  BY <1>5 DEF Described
<1>7. e = Last(x) /\ mf_olkty[s] \in {"ODER", "BAFH"}
  BY <1>6 DEF OdEnd, Linked
<1>8. e - s + 1 = af_oderpnr[i]
  BY <1>4, <1>5, <1>7, OderFacts
<1>9. /\ mf_uindx' = [mf_uindx EXCEPT ![s] = 1, ![e] = 1]
      /\ mf_olkty' = [mf_olkty EXCEPT ![s] = "ODER"]
      /\ md_odlink' = [md_odlink EXCEPT ![s] = e]
      /\ ma_lock' = [ma_lock EXCEPT ![a] = Nobody]
      /\ held' = held \cup {<<s, i>>}
      /\ call' = [call EXCEPT ![c] = Idle]
      /\ af_frelst' = af_frelst /\ af_fobjnr' = af_fobjnr /\ died' = died
  BY <1>1, <1>6, <1>7, <1>8 DEF lists
<1>10. /\ call' \in [Caller -> Call] /\ call'[c].pc = "idle" /\ ~HasBlock(c)'
       /\ \A d \in Caller : d # c => call'[d] = call[d]
       /\ ma_lock' \in [Area -> Caller \cup {Nobody}]
       /\ \A b \in Area : b # a => ma_lock'[b] = ma_lock[b]
  BY <1>2, <1>4, <1>9, OderFacts DEF TInv, Call, Pc, Idle, HasBlock
<1>11. /\ mf_uindx' \in [Page -> Nat] /\ mf_uindx'[s] = 1 /\ mf_uindx'[e] = 1
       /\ mf_olkty' \in [Page -> {"INIT", "ODER", "BAFH"}] /\ mf_olkty'[s] = "ODER"
       /\ md_odlink' \in [Page -> Int] /\ md_odlink'[s] = e
       /\ \A p \in Page : p \notin {s, e} =>
            /\ mf_uindx'[p] = mf_uindx[p]
            /\ mf_olkty'[p] = mf_olkty[p] /\ md_odlink'[p] = md_odlink[p]
  BY <1>2, <1>4, <1>5, <1>7, <1>9 DEF TInv
<1>12. TInv'
  BY <1>2, <1>4, <1>9, <1>10, <1>11 DEF TInv
<1>13. \A v : v \in Pieces' <=> v \in (Pieces \ {x}) \cup {y}
  <2>1. ASSUME NEW v
        PROVE  (\E d \in Caller : HasBlock(d)' /\ v = <<"hand", d, call'[d].msa, call'[d].odr>>)
                <=> v # x /\ \E d \in Caller :
                         HasBlock(d) /\ v = <<"hand", d, call[d].msa, call[d].odr>>
    BY <1>3, <1>10 DEF HasBlock
  <2>2. ASSUME NEW v
        PROVE  (\E r \in held' : v = <<"held", Nobody, r[1], r[2]>>)
                <=> v = y \/ \E r \in held : v = <<"held", Nobody, r[1], r[2]>>
    <3>1. \A r : r \in held' <=> r \in held \/ r = <<s, i>>
      BY <1>9
    <3>2. <<s, i>>[1] = s /\ <<s, i>>[2] = i
      OBVIOUS
    <3>3. QED
      BY <3>1, <3>2
  <2>3. QED
    BY <1>9, <2>1, <2>2, PiecesAre, PiecesNext DEF PiecesBy
<1>14. Tiles(Pieces)'
  <2>1. Tiles((Pieces \ {x}) \cup {y})
    BY <1>4, TilesMove DEF IInv
  <2>2. QED
    BY <2>1, <1>13 DEF Tiles, Within, Last, Managed
<1>15. Tagged(y)' /\ Described(y)'
  <2>1. IsUsed(y)' /\ Last(y) = e /\ y[3] = s
    BY <1>7 DEF IsUsed, Last
  <2>2. \A p \in Page : s < p /\ p < e => mf_uindx'[p] = 0
    <3>1. \A p \in Page : s < p /\ p < e => p \notin {s, e}
      BY <1>5, <1>7, PageFacts
    <3>2. QED
      BY <1>6, <1>7, <1>11, <3>1
  <2>3. Described(y)'
    BY <1>11, <2>1, <2>2 DEF Described, Linked, Last
  <2>4. Tagged(y)'
    BY <1>5 DEF Tagged
  <2>5. QED
    BY <2>3, <2>4
<1>16. ASSUME NEW v \in Pieces \ {x}
       PROVE  Tagged(v)' /\ Described(v)'
  <2> DEFINE W == {s, e}
  <2>1. ~(v[1] = "hand" /\ v[2] = c)
    BY PiecesAre DEF PiecesBy
  <2>2. \A p \in Page \ W : /\ mf_olkty'[p] = mf_olkty[p]
                            /\ md_odlink'[p] = md_odlink[p]
                            /\ mf_uindx'[p] = mf_uindx[p]
    BY <1>11
  <2>3. \A p \in W : ~(v[3] <= p /\ p <= Last(v))
    <3>1. \A p \in Int : s <= p /\ p <= Last(x) => ~(v[3] <= p /\ p <= Last(v))
      BY <1>4, PiecesApart
    <3>2. QED
      BY <1>5, <1>7, <3>1
  <2> HIDE DEF W
  <2>4. QED
    BY <1>10, <2>1, <2>2, <2>3, OthersKept
<1>17. ASSUME NEW d \in Caller
       PROVE  CallOk(d)'
  <2>1. CASE d = c
    BY <2>1, <1>10 DEF CallOk
  <2>2. CASE d # c
    <3>1. call[d].pc \in {"div", "merge"} => ma_lock'[AreaOf(d)] = ma_lock[AreaOf(d)]
      BY <2>2, <1>4, <1>10, LockFacts
    <3>2. QED
      BY <2>2, <1>9, <1>10, <3>1, CallOkOther
  <2>3. QED
    BY <2>1, <2>2
<1>18. Counted' /\ NoFreeNeighbours' /\ ~died'
  BY <1>9 DEF IInv, Counted, NoFreeNeighbours
<1>19. QED
  BY <1>12, <1>13, <1>14, <1>15, <1>16, <1>17, <1>18 DEF IInv

(* A run is handed back. *)
LEMMA BackStep ==
  ASSUME IInv, NEW c \in Caller, NEW r \in held, MergePages(c, r)
  PROVE  IInv'
<1> DEFINE s == r[1]
           i == r[2]
           x == <<"held", Nobody, s, i>>
           y == <<"hand", c, s, i>>
<1>1. TInv
  BY DEF IInv
<1>2. r = <<s, i>> /\ s \in Page /\ i \in Order
  BY <1>1 DEF TInv
<1>3. /\ call[c].pc = "idle"
      /\ held' = held \ {r}
      /\ call' = [call EXCEPT ![c] = [pc |-> "check", msa |-> s,
                                          odr |-> i, ask |-> af_oderpnr[i]]]
      /\ af_frelst' = af_frelst /\ af_fobjnr' = af_fobjnr /\ died' = died
      /\ mf_olkty' = mf_olkty /\ md_odlink' = md_odlink /\ mf_uindx' = mf_uindx
      /\ ma_lock' = ma_lock
  BY DEF MergePages, lists, links
<1>4. x \in Pieces /\ Described(x) /\ Tagged(x)
  <2>1. x \in Pieces
    BY PiecesAre DEF PiecesBy
  <2>2. QED
    BY <2>1, PieceFacts
<1>5. af_oderpnr[i] \in Nat
  BY <1>2, OderFacts
<1> HIDE DEF s, i
<1>6. /\ call' \in [Caller -> Call]
      /\ call'[c] = [pc |-> "check", msa |-> s, odr |-> i, ask |-> af_oderpnr[i]]
      /\ \A d \in Caller : d # c => call'[d] = call[d]
      /\ ~HasBlock(c) /\ HasBlock(c)'
  BY <1>1, <1>2, <1>3, <1>5 DEF TInv, Call, Pc, HasBlock
<1>7. TInv'
  BY <1>1, <1>3, <1>6 DEF TInv
<1>8. \A v : v \in Pieces' <=> v \in (Pieces \ {x}) \cup {y}
  <2>1. ASSUME NEW v
        PROVE  (\E d \in Caller : HasBlock(d)' /\ v = <<"hand", d, call'[d].msa, call'[d].odr>>)
                <=> v = y \/ \E d \in Caller :
                         HasBlock(d) /\ v = <<"hand", d, call[d].msa, call[d].odr>>
    BY <1>6 DEF HasBlock
  <2>2. ASSUME NEW v
        PROVE  (\E q \in held' : v = <<"held", Nobody, q[1], q[2]>>)
                <=> v # x /\ \E q \in held : v = <<"held", Nobody, q[1], q[2]>>
    <3>1. \A q \in held : q = <<q[1], q[2]>>
      BY <1>1 DEF TInv
    <3>2. \A q \in held : <<"held", Nobody, q[1], q[2]>> = x <=> q = r
      BY <1>2, <3>1
    <3>3. QED
      BY <1>3, <3>2
  <2>3. QED
    BY <1>3, <2>1, <2>2, PiecesAre, PiecesNext DEF PiecesBy
<1>9. Tiles(Pieces)'
  <2>1. Tiles((Pieces \ {x}) \cup {y})
    BY <1>4, TilesMove DEF IInv
  <2>2. QED
    BY <2>1, <1>8 DEF Tiles, Within, Last, Managed
<1>10. Tagged(y)' /\ Described(y)'
  <2>1. IsUsed(y)' /\ Last(y) = Last(x) /\ IsUsed(x)
    BY <1>6 DEF IsUsed, Last
  <2>2. Described(y)'
    BY <1>3, <1>4, <2>1 DEF Described, Linked, Last
  <2>3. Tagged(y)'
    BY <1>4 DEF Tagged
  <2>4. QED
    BY <2>2, <2>3
<1>11. ASSUME NEW v \in Pieces \ {x}
       PROVE  Tagged(v)' /\ Described(v)'
  <2> DEFINE W == {}
  <2>1. ~(v[1] = "hand" /\ v[2] = c)
    BY <1>6, PiecesAre DEF PiecesBy
  <2>2. \A p \in Page \ W : /\ mf_olkty'[p] = mf_olkty[p]
                            /\ md_odlink'[p] = md_odlink[p]
                            /\ mf_uindx'[p] = mf_uindx[p]
    BY <1>3
  <2>3. \A p \in W : ~(v[3] <= p /\ p <= Last(v))
    BY DEF W
  <2> HIDE DEF W
  <2>4. QED
    BY <1>6, <2>1, <2>2, <2>3, OthersKept
<1>12. ASSUME NEW d \in Caller
       PROVE  CallOk(d)'
  <2>1. CASE d = c
    BY <2>1, <1>6 DEF CallOk
  <2>2. CASE d # c
    BY <2>2, <1>3, <1>6, CallOkOther
  <2>3. QED
    BY <2>1, <2>2
<1>13. Counted' /\ NoFreeNeighbours' /\ ~died'
  BY <1>3 DEF IInv, Counted, NoFreeNeighbours
<1>14. QED
  BY <1>7, <1>8, <1>9, <1>10, <1>11, <1>12, <1>13 DEF IInv

(* A run that is handed back is in use, by this caller alone.              *)
Started(c, s, i, a, e) ==
  /\ <<"hand", c, s, i>> \in Pieces /\ s \in Page /\ i \in Order /\ a \in Area
  /\ a = mf_marty[s] /\ call[c].pc = "check" /\ ma_lock[a] = Nobody
  /\ call[c].ask = af_oderpnr[i] /\ e = End(s, i) /\ s <= e /\ e \in Page
  /\ \A p \in Page : s < p /\ p < e => mf_uindx[p] = 0
  /\ mf_uindx' = [mf_uindx EXCEPT ![s] = 0, ![e] = 0]
  /\ mf_olkty' = [mf_olkty EXCEPT ![s] = "ODER", ![e] = "BAFH"]
  /\ md_odlink' = [md_odlink EXCEPT ![s] = e, ![e] = i]
  /\ call' = [call EXCEPT ![c].pc = "merge", ![c].odr = i]
  /\ ma_lock' = [ma_lock EXCEPT ![a] = c]
  /\ UNCHANGED <<lists, counts, held, died>>

(* What MergeStart does to a run in use: it is always freed.               *)
LEMMA StartFacts ==
  ASSUME IInv, NEW c \in Caller, MergeStart(c),
         NEW s, s = call[c].msa, NEW i, i = call[c].odr, NEW a, a = AreaOf(c),
         NEW e, e = md_odlink[s]
  PROVE  Started(c, s, i, a, e)
<1> DEFINE x == <<"hand", c, s, i>>
           n == call[c].ask
           k == FreeList(a, n)
<1>1. /\ call[c].pc = "check" /\ ma_lock[a] = Nobody
      /\ IF af_oderpnr[k] # n /\ a # PROC
           THEN call' = [call EXCEPT ![c] = Idle]
                /\ UNCHANGED <<lists, counts, links, mf_uindx, ma_lock, held, died>>
         ELSE IF af_oderpnr[k] = n /\ RunIsUsed(s, e, n)
           THEN DropUse(c, s, e, k) /\ UNCHANGED <<lists, counts, held, died>>
         ELSE SystemError
  BY DEF MergeStart
<1>2. TInv
  BY DEF IInv
<1>3. HasBlock(c)
  BY <1>1 DEF HasBlock
<1>4. /\ x \in Pieces /\ s \in Page /\ i \in Order /\ a \in Area /\ a = mf_marty[s]
      /\ n = af_oderpnr[i]
  BY <1>1, <1>3, HandFacts DEF AreaOf, CallOk
<1>5. /\ Described(x) /\ Tagged(x) /\ Last(x) \in Page /\ s <= Last(x)
      /\ Last(x) = s + af_oderpnr[i] - 1
      /\ s \in Int /\ Last(x) \in Int
      /\ IsUsed(x)
  BY <1>1, <1>4, PieceFacts DEF IsUsed
<1>6. /\ Linked(s, e) /\ e = Last(x) /\ mf_uindx[s] = 1 /\ mf_uindx[e] = 1
      /\ \A p \in Page : s < p /\ p < e => mf_uindx[p] = 0
  <2>1. Linked(s, Last(x)) /\ mf_uindx[s] = 1 /\ mf_uindx[Last(x)] = 1
    BY <1>5 DEF Described
  <2>2. e = Last(x)
    BY <2>1 DEF Linked
  <2>3. QED
    BY <1>5, <2>1, <2>2 DEF Described
<1>7. k = i
  <2>1. a = PROC => i = 0
    BY <1>4, <1>5 DEF Tagged
  <2>2. DivOder(n) = i
    BY <1>4, DivOderExact
  <2>3. QED
    BY <2>1, <2>2 DEF FreeList
<1>8. RunIsUsed(s, e, n) /\ af_oderpnr[k] = n
  <2>1. e - s + 1 = n
    BY <1>4, <1>5, <1>6, OderFacts
  <2>2. QED
    BY <1>4, <1>6, <1>7, <2>1 DEF RunIsUsed, Linked
<1>9. DropUse(c, s, e, i) /\ UNCHANGED <<lists, counts, held, died>>
  BY <1>1, <1>7, <1>8
<1>10. ~(mf_uindx[s] > 1) /\ mf_uindx[s] - 1 = 0
  BY <1>6
<1>11. /\ mf_uindx' = [mf_uindx EXCEPT ![s] = 0, ![e] = 0]
       /\ mf_olkty' = [mf_olkty EXCEPT ![s] = "ODER", ![e] = "BAFH"]
       /\ md_odlink' = [md_odlink EXCEPT ![s] = e, ![e] = i]
       /\ call' = [call EXCEPT ![c].pc = "merge", ![c].odr = i]
       /\ ma_lock' = [ma_lock EXCEPT ![a] = c]
  BY <1>9, <1>10 DEF DropUse, Lock
<1>12. QED
  BY <1>1, <1>4, <1>5, <1>6, <1>9, <1>11 DEF Last, Started

(* The last user of a run has its lock. *)
LEMMA StartStep ==
  ASSUME IInv, NEW c \in Caller, MergeStart(c),
         NEW s, s = call[c].msa, NEW i, i = call[c].odr, NEW a, a = AreaOf(c),
         NEW e, e = md_odlink[s]
  PROVE  IInv'
<1> DEFINE x == <<"hand", c, s, i>>
<1>0. Started(c, s, i, a, e)
  BY StartFacts
<1>1. call[c].pc = "check" /\ ma_lock[a] = Nobody
  BY <1>0 DEF Started
<1>2. TInv
  BY DEF IInv
<1>3. HasBlock(c)
  BY <1>1 DEF HasBlock
<1>4. x \in Pieces /\ s \in Page /\ i \in Order /\ a \in Area /\ a = mf_marty[s]
  BY <1>0 DEF Started
<1>5. /\ Tagged(x) /\ Last(x) \in Page /\ s <= Last(x)
      /\ s \in Int /\ Last(x) \in Int
  BY <1>4, PieceFacts
<1>6. /\ e = Last(x)
      /\ \A p \in Page : s < p /\ p < e => mf_uindx[p] = 0
  BY <1>0 DEF Started, Last
<1>10. /\ mf_uindx' = [mf_uindx EXCEPT ![s] = 0, ![e] = 0]
       /\ mf_olkty' = [mf_olkty EXCEPT ![s] = "ODER", ![e] = "BAFH"]
       /\ md_odlink' = [md_odlink EXCEPT ![s] = e, ![e] = i]
       /\ call' = [call EXCEPT ![c].pc = "merge", ![c].odr = i]
       /\ ma_lock' = [ma_lock EXCEPT ![a] = c]
       /\ af_frelst' = af_frelst /\ af_fobjnr' = af_fobjnr /\ died' = died /\ held' = held
  BY <1>0 DEF Started, lists
<1>11. /\ call' \in [Caller -> Call]
       /\ call'[c].pc = "merge" /\ call'[c].msa = s /\ call'[c].odr = i
       /\ \A d \in Caller : d # c => call'[d] = call[d]
       /\ HasBlock(c)'
  BY <1>2, <1>4, <1>10 DEF TInv, Call, Pc, HasBlock
<1>12. /\ ma_lock' \in [Area -> Caller \cup {Nobody}] /\ ma_lock'[a] = c
       /\ \A b \in Area : b # a => ma_lock'[b] = ma_lock[b]
  BY <1>2, <1>4, <1>10 DEF TInv
<1>13. e \in Page /\ e \in Int /\ i \in Int
  BY <1>4, <1>5, <1>6, OderFacts
<1>14. /\ mf_uindx' \in [Page -> Nat] /\ mf_uindx'[s] = 0 /\ mf_uindx'[e] = 0
       /\ mf_olkty' \in [Page -> {"INIT", "ODER", "BAFH"}] /\ mf_olkty'[e] = "BAFH"
       /\ s # e => mf_olkty'[s] = "ODER" /\ md_odlink'[s] = e
       /\ md_odlink' \in [Page -> Int] /\ md_odlink'[e] = i
       /\ \A p \in Page : p \notin {s, e} =>
            /\ mf_uindx'[p] = mf_uindx[p]
            /\ mf_olkty'[p] = mf_olkty[p] /\ md_odlink'[p] = md_odlink[p]
  BY <1>2, <1>4, <1>10, <1>13 DEF TInv
<1>15. TInv'
  BY <1>2, <1>10, <1>11, <1>12, <1>14 DEF TInv
<1>16. \A v : v \in Pieces' <=> v \in Pieces
  <2>1. ASSUME NEW v
        PROVE  (\E d \in Caller : HasBlock(d)' /\ v = <<"hand", d, call'[d].msa, call'[d].odr>>)
                <=> \E d \in Caller :
                         HasBlock(d) /\ v = <<"hand", d, call[d].msa, call[d].odr>>
    BY <1>3, <1>11 DEF HasBlock
  <2>2. \A v : v \in Pieces' <=>
          \/ \E b \in Area, j \in Order, t \in Page :
               t \in af_frelst[b][j] /\ v = <<"free", b, t, j>>
          \/ \E r \in held : v = <<"held", Nobody, r[1], r[2]>>
          \/ \E d \in Caller : HasBlock(d)' /\ v = <<"hand", d, call'[d].msa, call'[d].odr>>
    BY <1>10, PiecesNext DEF PiecesBy
  <2>3. QED
    BY <2>1, <2>2, PiecesAre DEF PiecesBy
<1>17. Tiles(Pieces)'
  BY <1>16 DEF IInv, Tiles, Within, Last, Managed
<1>18. Tagged(x)' /\ Described(x)'
  <2>1. ~IsUsed(x)' /\ ~IsCut(x)' /\ Last(x) = e /\ x[3] = s /\ x[4] = i
    BY <1>6, <1>11 DEF IsUsed, IsCut
  <2>2. \A p \in Page : s < p /\ p < e => mf_uindx'[p] = 0
    <3>1. \A p \in Page : s < p /\ p < e => p \notin {s, e}
      BY <1>5, <1>13, PageFacts
    <3>2. QED
      BY <1>6, <1>14, <3>1
  <2>3. Unused(s, e)' /\ OnBafh(e, i)' /\ (s # e => Linked(s, e)')
    BY <1>14 DEF Unused, OnBafh, Linked
  <2>4. Last(x)' = e
    BY <2>1 DEF Last
  <2>5. Described(x)'
    <3> HIDE DEF x
    <3>1. QED
      BY <2>1, <2>2, <2>3, <2>4 DEF Described
  <2>6. Tagged(x)'
    BY <1>5 DEF Tagged
  <2>7. QED
    BY <2>5, <2>6
<1>19. ASSUME NEW v \in Pieces \ {x}
       PROVE  Tagged(v)' /\ Described(v)'
  <2> DEFINE W == {s, e}
  <2>1. ~(v[1] = "hand" /\ v[2] = c)
    BY PiecesAre DEF PiecesBy
  <2>2. \A p \in Page \ W : /\ mf_olkty'[p] = mf_olkty[p]
                            /\ md_odlink'[p] = md_odlink[p]
                            /\ mf_uindx'[p] = mf_uindx[p]
    BY <1>14
  <2>3. \A p \in W : ~(v[3] <= p /\ p <= Last(v))
    <3>1. \A p \in Int : s <= p /\ p <= Last(x) => ~(v[3] <= p /\ p <= Last(v))
      BY <1>4, PiecesApart
    <3>2. QED
      BY <1>5, <1>6, <3>1
  <2> HIDE DEF W
  <2>4. QED
    BY <1>11, <2>1, <2>2, <2>3, OthersKept
<1>20. ASSUME NEW d \in Caller
       PROVE  CallOk(d)'
  <2>1. CASE d = c
    BY <2>1, <1>4, <1>11, <1>12 DEF CallOk, AreaOf
  <2>2. CASE d # c
    <3>1. call[d].pc \in {"div", "merge"} => ma_lock'[AreaOf(d)] = ma_lock[AreaOf(d)]
      BY <1>1, <1>12, LockFacts
    <3>2. QED
      BY <2>2, <1>10, <1>11, <3>1, CallOkOther
  <2>3. QED
    BY <2>1, <2>2
<1>21. Counted' /\ NoFreeNeighbours' /\ ~died'
  BY <1>10 DEF IInv, Counted, NoFreeNeighbours
<1>22. QED
  BY <1>15, <1>16, <1>17, <1>18, <1>19, <1>20, <1>21 DEF IInv

(* A free block of an area's list follows, or comes before, the block in   *)
(* hand.                                                                   *)
LEMMA NeighbourFacts ==
  ASSUME IInv, NEW c \in Caller, call[c].pc = "merge",
         NEW s, s = call[c].msa, NEW i, i = call[c].odr, NEW a, a = AreaOf(c),
         NEW t \in Neighbours(c)
  PROVE  /\ t \in af_frelst[a][i] /\ a # PROC /\ i < LMAX - 1
         /\ (s < t /\ Follows(s, t, i)) \/ (t < s /\ Follows(t, s, i))
<1>1. /\ <<"hand", c, s, i>> \in Pieces /\ s \in Page /\ i \in Order /\ a \in Area
  BY HandFacts DEF HasBlock
<1>2. /\ i < TopOrder(a) /\ t \in af_frelst[a][i]
      /\ Follows(s, t, i) \/ Follows(t, s, i)
  BY DEF Neighbours, Visited
<1>3. a # PROC /\ i < LMAX - 1
  BY <1>1, <1>2, OderFacts DEF TopOrder
<1>4. t \in Page
  BY <1>1, <1>2, FreeFacts
<1>5. Follows(s, t, i) => s < t
  BY <1>1, <1>4, EndInt DEF Follows
<1>6. Follows(t, s, i) => t < s
  BY <1>1, <1>4, EndInt DEF Follows
<1>7. QED
  BY <1>2, <1>3, <1>5, <1>6

(* The block in hand is joined with the free block t; f is the first of    *)
(* the two and g the second.                                               *)
LEMMA JoinCore ==
  ASSUME IInv, NEW c \in Caller, call[c].pc = "merge",
         NEW s, s = call[c].msa, NEW i, i = call[c].odr, NEW a, a = AreaOf(c),
         NEW t \in af_frelst[a][i], a # PROC, i < LMAX - 1,
         NEW f, NEW g, (f = s /\ g = t) \/ (f = t /\ g = s), Follows(f, g, i),
         Removed(a, i, t), ClearLinks(f, g, i),
         call' = [call EXCEPT ![c].msa = f, ![c].odr = i + 1],
         UNCHANGED <<mf_uindx, ma_lock, held, died>>
  PROVE  IInv'
<1> DEFINE x == <<"hand", c, s, i>>
           y == <<"free", a, t, i>>
           z == <<"hand", c, f, i + 1>>
           m == End(f, i)
           e == End(g, i)
<1>1. TInv
  BY DEF IInv
<1>2. HasBlock(c)
  BY DEF HasBlock
<1>3. /\ x \in Pieces /\ s \in Page /\ i \in Order /\ a \in Area /\ a = mf_marty[s]
      /\ ma_lock[a] = c
  BY <1>2, HandFacts, LockFacts DEF AreaOf
<1>4. y \in Pieces /\ t \in Page /\ mf_marty[t] = a
  BY <1>3, FreeFacts
<1>5. /\ Described(x) /\ Within(x) /\ Last(x) = End(s, i) /\ ~IsUsed(x) /\ ~IsCut(x)
      /\ Described(y) /\ Within(y) /\ Last(y) = End(t, i) /\ ~IsUsed(y) /\ ~IsCut(y)
  BY <1>3, <1>4 DEF IInv, Tiles, IsUsed, IsCut, Last
<1>6. /\ f \in Page /\ g \in Page /\ m \in Page /\ e \in Page
      /\ mf_marty[f] = a /\ mf_marty[g] = a
      /\ InArea(a, f, i) /\ InArea(a, g, i) /\ Continuous(f, i) /\ Continuous(g, i)
  BY <1>3, <1>4, <1>5 DEF Within, InArea
<1>7. i + 1 \in Order
  BY <1>3, OderFacts
<1>8. /\ f < g /\ m < g /\ End(f, i + 1) = e /\ g <= e /\ f <= m /\ m + 1 = g
      /\ f \in Int /\ g \in Int /\ m \in Int /\ e \in Int
  <2>1. /\ f < g /\ m < g /\ End(f, i + 1) = e /\ g <= e /\ f <= m
    BY <1>3, <1>6, <1>7, Joined
  <2>2. QED
    BY <2>1, <1>3, <1>6, EndInt DEF Follows
<1>9. \A p \in Page : f <= p /\ p <= e => mf_uindx[p] = 0
  <2>1. /\ mf_uindx[s] = 0 /\ mf_uindx[End(s, i)] = 0
        /\ \A p \in Page : s < p /\ p < End(s, i) => mf_uindx[p] = 0
    BY <1>5 DEF Described, Unused
  <2>2. /\ mf_uindx[t] = 0 /\ mf_uindx[End(t, i)] = 0
        /\ \A p \in Page : t < p /\ p < End(t, i) => mf_uindx[p] = 0
    BY <1>5 DEF Described, Unused
  <2>3. /\ mf_uindx[f] = 0 /\ mf_uindx[m] = 0 /\ mf_uindx[g] = 0 /\ mf_uindx[e] = 0
        /\ \A p \in Page : (f < p /\ p < m) \/ (g < p /\ p < e) => mf_uindx[p] = 0
    BY <2>1, <2>2
  <2>4. \A p \in Page : f <= p /\ p <= e =>
          p \in {f, m, g, e} \/ (f < p /\ p < m) \/ (g < p /\ p < e)
    BY <1>8, PageFacts
  <2>5. QED
    BY <2>3, <2>4
<1> HIDE DEF m, e
<1>10. /\ mf_olkty' = [mf_olkty EXCEPT ![m] = "INIT", ![g] = "INIT",
                                       ![f] = "ODER", ![e] = "BAFH"]
       /\ md_odlink' = [md_odlink EXCEPT ![m] = NoLink, ![g] = NoLink,
                                         ![f] = e, ![e] = i + 1]
  BY DEF ClearLinks, m, e
<1>11. /\ mf_olkty' \in [Page -> {"INIT", "ODER", "BAFH"}]
       /\ md_odlink' \in [Page -> Int]
       /\ mf_olkty'[f] = "ODER" /\ md_odlink'[f] = e
       /\ mf_olkty'[e] = "BAFH" /\ md_odlink'[e] = i + 1
       /\ \A p \in Page : p \notin {f, m, g, e} =>
            mf_olkty'[p] = mf_olkty[p] /\ md_odlink'[p] = md_odlink[p]
  <2>1. f # e /\ NoLink \in Int /\ i + 1 \in Int
    BY <1>3, <1>8, OderFacts DEF NoLink
  <2>2. QED
    BY <1>1, <1>6, <1>8, <1>10, <2>1 DEF TInv
<1>12. /\ call' \in [Caller -> Call]
       /\ call'[c].pc = "merge" /\ call'[c].msa = f /\ call'[c].odr = i + 1
       /\ \A d \in Caller : d # c => call'[d] = call[d]
       /\ HasBlock(c)'
  BY <1>1, <1>6, <1>7 DEF TInv, Call, Pc, HasBlock
<1>13. /\ Counted' /\ NoFreeNeighbours'
       /\ af_frelst' \in [Area -> [Order -> SUBSET Page]]
       /\ af_fobjnr' \in [Area -> [Order -> Nat]]
       /\ \A b \in Area, j \in Order : \A q : q \in af_frelst'[b][j]
            <=> q \in af_frelst[b][j] /\ ~(b = a /\ j = i /\ q = t)
  BY <1>3, CountedRemove
<1>14. mf_uindx' = mf_uindx /\ ma_lock' = ma_lock /\ held' = held /\ died' = died
  OBVIOUS
<1>15. TInv'
  BY <1>1, <1>11, <1>12, <1>13, <1>14 DEF TInv
<1>16. \A v : v \in Pieces' <=> v \in (Pieces \ {x, y}) \cup {z}
  <2>1. SUFFICES ASSUME NEW v
                 PROVE  v \in Pieces' <=> v \in (Pieces \ {x, y}) \cup {z}
    OBVIOUS
  <2> DEFINE F == \E b \in Area, j \in Order, q \in Page :
                    q \in af_frelst[b][j] /\ v = <<"free", b, q, j>>
             G == \E b \in Area, j \in Order, q \in Page :
                    q \in af_frelst'[b][j] /\ v = <<"free", b, q, j>>
             H == \E r \in held : v = <<"held", Nobody, r[1], r[2]>>
             C == \E d \in Caller : HasBlock(d) /\ v = <<"hand", d, call[d].msa, call[d].odr>>
             D == \E d \in Caller : HasBlock(d)' /\ v = <<"hand", d, call'[d].msa, call'[d].odr>>
  <2>2. v \in Pieces <=> F \/ H \/ C
    BY PiecesAre DEF PiecesBy
  <2>3. v \in Pieces' <=> G \/ H \/ D
    BY <1>14, PiecesNext DEF PiecesBy
  <2>4. G <=> F /\ v # y
    BY <1>13
  <2>5. D <=> v = z \/ (C /\ v # x)
    BY <1>2, <1>12 DEF HasBlock
  <2>6. (F => v # x) /\ (H => v # x) /\ (H => v # y) /\ (C => v # y)
    OBVIOUS
  <2> HIDE DEF F, G, H, C, D, x, y, z
  <2>7. QED
    BY <2>2, <2>3, <2>4, <2>5, <2>6
<1>17. Tiles(Pieces)'
  <2>1. Tiles((Pieces \ {x, y}) \cup {z})
    <3>1. Tiles(Pieces)
      BY DEF IInv
    <3>2. CASE f = s /\ g = t
      <4>1. /\ x[4] < LMAX - 1 /\ y[4] = x[4] /\ mf_marty[x[3]] = mf_marty[y[3]]
            /\ Follows(x[3], y[3], x[4]) /\ z[3] = x[3] /\ z[4] = x[4] + 1
        BY <3>2, <1>3, <1>4
      <4> HIDE DEF x, y, z
      <4>2. QED
        BY <3>1, <4>1, <1>3, <1>4, TilesJoin
    <3>3. CASE f = t /\ g = s
      <4>1. /\ y[4] < LMAX - 1 /\ x[4] = y[4] /\ mf_marty[y[3]] = mf_marty[x[3]]
            /\ Follows(y[3], x[3], y[4]) /\ z[3] = y[3] /\ z[4] = y[4] + 1
        BY <3>3, <1>3, <1>4
      <4> HIDE DEF x, y, z
      <4>2. Tiles((Pieces \ {y, x}) \cup {z})
        BY <3>1, <4>1, <1>3, <1>4, TilesJoin
      <4>3. {y, x} = {x, y}
        OBVIOUS
      <4>4. QED
        BY <4>2, <4>3
    <3>4. QED
      BY <3>2, <3>3
  <2>2. QED
    BY <2>1, <1>16 DEF Tiles, Within, Last, Managed
<1>18. Tagged(z)' /\ Described(z)'
  <2>1. ~IsUsed(z)' /\ ~IsCut(z)' /\ z[3] = f /\ z[4] = i + 1
    BY <1>12 DEF IsUsed, IsCut
  <2>2. Last(z)' = e
    BY <1>8 DEF Last
  <2>3. \A p \in Page : f <= p /\ p <= e => mf_uindx'[p] = 0
    BY <1>9, <1>14
  <2>4. Unused(f, e)' /\ OnBafh(e, i + 1)' /\ Linked(f, e)'
    BY <1>6, <1>8, <1>11, <2>3 DEF Unused, OnBafh, Linked, e
  <2>5. \A p \in Page : f < p /\ p < e => mf_uindx'[p] = 0
    BY <1>8, <2>3, PageFacts
  <2>6. Described(z)'
    <3> HIDE DEF z
    <3>1. QED
      BY <2>1, <2>2, <2>4, <2>5 DEF Described
  <2>7. Tagged(z)'
    BY <1>6, <2>1 DEF Tagged
  <2>8. QED
    BY <2>6, <2>7
<1>19. ASSUME NEW v \in Pieces \ {x, y}
       PROVE  Tagged(v)' /\ Described(v)'
  <2> DEFINE W == {f, m, g, e}
  <2>1. ~(v[1] = "hand" /\ v[2] = c)
    BY PiecesAre DEF PiecesBy
  <2>2. \A p \in Page \ W : /\ mf_olkty'[p] = mf_olkty[p]
                            /\ md_odlink'[p] = md_odlink[p]
                            /\ mf_uindx'[p] = mf_uindx[p]
    BY <1>11, <1>14
  <2>3. \A p \in W : ~(v[3] <= p /\ p <= Last(v))
    <3>1. /\ \A p \in Int : s <= p /\ p <= End(s, i) => ~(v[3] <= p /\ p <= Last(v))
          /\ \A p \in Int : t <= p /\ p <= End(t, i) => ~(v[3] <= p /\ p <= Last(v))
      BY <1>3, <1>4, <1>5, PiecesApart
    <3>2. /\ \A p \in Int : f <= p /\ p <= m => ~(v[3] <= p /\ p <= Last(v))
          /\ \A p \in Int : g <= p /\ p <= e => ~(v[3] <= p /\ p <= Last(v))
      BY <3>1 DEF m, e
    <3>3. QED
      BY <1>8, <3>2
  <2> HIDE DEF W
  <2>4. QED
    BY <1>12, <2>1, <2>2, <2>3, OthersKept
<1>20. ASSUME NEW d \in Caller
       PROVE  CallOk(d)'
  <2>1. CASE d = c
    BY <2>1, <1>3, <1>6, <1>12, <1>14 DEF CallOk, AreaOf
  <2>2. CASE d # c
    <3>1. call[d].pc = "div" =>
            \A j \in Order : af_frelst'[AreaOf(d)][j] \subseteq af_frelst[AreaOf(d)][j]
      BY <1>13, LockFacts
    <3>2. QED
      BY <2>2, <1>12, <1>14, <3>1, CallOkOther
  <2>3. QED
    BY <2>1, <2>2
<1>21. ~died'
  BY <1>14 DEF IInv
<1>22. QED
  BY <1>13, <1>15, <1>16, <1>17, <1>18, <1>19, <1>20, <1>21 DEF IInv

(* MergeJoin keeps the invariant.                                          *)
LEMMA JoinStep ==
  ASSUME IInv, NEW c \in Caller, MergeJoin(c)
  PROVE  IInv'
<1>1. PICK s, i, a : s = call[c].msa /\ i = call[c].odr /\ a = AreaOf(c)
  OBVIOUS
<1>2. call[c].pc = "merge"
  BY DEF MergeJoin
<1>3. PICK t \in Neighbours(c) :
        /\ Removed(a, i, t)
        /\ IF s < t THEN ClearLinks(s, t, i) ELSE ClearLinks(t, s, i)
        /\ call' = [call EXCEPT ![c].msa = IF s < t THEN s ELSE t, ![c].odr = i + 1]
        /\ UNCHANGED <<counts, mf_uindx, ma_lock, held, died>>
  BY <1>1 DEF MergeJoin, Removed
<1>4. /\ t \in af_frelst[a][i] /\ a # PROC /\ i < LMAX - 1
      /\ (s < t /\ Follows(s, t, i)) \/ (t < s /\ Follows(t, s, i))
  BY <1>1, <1>2, <1>3, NeighbourFacts
<1>5. s \in Int /\ t \in Int
  BY <1>1, <1>2, <1>4, HandFacts, FreeFacts, PageFacts DEF HasBlock
<1>6. CASE s < t /\ Follows(s, t, i)
  BY <1>1, <1>2, <1>3, <1>4, <1>6, JoinCore
<1>7. CASE t < s /\ Follows(t, s, i)
  <2>1. ~(s < t)
    BY <1>5, <1>7
  <2>2. QED
    BY <1>1, <1>2, <1>3, <1>4, <1>7, <2>1, JoinCore
<1>8. QED
  BY <1>4, <1>6, <1>7

(* The walk over a list finds nothing wrong.                               *)
LEMMA ListOk ==
  ASSUME IInv, NEW c \in Caller, call[c].pc = "merge"
  PROVE  ListIsOk(c)
<1> DEFINE s == call[c].msa
           i == call[c].odr
           a == AreaOf(c)
<1>1. <<"hand", c, s, i>> \in Pieces /\ s \in Page /\ i \in Order /\ a \in Area
  BY HandFacts DEF HasBlock
<1>2. ASSUME NEW x \in Pieces, ~IsUsed(x), ~IsCut(x)
      PROVE  BlockIsOk(x[3], x[4])
  BY <1>2, PieceFacts DEF Described, BlockIsOk, Last, OnBafh, Linked
<1>3. BlockIsOk(s, i)
  <2>1. ~IsUsed(<<"hand", c, s, i>>) /\ ~IsCut(<<"hand", c, s, i>>)
    BY DEF IsUsed, IsCut
  <2>2. QED
    BY <1>1, <1>2, <2>1
<1>4. ASSUME NEW t \in af_frelst[a][i]
      PROVE  BlockIsOk(t, i)
  <2>1. ~IsUsed(<<"free", a, t, i>>) /\ ~IsCut(<<"free", a, t, i>>)
    BY DEF IsUsed, IsCut
  <2>2. <<"free", a, t, i>> \in Pieces
    BY <1>1, FreeFacts
  <2>3. QED
    BY <1>2, <2>1, <2>2
<1>5. Visited(c) \subseteq af_frelst[a][i]
  BY DEF Visited
<1>6. QED
  BY <1>3, <1>4, <1>5 DEF ListIsOk

(* The block in hand has no neighbour left and goes to its list.           *)
LEMMA PutStep ==
  ASSUME IInv, NEW c \in Caller, MergeDone(c),
         NEW s, s = call[c].msa, NEW i, i = call[c].odr, NEW a, a = AreaOf(c)
  PROVE  IInv'
<1> DEFINE e == End(s, i)
           x == <<"hand", c, s, i>>
           y == <<"free", a, s, i>>
<1>1. /\ call[c].pc = "merge" /\ (ListIsOk(c) => Neighbours(c) = {})
      /\ IF ListIsOk(c)
           THEN /\ mf_olkty' = [mf_olkty EXCEPT ![s] = "ODER", ![e] = "BAFH"]
                /\ md_odlink' = [md_odlink EXCEPT ![s] = e, ![e] = i]
                /\ Added(a, i, s)
                /\ ma_lock' = [ma_lock EXCEPT ![a] = Nobody]
                /\ call' = [call EXCEPT ![c] = Idle]
                /\ UNCHANGED <<mf_uindx, held, died>>
           ELSE SystemError
  BY DEF MergeDone, Unlock, Added
<1>2. TInv
  BY DEF IInv
<1>3. HasBlock(c)
  BY <1>1 DEF HasBlock
<1>4. /\ x \in Pieces /\ s \in Page /\ i \in Order /\ a \in Area /\ a = mf_marty[s]
      /\ ma_lock[a] = c
  BY <1>1, <1>3, HandFacts, LockFacts DEF AreaOf
<1>5. /\ Described(x) /\ Tagged(x) /\ e \in Page /\ s <= e /\ Last(x) = e
      /\ s \in Int /\ e \in Int /\ i \in Int
      /\ ~IsCut(x) /\ ~IsUsed(x)
  BY <1>1, <1>4, PieceFacts, OderFacts DEF IsCut, IsUsed, Last
<1>6. /\ Unused(s, e)
      /\ \A p \in Page : s < p /\ p < e => mf_uindx[p] = 0
  BY <1>5 DEF Described
<1>7. Neighbours(c) = {}
  BY <1>1, ListOk
<1>8. /\ mf_olkty' = [mf_olkty EXCEPT ![s] = "ODER", ![e] = "BAFH"]
      /\ md_odlink' = [md_odlink EXCEPT ![s] = e, ![e] = i]
      /\ Added(a, i, s)
      /\ ma_lock' = [ma_lock EXCEPT ![a] = Nobody]
      /\ call' = [call EXCEPT ![c] = Idle]
      /\ mf_uindx' = mf_uindx /\ held' = held /\ died' = died
  BY <1>1, ListOk
<1> HIDE DEF e
<1>9. s \notin af_frelst[a][i]
  <2>1. SUFFICES ASSUME s \in af_frelst[a][i] PROVE FALSE
    OBVIOUS
  <2>2. y \in Pieces
    BY <2>1, <1>4, FreeFacts
  <2>3. x # y /\ x[3] = y[3]
    OBVIOUS
  <2> HIDE DEF x, y
  <2>4. QED
    BY <2>2, <2>3, <1>4, PiecesApart
<1>10. a # PROC /\ i < LMAX - 1 =>
         \A t \in af_frelst[a][i] : ~Follows(s, t, i) /\ ~Follows(t, s, i)
  <2>1. SUFFICES ASSUME a # PROC, i < LMAX - 1, NEW t \in af_frelst[a][i]
                 PROVE  ~Follows(s, t, i) /\ ~Follows(t, s, i)
    OBVIOUS
  <2>2. af_fobjnr[a][i] > 0
    BY <2>1, <1>4, Finite
  <2>3. t \in Visited(c)
    BY <2>1, <2>2 DEF Visited, TopOrder
  <2>4. QED
    BY <2>3, <1>7 DEF Neighbours
<1>11. /\ Counted' /\ NoFreeNeighbours'
       /\ af_frelst' \in [Area -> [Order -> SUBSET Page]]
       /\ af_fobjnr' \in [Area -> [Order -> Nat]]
       /\ \A b \in Area, j \in Order : \A t : t \in af_frelst'[b][j]
            <=> t \in af_frelst[b][j] \/ (b = a /\ j = i /\ t = s)
  <2>1. a \in Area /\ i \in Order /\ s \in Page /\ Added(a, i, s)
    BY <1>4, <1>8
  <2>2. QED
    BY <2>1, <1>9, <1>10, CountedAdd
<1>12. /\ call' \in [Caller -> Call] /\ call'[c].pc = "idle" /\ ~HasBlock(c)'
       /\ \A d \in Caller : d # c => call'[d] = call[d]
       /\ ma_lock' \in [Area -> Caller \cup {Nobody}]
       /\ \A b \in Area : b # a => ma_lock'[b] = ma_lock[b]
  BY <1>2, <1>4, <1>8, OderFacts DEF TInv, Call, Pc, Idle, HasBlock
<1>13. /\ mf_olkty' \in [Page -> {"INIT", "ODER", "BAFH"}] /\ mf_olkty'[e] = "BAFH"
       /\ s # e => mf_olkty'[s] = "ODER" /\ md_odlink'[s] = e
       /\ md_odlink' \in [Page -> Int] /\ md_odlink'[e] = i
       /\ \A p \in Page : p \notin {s, e} =>
            mf_olkty'[p] = mf_olkty[p] /\ md_odlink'[p] = md_odlink[p]
  BY <1>2, <1>4, <1>5, <1>8 DEF TInv
<1>14. TInv'
  BY <1>2, <1>8, <1>11, <1>12, <1>13 DEF TInv
<1>15. \A v : v \in Pieces' <=> v \in (Pieces \ {x}) \cup {y}
  <2>1. SUFFICES ASSUME NEW v
                 PROVE  v \in Pieces' <=> v \in (Pieces \ {x}) \cup {y}
    OBVIOUS
  <2> DEFINE F == \E b \in Area, j \in Order, q \in Page :
                    q \in af_frelst[b][j] /\ v = <<"free", b, q, j>>
             G == \E b \in Area, j \in Order, q \in Page :
                    q \in af_frelst'[b][j] /\ v = <<"free", b, q, j>>
             H == \E r \in held : v = <<"held", Nobody, r[1], r[2]>>
             C == \E d \in Caller : HasBlock(d) /\ v = <<"hand", d, call[d].msa, call[d].odr>>
             D == \E d \in Caller : HasBlock(d)' /\ v = <<"hand", d, call'[d].msa, call'[d].odr>>
  <2>2. v \in Pieces <=> F \/ H \/ C
    BY PiecesAre DEF PiecesBy
  <2>3. v \in Pieces' <=> G \/ H \/ D
    BY <1>8, PiecesNext DEF PiecesBy
  <2>4. G <=> F \/ v = y
    BY <1>4, <1>11
  <2>5. D <=> C /\ v # x
    BY <1>3, <1>12 DEF HasBlock
  <2>6. (F => v # x) /\ (H => v # x)
    OBVIOUS
  <2>7. x # y
    OBVIOUS
  <2> HIDE DEF F, G, H, C, D, x, y
  <2>8. QED
    BY <2>2, <2>3, <2>4, <2>5, <2>6, <2>7
<1>16. Tiles(Pieces)'
  <2>1. Tiles((Pieces \ {x}) \cup {y})
    BY <1>4, TilesMove DEF IInv
  <2>2. QED
    BY <2>1, <1>15 DEF Tiles, Within, Last, Managed
<1>17. Tagged(y)' /\ Described(y)'
  <2>1. ~IsUsed(y)' /\ ~IsCut(y)' /\ y[3] = s /\ y[4] = i
    BY DEF IsUsed, IsCut
  <2>2. Last(y)' = e
    BY DEF Last, e
  <2>3. Unused(s, e)' /\ OnBafh(e, i)' /\ (s # e => Linked(s, e)')
    BY <1>6, <1>8, <1>13 DEF Unused, OnBafh, Linked, e
  <2>4. \A p \in Page : s < p /\ p < e => mf_uindx'[p] = 0
    BY <1>6, <1>8
  <2>5. Described(y)'
    <3> HIDE DEF y
    <3>1. QED
      BY <2>1, <2>2, <2>3, <2>4 DEF Described
  <2>6. Tagged(y)'
    BY <1>4, <1>5 DEF Tagged
  <2>7. QED
    BY <2>5, <2>6
<1>18. ASSUME NEW v \in Pieces \ {x}
       PROVE  Tagged(v)' /\ Described(v)'
  <2> DEFINE W == {s, e}
  <2>1. ~(v[1] = "hand" /\ v[2] = c)
    BY PiecesAre DEF PiecesBy
  <2>2. \A p \in Page \ W : /\ mf_olkty'[p] = mf_olkty[p]
                            /\ md_odlink'[p] = md_odlink[p]
                            /\ mf_uindx'[p] = mf_uindx[p]
    BY <1>8, <1>13
  <2>3. \A p \in W : ~(v[3] <= p /\ p <= Last(v))
    <3>1. \A p \in Int : s <= p /\ p <= Last(x) => ~(v[3] <= p /\ p <= Last(v))
      BY <1>4, PiecesApart
    <3>2. QED
      BY <1>5, <3>1
  <2> HIDE DEF W
  <2>4. QED
    BY <1>12, <2>1, <2>2, <2>3, OthersKept
<1>19. ASSUME NEW d \in Caller
       PROVE  CallOk(d)'
  <2>1. CASE d = c
    BY <2>1, <1>12 DEF CallOk
  <2>2. CASE d # c
    <3>1. call[d].pc \in {"div", "merge"} =>
            /\ AreaOf(d) \in Area /\ AreaOf(d) # a
            /\ ma_lock'[AreaOf(d)] = ma_lock[AreaOf(d)]
      BY <2>2, <1>4, <1>12, LockFacts
    <3>2. call[d].pc = "div" =>
            \A j \in Order : af_frelst'[AreaOf(d)][j] \subseteq af_frelst[AreaOf(d)][j]
      BY <3>1, <1>11
    <3>3. QED
      BY <2>2, <1>12, <3>1, <3>2, CallOkOther
  <2>3. QED
    BY <2>1, <2>2
<1>20. ~died'
  BY <1>8 DEF IInv
<1>21. QED
  BY <1>11, <1>14, <1>15, <1>16, <1>17, <1>18, <1>19, <1>20 DEF IInv

-----------------------------------------------------------------------------
(* The blocks free at boot.                                                *)

(* A page is the first, or the last, of one block only. *)
LEMMA BootFacts ==
  ASSUME NEW a \in Area, NEW i \in Order, NEW s \in BootBlocks[a][i]
  PROVE  /\ s \in Page /\ End(s, i) \in Page /\ s <= End(s, i)
         /\ s \in Int /\ End(s, i) \in Int
         /\ mf_marty[s] = a /\ InArea(a, s, i) /\ Continuous(s, i)
         /\ BootEnd(End(s, i), i) /\ BootStart(s, i)
         /\ (CHOOSE j \in Order : BootEnd(End(s, i), j)) = i
         /\ (CHOOSE j \in Order : BootStart(s, j)) = i
         /\ s # End(s, i) => \A j \in Order : ~BootEnd(s, j)
<1>1. InArea(a, s, i) /\ Continuous(s, i) /\ s \in Page
  BY BootAssumption
<1>2. /\ End(s, i) \in Page /\ s <= End(s, i)
      /\ s \in Int /\ End(s, i) \in Int
  BY <1>1, EndInt DEF InArea
<1>3. mf_marty[s] = a
  BY <1>1, <1>2 DEF InArea
<1>4. BootEnd(End(s, i), i) /\ BootStart(s, i)
  BY DEF BootEnd, BootStart
<1>5. ASSUME NEW b \in Area, NEW j \in Order, NEW t \in BootBlocks[b][j],
             ~(End(s, i) < t \/ End(t, j) < s)
      PROVE  s = t /\ i = j
  BY <1>5, BootAssumption DEF Apart
<1>6. ASSUME NEW b \in Area, NEW j \in Order, NEW t \in BootBlocks[b][j]
      PROVE  t \in Int /\ End(t, j) \in Int /\ t <= End(t, j)
  BY BootAssumption, EndInt DEF InArea
<1>7. \A j \in Order : BootEnd(End(s, i), j) => j = i
  <2>1. SUFFICES ASSUME NEW j \in Order, NEW b \in Area, NEW t \in BootBlocks[b][j],
                        End(s, i) = End(t, j)
                 PROVE  j = i
    BY DEF BootEnd
  <2>2. ~(End(s, i) < t \/ End(t, j) < s)
    BY <1>2, <1>6, <2>1
  <2>3. QED
    BY <1>5, <2>2
<1>8. \A j \in Order : BootStart(s, j) => j = i
  <2>1. SUFFICES ASSUME NEW j \in Order, NEW b \in Area, s \in BootBlocks[b][j]
                 PROVE  j = i
    BY DEF BootStart
  <2>2. ~(End(s, i) < s \/ End(s, j) < s)
    BY <1>2, <1>6, <2>1
  <2>3. QED
    BY <1>5, <2>1, <2>2
<1>9. ASSUME s # End(s, i), NEW j \in Order, BootEnd(s, j)
      PROVE  FALSE
  <2>1. PICK b \in Area : \E t \in BootBlocks[b][j] : s = End(t, j)
    BY <1>9 DEF BootEnd
  <2>2. PICK t \in BootBlocks[b][j] : s = End(t, j)
    BY <2>1
  <2>3. ~(End(s, i) < t \/ End(t, j) < s)
    BY <1>2, <1>6, <2>2
  <2>4. s = t /\ i = j
    BY <1>5, <2>3
  <2>5. QED
    BY <1>9, <2>2, <2>4
<1>10. (CHOOSE j \in Order : BootEnd(End(s, i), j)) = i
  BY <1>4, <1>7
<1>11. (CHOOSE j \in Order : BootStart(s, j)) = i
  BY <1>4, <1>8
<1>12. QED
  BY <1>1, <1>2, <1>3, <1>4, <1>9, <1>10, <1>11

(* The memory at boot satisfies the invariant.                             *)
LEMMA InitIInv == Init => IInv
<1> SUFFICES ASSUME Init PROVE IInv
  OBVIOUS
<1>1. /\ af_frelst = BootBlocks /\ held = {} /\ ~died
      /\ af_fobjnr = [a \in Area |-> [i \in Order |-> Cardinality(BootBlocks[a][i])]]
      /\ mf_uindx = [p \in Page |-> IF p \in Managed THEN 0 ELSE 1]
      /\ ma_lock = [a \in Area |-> Nobody]
      /\ call = [c \in Caller |-> Idle]
  BY DEF Init
<1>2. /\ BootBlocks \in [Area -> [Order -> SUBSET Page]]
      /\ \A a \in Area, i \in Order : \A s \in BootBlocks[a][i] :
           s \in Page /\ InArea(a, s, i) /\ Continuous(s, i)
  BY BootAssumption
<1>3. \A c \in Caller : call[c].pc = "idle" /\ ~HasBlock(c)
  BY <1>1 DEF Idle, HasBlock
<1>4. mf_olkty = [p \in Page |->
        IF \E i \in Order : BootEnd(p, i) THEN "BAFH"
        ELSE IF \E i \in Order : BootStart(p, i) THEN "ODER" ELSE "INIT"]
  BY DEF Init
<1>5. md_odlink = [p \in Page |->
        IF \E i \in Order : BootEnd(p, i)
          THEN CHOOSE i \in Order : BootEnd(p, i)
        ELSE IF \E i \in Order : BootStart(p, i)
          THEN End(p, CHOOSE i \in Order : BootStart(p, i))
        ELSE NoLink]
  BY DEF Init
<1>6. TInv
  <2>1. \A a \in Area, i \in Order : Cardinality(BootBlocks[a][i]) \in Nat
    <3>1. IsFiniteSet(Page)
      BY FS_Interval, AreaAssumption DEF Page
    <3>2. \A a \in Area, i \in Order : IsFiniteSet(BootBlocks[a][i])
      BY <1>2, <3>1, FS_Subset
    <3>3. QED
      BY <3>2, FS_CardinalityType
  <2>2. md_odlink \in [Page -> Int]
    <3>1. ASSUME NEW p \in Page, \E i \in Order : BootEnd(p, i)
          PROVE  (CHOOSE i \in Order : BootEnd(p, i)) \in Int
      BY <3>1, OderFacts
    <3>2. ASSUME NEW p \in Page, \E i \in Order : BootStart(p, i)
          PROVE  End(p, CHOOSE i \in Order : BootStart(p, i)) \in Int
      <4>1. (CHOOSE i \in Order : BootStart(p, i)) \in Order
        BY <3>2
      <4>2. QED
        BY <4>1, EndInt
    <3>3. NoLink \in Int
      BY DEF NoLink
    <3>4. QED
      BY <1>5, <3>1, <3>2, <3>3
  <2>3. mf_olkty \in [Page -> {"INIT", "ODER", "BAFH"}]
    BY <1>4
  <2>4. call \in [Caller -> Call]
    BY <1>1, OderFacts DEF Idle, Call, Pc
  <2>5. mf_uindx \in [Page -> Nat]
    BY <1>1
  <2>6. af_fobjnr \in [Area -> [Order -> Nat]]
    BY <1>1, <2>1
  <2>7. QED
    BY <1>1, <1>2, <2>2, <2>3, <2>4, <2>5, <2>6 DEF TInv
<1>7. \A x : x \in Pieces <=> \E a \in Area, i \in Order, s \in Page :
               s \in BootBlocks[a][i] /\ x = <<"free", a, s, i>>
  BY <1>1, <1>3, PiecesAre DEF PiecesBy
<1>8. Tiles(Pieces)
  <2>1. ASSUME NEW x \in Pieces
        PROVE  Within(x)
    BY <1>7, BootFacts DEF Within
  <2>2. ASSUME NEW x \in Pieces, NEW y \in Pieces, x # y
        PROVE  Apart(x[3], x[4], y[3], y[4])
    <3>1. PICK a \in Area, i \in Order, s \in Page :
            s \in BootBlocks[a][i] /\ x = <<"free", a, s, i>>
      BY <1>7
    <3>2. PICK b \in Area, j \in Order, t \in Page :
            t \in BootBlocks[b][j] /\ y = <<"free", b, t, j>>
      BY <1>7
    <3>3. <<a, i, s>> # <<b, j, t>>
      BY <2>2, <3>1, <3>2
    <3>4. QED
      BY <3>1, <3>2, <3>3, BootAssumption
  <2>3. ASSUME NEW p \in Page
        PROVE  p \in Managed <=> \E x \in Pieces : x[3] <= p /\ p <= Last(x)
    <3>1. p \in Managed <=> \E a \in Area, i \in Order :
                              \E s \in BootBlocks[a][i] : s <= p /\ p <= End(s, i)
      <4>1. \A a \in Area, i \in Order : \A s \in BootBlocks[a][i] :
              p \in s .. End(s, i) <=> s <= p /\ p <= End(s, i)
        BY PageFacts, BootFacts
      <4>2. QED
        BY <4>1 DEF Managed
    <3>2. \A a \in Area, i \in Order : \A s \in BootBlocks[a][i] :
            <<"free", a, s, i>> \in Pieces /\ Last(<<"free", a, s, i>>) = End(s, i)
      BY <1>2, <1>7 DEF Last
    <3>3. ASSUME NEW x \in Pieces, x[3] <= p, p <= Last(x)
          PROVE  p \in Managed
      <4>1. PICK a \in Area, i \in Order, s \in Page :
              s \in BootBlocks[a][i] /\ x = <<"free", a, s, i>>
        BY <1>7
      <4>2. QED
        BY <3>1, <3>3, <4>1 DEF Last
    <3>4. ASSUME p \in Managed
          PROVE  \E x \in Pieces : x[3] <= p /\ p <= Last(x)
      <4>1. PICK a \in Area, i \in Order : \E s \in BootBlocks[a][i] : s <= p /\ p <= End(s, i)
        BY <3>1, <3>4
      <4>2. PICK s \in BootBlocks[a][i] : s <= p /\ p <= End(s, i)
        BY <4>1
      <4>3. <<"free", a, s, i>> \in Pieces /\ Last(<<"free", a, s, i>>) = End(s, i)
        BY <4>2, <3>2
      <4>4. <<"free", a, s, i>>[3] = s
        OBVIOUS
      <4>5. QED
        BY <4>2, <4>3, <4>4
    <3>5. QED
      BY <3>3, <3>4
  <2>4. QED
    BY <2>1, <2>2, <2>3 DEF Tiles
<1>9. ASSUME NEW x \in Pieces
      PROVE  Tagged(x) /\ Described(x)
  <2>1. PICK a \in Area, i \in Order, s \in Page :
          s \in BootBlocks[a][i] /\ x = <<"free", a, s, i>>
    BY <1>7
  <2> DEFINE e == End(s, i)
  <2>2. /\ x[1] = "free" /\ x[2] = a /\ x[3] = s /\ x[4] = i /\ Last(x) = e
        /\ ~IsUsed(x) /\ ~IsCut(x)
    BY <2>1 DEF Last, IsUsed, IsCut
  <2>3. /\ e \in Page /\ s <= e /\ s \in Int /\ e \in Int /\ mf_marty[s] = a
        /\ BootEnd(e, i) /\ BootStart(s, i)
        /\ (CHOOSE j \in Order : BootEnd(e, j)) = i
        /\ (CHOOSE j \in Order : BootStart(s, j)) = i
        /\ s # e => \A j \in Order : ~BootEnd(s, j)
    BY <2>1, BootFacts
  <2>4. a = PROC => i = 0
    BY <2>1, BootAssumption, OderFacts
  <2>5. OnBafh(e, i)
    BY <1>4, <1>5, <2>3 DEF OnBafh
  <2>6. s # e => Linked(s, e)
    BY <1>4, <1>5, <2>3 DEF Linked
  <2>7. \A p \in Page : s <= p /\ p <= e => mf_uindx[p] = 0
    <3>1. \A p \in Page : s <= p /\ p <= e => p \in Managed
      BY <2>1, <2>2, <1>8 DEF Tiles
    <3>2. QED
      BY <3>1, <1>1
  <2>8. \A p \in Page : s < p /\ p < e => mf_uindx[p] = 0
    BY <2>3, <2>7, PageFacts
  <2>9. Unused(s, e)
    BY <2>3, <2>7 DEF Unused
  <2> HIDE DEF e
  <2>10. Described(x)
    BY <2>2, <2>5, <2>6, <2>8, <2>9 DEF Described
  <2>11. Tagged(x)
    BY <2>2, <2>3, <2>4 DEF Tagged
  <2>12. QED
    BY <2>10, <2>11
<1>10. \A c \in Caller : CallOk(c)
  BY <1>3 DEF CallOk
<1>11. Counted
  BY <1>1 DEF Counted
<1>12. NoFreeNeighbours
  BY <1>1, BootAssumption DEF NoFreeNeighbours, Follows
<1>13. QED
  BY <1>1, <1>6, <1>8, <1>9, <1>10, <1>11, <1>12 DEF IInv

-----------------------------------------------------------------------------
(* Asking for pages. *)
LEMMA DivisionStep ==
  ASSUME IInv, NEW c \in Caller, NEW a \in Area, NEW n \in Nat, n >= 1,
         ma_lock[a] = Nobody, ~HasBlock(c), CanDiv(a, n),
         TakeBlock(c, a, DivList(a, n), n)
  PROVE  IInv'
<1>1. \E i \in Order : af_oderpnr[i] >= n /\ af_fobjnr[a][i] > 0
  BY DEF CanDiv
<1>2. /\ DivList(a, n) \in Order /\ af_oderpnr[DivList(a, n)] >= n
      /\ \A j \in Order : af_oderpnr[j] >= n /\ af_fobjnr[a][j] > 0 => DivList(a, n) <= j
  BY <1>1, DivListLeast
<1>3. \A j \in Order : j < DivList(a, n) /\ af_oderpnr[j] >= n => af_frelst[a][j] = {}
  BY <1>2, Finite, OderFacts
<1>4. QED
  BY <1>2, <1>3, TakeStep

(* Every step keeps it.                                                    *)
LEMMA NextIInv == IInv /\ [Next]_vars => IInv'
<1> SUFFICES ASSUME IInv, [Next]_vars PROVE IInv'
  OBVIOUS
<1>1. CASE UNCHANGED vars
  <2>1. UNCHANGED <<lists, links, mf_uindx, ma_lock, held, died, call>>
    BY <1>1 DEF vars
  <2>2. TInv' /\ (\A v : v \in Pieces' <=> v \in Pieces)
    BY <2>1 DEF IInv, TInv, lists, links, Pieces, HasBlock
  <2>3. Tiles(Pieces)'
    BY <2>2 DEF IInv, Tiles, Within, Last, Managed
  <2>4. \A x \in Pieces' : Tagged(x)' /\ Described(x)'
    BY <2>1, <2>2 DEF IInv, Tagged, Described, IsUsed, IsCut, Linked, OnBafh,
                      Unused, links, Last
  <2>5. (\A c \in Caller : CallOk(c)') /\ Counted' /\ NoFreeNeighbours' /\ ~died'
    BY <2>1 DEF IInv, CallOk, AreaOf, Counted, NoFreeNeighbours, lists
  <2>6. QED
    BY <2>2, <2>3, <2>4, <2>5 DEF IInv
<1>2. CASE Next
  <2>1. PICK c \in Caller :
          \/ \E a \in Area, n \in 1 .. MaxAsk : DivisionPages(c, a, n)
          \/ DivProc(c)
          \/ ProcEmpty(c)
          \/ DivFallback(c)
          \/ NoPages(c)
          \/ DivSplit(c)
          \/ DivDone(c)
          \/ \E r \in held : MergePages(c, r)
          \/ MergeStart(c)
          \/ MergeJoin(c)
          \/ MergeDone(c)
    BY <1>2 DEF Next
  <2>2. CASE \E a \in Area, n \in 1 .. MaxAsk : DivisionPages(c, a, n)
    <3>1. PICK a \in Area, n \in 1 .. MaxAsk : DivisionPages(c, a, n)
      BY <2>2
    <3>2. n \in Nat /\ n >= 1
      BY AreaAssumption
    <3>3. QED
      BY <3>1, <3>2, DivisionStep DEF DivisionPages, HasBlock
  <2>3. CASE DivProc(c)
    <3>1. /\ ~HasBlock(c) /\ ma_lock[PROC] = Nobody /\ TakeBlock(c, PROC, 0, 1)
      BY <2>3 DEF DivProc, HasBlock
    <3>2. /\ PROC \in Area /\ 0 \in Order /\ 1 \in Nat /\ 1 >= 1 /\ af_oderpnr[0] >= 1
          /\ \A j \in Order : j < 0 /\ af_oderpnr[j] >= 1 => af_frelst[PROC][j] = {}
      BY AreaAssumption, OderFacts
    <3>3. QED
      BY <3>1, <3>2, TakeStep
  <2>4. CASE ProcEmpty(c)
    <3>1. call[c].pc = "idle" /\ call' = [call EXCEPT ![c].pc = "fallback"]
      BY <2>4 DEF ProcEmpty
    <3>2. /\ ~HasBlock(c) /\ ~HasBlock(c)' /\ call' \in [Caller -> Call]
          /\ \A d \in Caller : d # c => call'[d] = call[d]
      BY <3>1 DEF IInv, TInv, Call, Pc, HasBlock
    <3>3. UNCHANGED <<lists, links, mf_uindx, ma_lock, held, died>>
      BY <2>4 DEF ProcEmpty
    <3>4. QED
      BY <3>2, <3>3, IdleStep
  <2>5. CASE DivFallback(c)
    <3>1. 1 \in Nat /\ 1 >= 1 /\ KRNL \in Area
      BY AreaAssumption
    <3>2. QED
      BY <2>5, <3>1, DivisionStep DEF DivFallback, HasBlock
  <2>6. CASE NoPages(c)
    <3>1. call[c].pc = "fallback" /\ call' = [call EXCEPT ![c] = Idle]
      BY <2>6 DEF NoPages
    <3>2. /\ ~HasBlock(c) /\ ~HasBlock(c)' /\ call' \in [Caller -> Call]
          /\ \A d \in Caller : d # c => call'[d] = call[d]
      BY <3>1, OderFacts DEF IInv, TInv, Call, Pc, HasBlock, Idle
    <3>3. UNCHANGED <<lists, links, mf_uindx, ma_lock, held, died>>
      BY <2>6 DEF NoPages
    <3>4. QED
      BY <3>2, <3>3, IdleStep
  <2>7. CASE DivSplit(c)
    BY <2>7, SplitStep
  <2>8. CASE DivDone(c)
    BY <2>8, DoneStep
  <2>9. CASE \E r \in held : MergePages(c, r)
    BY <2>9, BackStep
  <2>10. CASE MergeStart(c)
    BY <2>10, StartStep
  <2>11. CASE MergeJoin(c)
    BY <2>11, JoinStep
  <2>12. CASE MergeDone(c)
    BY <2>12, PutStep
  <2>13. QED
    BY <2>1, <2>2, <2>3, <2>4, <2>5, <2>6, <2>7, <2>8, <2>9, <2>10, <2>11, <2>12
<1>3. QED
  BY <1>1, <1>2

(* The invariant of the allocator: pieces tile the memory and are described *)
(* by their descriptors, whatever callers do.                              *)
THEOREM Safety == Spec => []IInv
<1>1. Init => IInv
  BY InitIInv
<1>2. IInv /\ [Next]_vars => IInv'
  BY NextIInv
<1>3. QED
  BY <1>1, <1>2, PTL DEF Spec

-----------------------------------------------------------------------------
(* What the invariant promises.                                            *)

(* Pieces that tile the memory partition its pages.                        *)
LEMMA PartitionHolds == IInv => PagesPartition
<1> SUFFICES ASSUME IInv PROVE PagesPartition
  OBVIOUS
<1>1. \A x, y \in Pieces : x # y => Apart(x[3], x[4], y[3], y[4])
  BY DEF IInv, Tiles
<1>2. \A x \in Pieces : InArea(mf_marty[x[3]], x[3], x[4])
                        /\ (x[1] = "free" => x[2] = mf_marty[x[3]])
  BY PieceFacts DEF Tagged
<1>3. \A x \in Pieces : \A p : p \in x[3] .. End(x[3], x[4])
                           <=> p \in Page /\ x[3] <= p /\ p <= Last(x)
  <2>1. SUFFICES ASSUME NEW x \in Pieces, NEW p
                 PROVE  p \in x[3] .. End(x[3], x[4])
                          <=> p \in Page /\ x[3] <= p /\ p <= Last(x)
    OBVIOUS
  <2> DEFINE s == x[3]
             e == Last(x)
  <2>2. s \in Page /\ e \in Page /\ s \in Int /\ e \in Int /\ e = End(x[3], x[4])
    BY PieceFacts DEF Last
  <2> HIDE DEF s, e
  <2>3. 0 <= s /\ e < PageNr
    BY <2>2, PageFacts
  <2>4. p \in s .. e => p \in Int /\ 0 <= p /\ p < PageNr
    BY <2>2, <2>3, AreaAssumption
  <2>5. p \in s .. e => p \in Page
    BY <2>4, PageFacts
  <2>6. p \in Page => p \in Int
    BY PageFacts
  <2>7. p \in s .. e <=> p \in Page /\ s <= p /\ p <= e
    BY <2>2, <2>5, <2>6
  <2>8. QED
    BY <2>7 DEF s, e, Last
<1>4. \A p : p \in Managed <=> \E x \in Pieces : p \in x[3] .. End(x[3], x[4])
  <2>1. \A p \in Managed : p \in Page
    BY DEF Managed
  <2>2. QED
    BY <2>1, <1>3 DEF IInv, Tiles
<1>5. Managed = UNION {x[3] .. End(x[3], x[4]) : x \in Pieces}
  BY <1>4
<1>6. QED
  BY <1>1, <1>2, <1>5 DEF PagesPartition

(* No page is ever lost or in two pieces, for any memory map, any sizes    *)
(* and any number of callers (mm_reldpgsdivmsa_bafhl, mm_clear_2msaolflg). *)
THEOREM Partition == Spec => []PagesPartition
<1>1. IInv => PagesPartition
  BY PartitionHolds
<1>2. QED
  BY <1>1, Safety, PTL

(* The pages of a run given out follow each other in memory.               *)
THEOREM Continuity == Spec => []RunsContinuous
<1>1. IInv => RunsContinuous
  <2>1. ASSUME IInv, NEW r \in held
        PROVE  Continuous(r[1], r[2])
    <3>1. <<"held", Nobody, r[1], r[2]>> \in Pieces
      BY PiecesAre DEF PiecesBy
    <3>2. QED
      BY <3>1, <2>1, PieceFacts
  <2>2. QED
    BY <2>1 DEF RunsContinuous
<1>2. QED
  BY <1>1, Safety, PTL

(* Joining goes all the way although cutting never looks for neighbours.   *)
THEOREM Coalesced == Spec => []NoFreeNeighbours
<1>1. IInv => NoFreeNeighbours
  BY DEF IInv
<1>2. QED
  BY <1>1, Safety, PTL

(* system_error is never called: every test of a descriptor succeeds.      *)
THEOREM Survival == Spec => []NeverHalts
<1>1. IInv => NeverHalts
  BY DEF IInv, NeverHalts
<1>2. QED
  BY <1>1, Safety, PTL

(* The descriptors of a run that is held stay as they are.                 *)
THEOREM Untouched == Spec => HeldUntouched
<1>1. IInv => \A r \in held : LET e == End(r[1], r[2]) IN
        Linked(r[1], e) /\ mf_uindx[r[1]] = 1 /\ mf_uindx[e] = 1
  <2>1. ASSUME IInv, NEW r \in held
        PROVE  LET e == End(r[1], r[2]) IN
                 Linked(r[1], e) /\ mf_uindx[r[1]] = 1 /\ mf_uindx[e] = 1
    <3>1. <<"held", Nobody, r[1], r[2]>> \in Pieces
      BY PiecesAre DEF PiecesBy
    <3>2. Described(<<"held", Nobody, r[1], r[2]>>)
      BY <2>1, <3>1, PieceFacts
    <3>3. QED
      BY <3>2 DEF Described, IsUsed, Last
  <2>2. QED
    BY <2>1
<1>2. (IInv => \A r \in held : LET e == End(r[1], r[2]) IN
        Linked(r[1], e) /\ mf_uindx[r[1]] = 1 /\ mf_uindx[e] = 1)'
  BY <1>1, PTL
<1>3. ASSUME IInv, IInv', NEW r \in held \cap held', NEW p \in {r[1], End(r[1], r[2])}
      PROVE  /\ mf_uindx'[p] = mf_uindx[p]
             /\ p = r[1] => mf_olkty'[p] = mf_olkty[p] /\ md_odlink'[p] = md_odlink[p]
  BY <1>1, <1>2, <1>3 DEF Linked, End
<1>4. IInv /\ IInv' => \A r \in held \cap held' : \A p \in {r[1], End(r[1], r[2])} :
        /\ mf_uindx'[p] = mf_uindx[p]
        /\ p = r[1] => mf_olkty'[p] = mf_olkty[p] /\ md_odlink'[p] = md_odlink[p]
  BY <1>3
<1>5. QED
  BY <1>4, Safety, PTL DEF HeldUntouched

(* mm_divpages_opmsadsc gives a run out, nothing else does.                *)
LEMMA HeldGrows ==
  ASSUME Next, NEW r \in held' \ held
  PROVE  \E c \in Caller : DivDone(c)
<1>1. PICK c \in Caller :
        \/ \E a \in Area, n \in 1 .. MaxAsk : DivisionPages(c, a, n)
        \/ DivProc(c)
        \/ ProcEmpty(c)
        \/ DivFallback(c)
        \/ NoPages(c)
        \/ DivSplit(c)
        \/ DivDone(c)
        \/ \E q \in held : MergePages(c, q)
        \/ MergeStart(c)
        \/ MergeJoin(c)
        \/ MergeDone(c)
  BY DEF Next
<1>2. held' # held
  OBVIOUS
<1>3. CASE \E a \in Area, n \in 1 .. MaxAsk : DivisionPages(c, a, n)
  BY <1>2, <1>3 DEF DivisionPages, TakeBlock
<1>4. CASE DivProc(c) \/ ProcEmpty(c) \/ DivFallback(c) \/ NoPages(c)
  BY <1>2, <1>4 DEF DivProc, ProcEmpty, DivFallback, NoPages, TakeBlock
<1>5. CASE DivSplit(c)
  BY <1>2, <1>5 DEF DivSplit, SystemError
<1>6. CASE \E q \in held : MergePages(c, q)
  BY <1>6 DEF MergePages
<1>7. CASE MergeStart(c)
  BY <1>2, <1>7 DEF MergeStart, SystemError
<1>8. CASE MergeJoin(c) \/ MergeDone(c)
  BY <1>2, <1>8 DEF MergeJoin, MergeDone, SystemError
<1>9. QED
  BY <1>1, <1>3, <1>4, <1>5, <1>6, <1>7, <1>8

(* The run that is cut for a request is the smallest that is long enough.  *)
LEMMA CutFits ==
  ASSUME IInv, NEW c \in Caller, call[c].pc = "div", call[c].odr <= DivOder(call[c].ask)
  PROVE  /\ af_oderpnr[call[c].odr] >= call[c].ask
         /\ af_oderpnr[call[c].odr] < 2 * call[c].ask
<1> DEFINE i == call[c].odr
           n == call[c].ask
<1>1. i \in Order /\ n \in Nat /\ n >= 1 /\ af_oderpnr[i] >= n
  BY HandFacts DEF HasBlock, CallOk
<1>2. \A j \in Order : af_oderpnr[j] >= n => DivOder(n) <= j
  BY <1>1, DivOderLeast
<1>3. DivOder(n) = i
  <2>1. DivOder(n) \in Order /\ DivOder(n) <= i
    BY <1>1, DivOderLeast
  <2>2. QED
    BY <1>1, <2>1, OderFacts
<1>4. CASE i = 0
  BY <1>1, <1>4, OderFacts
<1>5. CASE i > 0
  <2>1. i - 1 \in Order /\ af_oderpnr[i] = af_oderpnr[i - 1] + af_oderpnr[i - 1]
        /\ af_oderpnr[i - 1] \in Int /\ i \in Int
    BY <1>1, <1>5, OderFacts
  <2>2. ~(af_oderpnr[i - 1] >= n)
    BY <1>2, <1>3, <2>1
  <2> HIDE DEF i, n
  <2>3. QED
    BY <1>1, <2>1, <2>2 DEF i, n
<1>6. QED
  BY <1>1, <1>4, <1>5, OderFacts

(* A request is served with the smallest run that is long enough           *)
(* (retn_divoder, onmpgs_retn_bafhlst).                                    *)
THEOREM Fits == Spec => RunFits
<1>1. ASSUME IInv, [Next]_vars, NEW c \in Caller, NEW r \in held' \ held,
             call[c].pc = "div", call'[c].pc = "idle"
      PROVE  af_oderpnr[r[2]] >= call[c].ask /\ af_oderpnr[r[2]] < 2 * call[c].ask
  <2>1. Next
    BY <1>1 DEF vars
  <2>2. PICK d \in Caller : DivDone(d)
    BY <1>1, <2>1, HeldGrows
  <2>3. /\ call[d].pc = "div" /\ call[d].odr <= DivOder(call[d].ask)
        /\ held' = held \cup {<<call[d].msa, call[d].odr>>}
        /\ call' = [call EXCEPT ![d] = Idle]
    BY <1>1, <2>2 DEF DivDone, SystemError
  <2>4. c = d
    BY <1>1, <2>3 DEF IInv, TInv
  <2>5. r[2] = call[d].odr
    BY <1>1, <2>3
  <2>6. QED
    BY <1>1, <2>3, <2>4, <2>5, CutFits
<1>2. IInv /\ [Next]_vars => \A c \in Caller, r \in held' \ held :
        call[c].pc = "div" /\ call'[c].pc = "idle"
          => af_oderpnr[r[2]] >= call[c].ask /\ af_oderpnr[r[2]] < 2 * call[c].ask
  BY <1>1
<1>3. QED
  BY <1>2, Safety, PTL DEF Spec, RunFits

-----------------------------------------------------------------------------
(* The allocator implements PageRuns.                                      *)

(* A lock is held by a caller that cuts or joins in its area.              *)
LInv == /\ ma_freepages \in [Area -> Int]
        /\ \A b \in Area : ma_lock[b] # Nobody =>
             call[ma_lock[b]].pc \in {"div", "merge"} /\ AreaOf(ma_lock[b]) = b

(* What PageRuns sees as free. *)
Free(b) == ma_freepages[b] + Pending(b)

Unseen == Runs' = Runs /\ \A b \in Area : Free(b)' = Free(b)

(* A run s .. e of area a is given out that nobody holds.                  *)
GaveOut(a, s, e) ==
  /\ a \in Area /\ s \in Managed /\ e \in Managed /\ s <= e
  /\ mf_marty[s] = a /\ mf_marty[e] = a
  /\ s .. e \subseteq {p \in Managed : mf_marty[p] = a}
  /\ \A r \in Runs : (s .. e) \cap r = {}
  /\ Runs' = Runs \cup {s .. e}
  /\ CountAlloc(a, e - s + 1)
  /\ Pending(a) = 0 /\ \A b \in Area : Pending(b)' = Pending(b)

(* A run s .. e of area a is given up; its pages are pending from now on.  *)
TookBack(a, s, e) ==
  /\ a \in Area /\ s \in Managed /\ e \in Managed /\ s <= e
  /\ mf_marty[s] = a /\ mf_marty[e] = a
  /\ s .. e \subseteq {p \in Managed : mf_marty[p] = a}
  /\ s .. e \in Runs /\ Runs' = Runs \ {s .. e}
  /\ \A r \in Runs' : (s .. e) \cap r = {}
  /\ counts' = counts
  /\ Pending(a) = 0 /\ Pending(a)' = e - s + 1
  /\ \A b \in Area : b # a => Pending(b)' = Pending(b)

(* The pages that are pending in area a are counted as free.               *)
PutBack(a, n) ==
  /\ a \in Area /\ n \in Nat /\ CountFree(a, n)
  /\ Pending(a) = n /\ Pending(a)' = 0
  /\ \A b \in Area : b # a => Pending(b)' = Pending(b)

(* The runs that PageRuns sees.                                            *)
LEMMA RunsAre ==
  \A q : q \in Runs <=>
    \/ \E r \in held : q = r[1] .. End(r[1], r[2])
    \/ \E c \in Caller : call[c].pc = "check"
                           /\ q = call[c].msa .. End(call[c].msa, call[c].odr)
BY DEF Runs

(* Those it sees after a step.                                             *)
LEMMA RunsNext ==
  \A q : q \in Runs' <=>
    \/ \E r \in held' : q = r[1] .. End(r[1], r[2])
    \/ \E c \in Caller : call'[c].pc = "check"
                           /\ q = call'[c].msa .. End(call'[c].msa, call'[c].odr)
<1>1. (\A q : q \in Runs <=>
        \/ \E r \in held : q = r[1] .. End(r[1], r[2])
        \/ \E c \in Caller : call[c].pc = "check"
                           /\ q = call[c].msa .. End(call[c].msa, call[c].odr))'
  BY RunsAre, PTL
<1>2. QED
  BY <1>1 DEF End

(* Steps that PageRuns does not see. *)
LEMMA KeepStep ==
  ASSUME IInv, LInv, NEW c \in Caller,
         \A d \in Caller : d # c => call'[d] = call[d],
         call[c].pc \notin {"check", "merge"}, call'[c].pc \notin {"check", "merge"},
         held' = held, ma_freepages' = ma_freepages,
         ma_lock' \in [Area -> Caller \cup {Nobody}],
         \A b \in Area :
           \/ ma_lock'[b] = ma_lock[b]
           \/ /\ ma_lock[b] = Nobody /\ ma_lock'[b] = c
              /\ call'[c].pc = "div" /\ mf_marty[call'[c].msa] = b,
         call[c].pc = "div" => call'[c].pc = "div" /\ call'[c].msa = call[c].msa
  PROVE  LInv' /\ Unseen
<1>1. Runs' = Runs
  <2>1. \A q : q \in Runs' <=> q \in Runs
    BY RunsAre, RunsNext
  <2>2. QED
    BY <2>1
<1>2. ma_lock \in [Area -> Caller \cup {Nobody}]
  BY DEF IInv, TInv
<1>3. ASSUME NEW b \in Area
      PROVE  Free(b)' = Free(b)
  <2>1. Pending(b)' = Pending(b)
    BY <1>2, AreaAssumption DEF Pending
  <2>2. QED
    BY <2>1 DEF Free
<1>4. ASSUME NEW b \in Area, ma_lock'[b] # Nobody
      PROVE  call'[ma_lock'[b]].pc \in {"div", "merge"} /\ AreaOf(ma_lock[b])' = b
  <2>1. CASE ma_lock'[b] = ma_lock[b]
    BY <1>2, <1>4, <2>1 DEF LInv, AreaOf
  <2>2. CASE ma_lock'[b] # ma_lock[b]
    BY <1>4, <2>2 DEF AreaOf
  <2>3. QED
    BY <2>1, <2>2
<1>5. LInv'
  BY <1>4 DEF LInv
<1>6. QED
  BY <1>1, <1>3, <1>5 DEF Unseen

(* PageRuns does not see a block leave its list...                         *)
LEMMA TakeKeeps ==
  ASSUME IInv, LInv, NEW c \in Caller, ~HasBlock(c), NEW a \in Area, ma_lock[a] = Nobody,
         NEW i \in Order, NEW n, TakeBlock(c, a, i, n)
  PROVE  LInv' /\ Unseen
<1>1. PICK s \in af_frelst[a][i] :
        /\ IF OdEnd(s) - s + 1 = af_oderpnr[i]
             THEN /\ call' = [call EXCEPT ![c] =
                                [pc |-> "div", msa |-> s, odr |-> i, ask |-> n]]
                  /\ Lock(a, c)
             ELSE /\ call' = [call EXCEPT ![c] = Idle]
                  /\ UNCHANGED ma_lock
        /\ UNCHANGED <<counts, held>>
  BY DEF TakeBlock
<1>2. call \in [Caller -> Call] /\ ma_lock \in [Area -> Caller \cup {Nobody}]
  BY DEF IInv, TInv
<1>3. mf_marty[s] = a
  BY FreeFacts
<1>4. call[c].pc \notin {"check", "merge"} /\ call[c].pc # "div"
  BY DEF HasBlock
<1>5. held' = held /\ ma_freepages' = ma_freepages
  BY <1>1 DEF counts
<1>6. CASE OdEnd(s) - s + 1 = af_oderpnr[i]
  <2>1. /\ call'[c].pc = "div" /\ call'[c].msa = s
        /\ \A d \in Caller : d # c => call'[d] = call[d]
        /\ ma_lock' \in [Area -> Caller \cup {Nobody}]
        /\ ma_lock'[a] = c /\ \A b \in Area : b # a => ma_lock'[b] = ma_lock[b]
    BY <1>1, <1>2, <1>6 DEF Lock
  <2>2. QED
    BY <1>3, <1>4, <1>5, <2>1, KeepStep
<1>7. CASE OdEnd(s) - s + 1 # af_oderpnr[i]
  <2>1. /\ call'[c].pc = "idle"
        /\ \A d \in Caller : d # c => call'[d] = call[d]
        /\ ma_lock' = ma_lock
    BY <1>1, <1>2, <1>7 DEF Idle
  <2>2. QED
    BY <1>2, <1>4, <1>5, <2>1, KeepStep
<1>8. QED
  BY <1>6, <1>7

(* ...nor be cut...                                                        *)
LEMMA SplitKeeps ==
  ASSUME IInv, LInv, NEW c \in Caller, DivSplit(c), ~died'
  PROVE  LInv' /\ Unseen
<1>1. /\ call[c].pc = "div"
      /\ call' = [call EXCEPT ![c].odr = call[c].odr - 1]
      /\ UNCHANGED <<counts, ma_lock, held>>
  BY DEF DivSplit, SystemError
<1>2. call \in [Caller -> Call] /\ ma_lock \in [Area -> Caller \cup {Nobody}]
  BY DEF IInv, TInv
<1>3. /\ call'[c].pc = "div" /\ call'[c].msa = call[c].msa
      /\ \A d \in Caller : d # c => call'[d] = call[d]
  BY <1>1, <1>2 DEF Call
<1>4. held' = held /\ ma_freepages' = ma_freepages /\ ma_lock' = ma_lock
  BY <1>1 DEF counts
<1>5. QED
  BY <1>1, <1>2, <1>3, <1>4, KeepStep

(* ...nor a request that is refused...                                     *)
LEMMA EmptyKeeps ==
  ASSUME IInv, LInv, NEW c \in Caller, ProcEmpty(c) \/ NoPages(c)
  PROVE  LInv' /\ Unseen
<1>1. call \in [Caller -> Call] /\ ma_lock \in [Area -> Caller \cup {Nobody}]
  BY DEF IInv, TInv
<1>2. /\ call[c].pc \in {"idle", "fallback"} /\ call'[c].pc \in {"idle", "fallback"}
      /\ \A d \in Caller : d # c => call'[d] = call[d]
  BY <1>1 DEF ProcEmpty, NoPages, Idle, Call
<1>3. held' = held /\ ma_freepages' = ma_freepages /\ ma_lock' = ma_lock
  BY DEF ProcEmpty, NoPages, counts
<1>4. QED
  BY <1>1, <1>2, <1>3, KeepStep

(* A run that is handed back is only given up when its merge begins. *)
LEMMA BackKeeps ==
  ASSUME IInv, LInv, NEW c \in Caller, NEW r \in held, MergePages(c, r)
  PROVE  LInv' /\ Unseen
<1>1. call \in [Caller -> Call] /\ ma_lock \in [Area -> Caller \cup {Nobody}]
  BY DEF IInv, TInv
<1>2. /\ call[c].pc = "idle" /\ held' = held \ {r}
      /\ call' = [call EXCEPT ![c] = [pc |-> "check", msa |-> r[1],
                                          odr |-> r[2], ask |-> af_oderpnr[r[2]]]]
      /\ ma_freepages' = ma_freepages /\ ma_lock' = ma_lock
  BY DEF MergePages, counts
<1>3. /\ call'[c].pc = "check" /\ call'[c].msa = r[1] /\ call'[c].odr = r[2]
      /\ \A d \in Caller : d # c => call'[d] = call[d]
  BY <1>1, <1>2
<1>4. Runs' = Runs
  <2>1. ASSUME NEW q \in Runs
        PROVE  q \in Runs'
    BY <1>2, <1>3, RunsAre, RunsNext
  <2>2. ASSUME NEW q \in Runs'
        PROVE  q \in Runs
    BY <1>2, <1>3, RunsAre, RunsNext
  <2>3. QED
    BY <2>1, <2>2
<1>5. \A b \in Area : ma_lock[b] # c
  BY <1>1, <1>2, AreaAssumption DEF LInv
<1>6. ASSUME NEW b \in Area
      PROVE  Free(b)' = Free(b)
  <2>1. Pending(b)' = Pending(b)
    BY <1>1, <1>2, <1>3, <1>5, AreaAssumption DEF Pending
  <2>2. QED
    BY <1>2, <2>1 DEF Free
<1>7. LInv'
  <2>1. ASSUME NEW b \in Area, ma_lock'[b] # Nobody
        PROVE  call'[ma_lock'[b]].pc \in {"div", "merge"} /\ AreaOf(ma_lock[b])' = b
    BY <1>1, <1>2, <1>3, <1>5, <2>1 DEF LInv, AreaOf
  <2>2. QED
    BY <1>2, <2>1 DEF LInv
<1>8. QED
  BY <1>4, <1>6, <1>7 DEF Unseen

(* ...nor a block that is joined.                                          *)
LEMMA JoinKeeps ==
  ASSUME IInv, LInv, NEW c \in Caller, MergeJoin(c)
  PROVE  LInv' /\ Unseen
<1>1. PICK s, i, a : s = call[c].msa /\ i = call[c].odr /\ a = AreaOf(c)
  OBVIOUS
<1>2. PICK t \in Neighbours(c) :
        /\ call[c].pc = "merge"
        /\ call' = [call EXCEPT ![c].msa = IF s < t THEN s ELSE t, ![c].odr = i + 1]
        /\ UNCHANGED <<counts, ma_lock, held>>
  BY <1>1 DEF MergeJoin
<1>3. call \in [Caller -> Call] /\ ma_lock \in [Area -> Caller \cup {Nobody}]
  BY DEF IInv, TInv
<1>4. t \in af_frelst[a][i] /\ s \in Page /\ i \in Order /\ a \in Area
  BY <1>1, <1>2, NeighbourFacts, HandFacts DEF HasBlock
<1>5. mf_marty[t] = a /\ mf_marty[s] = a
  <2>1. mf_marty[t] = a
    BY <1>4, FreeFacts
  <2>2. QED
    BY <1>1, <2>1 DEF AreaOf
<1>6. /\ call'[c].pc = "merge" /\ call'[c].ask = call[c].ask
      /\ mf_marty[call'[c].msa] = a
      /\ \A d \in Caller : d # c => call'[d] = call[d]
  BY <1>2, <1>3, <1>5 DEF Call
<1>7. held' = held /\ ma_freepages' = ma_freepages /\ ma_lock' = ma_lock
  BY <1>2 DEF counts
<1>8. Runs' = Runs
  <2>1. \A d \in Caller : \/ call'[d] = call[d]
                          \/ call[d].pc # "check" /\ call'[d].pc # "check"
    BY <1>2, <1>6
  <2>2. \A q : q \in Runs' <=> q \in Runs
    BY <1>7, <2>1, RunsAre, RunsNext
  <2>3. QED
    BY <2>2
<1>9. ASSUME NEW b \in Area
      PROVE  Free(b)' = Free(b)
  <2>1. Pending(b)' = Pending(b)
    BY <1>2, <1>3, <1>6, <1>7 DEF Pending
  <2>2. QED
    BY <1>7, <2>1 DEF Free
<1>10. LInv'
  <2>1. ASSUME NEW b \in Area, ma_lock'[b] # Nobody
        PROVE  call'[ma_lock'[b]].pc \in {"div", "merge"} /\ AreaOf(ma_lock[b])' = b
    BY <1>1, <1>2, <1>3, <1>6, <1>7, <2>1 DEF LInv, AreaOf
  <2>2. QED
    BY <1>7, <2>1 DEF LInv
<1>11. QED
  BY <1>8, <1>9, <1>10 DEF Unseen

(* The lock of area a is released by c, which held it. *)
LEMMA ReleaseFacts ==
  ASSUME IInv, LInv, NEW c \in Caller, NEW a, a = AreaOf(c),
         call[c].pc \in {"div", "merge"},
         ma_lock' = [ma_lock EXCEPT ![a] = Nobody],
         call' = [call EXCEPT ![c] = Idle]
  PROVE  /\ a \in Area /\ ma_lock[a] = c /\ c # Nobody
         /\ call'[c].pc = "idle" /\ \A d \in Caller : d # c => call'[d] = call[d]
         /\ Pending(a)' = 0
         /\ \A b \in Area : b # a => Pending(b)' = Pending(b)
         /\ ma_freepages' \in [Area -> Int] => LInv'
<1>1. call \in [Caller -> Call] /\ ma_lock \in [Area -> Caller \cup {Nobody}]
  BY DEF IInv, TInv
<1>2. a \in Area /\ ma_lock[a] = c /\ c # Nobody
  BY LockFacts
<1>3. /\ call'[c].pc = "idle" /\ \A d \in Caller : d # c => call'[d] = call[d]
  BY <1>1 DEF Idle
<1>4. /\ ma_lock'[a] = Nobody
      /\ \A b \in Area : b # a => ma_lock'[b] = ma_lock[b] /\ ma_lock[b] # c
  BY <1>1, <1>2, AreaAssumption DEF LInv
<1>5. Pending(a)' = 0
  BY <1>4 DEF Pending
<1>6. \A b \in Area : b # a => Pending(b)' = Pending(b)
  BY <1>1, <1>3, <1>4 DEF Pending
<1>7. ASSUME NEW b \in Area, ma_lock'[b] # Nobody
      PROVE  call'[ma_lock'[b]].pc \in {"div", "merge"} /\ AreaOf(ma_lock[b])' = b
  BY <1>1, <1>3, <1>4, <1>7 DEF LInv, AreaOf
<1>8. ma_freepages' \in [Area -> Int] => LInv'
  BY <1>7 DEF LInv
<1>9. QED
  BY <1>2, <1>3, <1>5, <1>6, <1>8

(* What is joined was given up when the merge began. *)
LEMMA PutKeeps ==
  ASSUME IInv, LInv, NEW c \in Caller, MergeDone(c), ~died'
  PROVE  LInv' /\ Unseen /\ \E a, n : PutBack(a, n)
<1>1. PICK a : a = AreaOf(c)
  OBVIOUS
<1>2. /\ call[c].pc = "merge"
      /\ CountFree(a, call[c].ask)
      /\ ma_freepages' = [ma_freepages EXCEPT ![a] = @ + call[c].ask]
      /\ ma_lock' = [ma_lock EXCEPT ![a] = Nobody]
      /\ call' = [call EXCEPT ![c] = Idle]
      /\ held' = held
  BY <1>1 DEF MergeDone, SystemError, CountFree, Unlock
<1>3. /\ a \in Area /\ ma_lock[a] = c /\ c # Nobody
      /\ call'[c].pc = "idle" /\ \A d \in Caller : d # c => call'[d] = call[d]
      /\ Pending(a)' = 0
      /\ \A b \in Area : b # a => Pending(b)' = Pending(b)
      /\ ma_freepages' \in [Area -> Int] => LInv'
  BY <1>1, <1>2, ReleaseFacts
<1>4. call[c].ask \in Nat /\ ma_freepages \in [Area -> Int]
  BY DEF IInv, TInv, Call, LInv
<1>5. /\ ma_freepages' \in [Area -> Int]
      /\ ma_freepages'[a] = ma_freepages[a] + call[c].ask
      /\ \A b \in Area : b # a => ma_freepages'[b] = ma_freepages[b]
  BY <1>2, <1>3, <1>4
<1>6. Pending(a) = call[c].ask
  BY <1>2, <1>3 DEF Pending
<1>7. ASSUME NEW b \in Area
      PROVE  Free(b)' = Free(b)
  <2>1. CASE b = a
    BY <2>1, <1>3, <1>4, <1>5, <1>6 DEF Free
  <2>2. CASE b # a
    BY <2>2, <1>3, <1>5 DEF Free
  <2>3. QED
    BY <2>1, <2>2
<1>8. Runs' = Runs
  <2>1. \A q : q \in Runs' <=> q \in Runs
    BY <1>2, <1>3, RunsAre, RunsNext
  <2>2. QED
    BY <2>1
<1>9. PutBack(a, call[c].ask)
  BY <1>2, <1>3, <1>4, <1>6 DEF PutBack
<1>10. QED
  BY <1>3, <1>5, <1>7, <1>8, <1>9 DEF Unseen

(* Runs are sets of pages that no two pieces share. *)
LEMMA PieceSet ==
  ASSUME IInv, NEW x \in Pieces, NEW y \in Pieces, x # y
  PROVE  /\ (x[3] .. Last(x)) \cap (y[3] .. Last(y)) = {}
         /\ x[3] \in x[3] .. Last(x)
         /\ x[3] .. Last(x) # y[3] .. Last(y)
<1>1. \A p \in Int : x[3] <= p /\ p <= Last(x) => ~(y[3] <= p /\ p <= Last(y))
  BY PiecesApart
<1>2. x[3] \in Int /\ Last(x) \in Int /\ x[3] <= Last(x)
      /\ y[3] \in Int /\ Last(y) \in Int
  BY PieceFacts
<1>3. \A p : p \in x[3] .. Last(x) => ~(p \in y[3] .. Last(y))
  BY <1>1, <1>2
<1>4. x[3] \in x[3] .. Last(x)
  BY <1>2
<1>5. QED
  BY <1>3, <1>4

(* A run is the pages of a piece that is in use. *)
LEMMA RunPieces ==
  ASSUME IInv
  PROVE  \A q \in Runs : \E y \in Pieces : IsUsed(y) /\ q = y[3] .. Last(y)
<1>1. SUFFICES ASSUME NEW q \in Runs
               PROVE  \E y \in Pieces : IsUsed(y) /\ q = y[3] .. Last(y)
  OBVIOUS
<1>2. CASE \E r \in held : q = r[1] .. End(r[1], r[2])
  <2>1. PICK r \in held : q = r[1] .. End(r[1], r[2])
    BY <1>2
  <2> DEFINE y == <<"held", Nobody, r[1], r[2]>>
  <2>2. y \in Pieces
    BY PiecesAre DEF PiecesBy
  <2>3. IsUsed(y) /\ q = y[3] .. Last(y)
    BY <2>1 DEF IsUsed, Last
  <2>4. QED
    BY <2>2, <2>3
<1>3. CASE \E c \in Caller : call[c].pc = "check"
                               /\ q = call[c].msa .. End(call[c].msa, call[c].odr)
  <2>1. PICK c \in Caller : call[c].pc = "check"
                              /\ q = call[c].msa .. End(call[c].msa, call[c].odr)
    BY <1>3
  <2> DEFINE y == <<"hand", c, call[c].msa, call[c].odr>>
  <2>2. y \in Pieces
    BY <2>1, HandFacts DEF HasBlock
  <2>3. IsUsed(y) /\ q = y[3] .. Last(y)
    BY <2>1 DEF IsUsed, Last
  <2>4. QED
    BY <2>2, <2>3
<1>4. QED
  BY <1>2, <1>3, RunsAre

(* The pages of a piece are pages that were free at boot, of its area. *)
LEMMA PieceArea ==
  ASSUME IInv, NEW x \in Pieces
  PROVE  /\ x[3] \in Managed /\ Last(x) \in Managed
         /\ x[3] .. Last(x) \subseteq {p \in Managed : mf_marty[p] = mf_marty[x[3]]}
         /\ Last(x) - x[3] + 1 = af_oderpnr[x[4]] /\ x[3] <= Last(x)
         /\ mf_marty[Last(x)] = mf_marty[x[3]]
<1>1. /\ x[3] \in Page /\ Last(x) \in Page /\ x[3] <= Last(x)
      /\ x[3] \in Int /\ Last(x) \in Int /\ x[4] \in Order
      /\ Last(x) = x[3] + af_oderpnr[x[4]] - 1
      /\ InArea(mf_marty[x[3]], x[3], x[4]) /\ mf_marty[Last(x)] = mf_marty[x[3]]
  BY PieceFacts
<1>2. \A p \in Page : x[3] <= p /\ p <= Last(x) => p \in Managed
  BY DEF IInv, Tiles
<1>3. \A p : p \in x[3] .. Last(x) =>
        p \in Page /\ x[3] <= p /\ p <= Last(x) /\ mf_marty[p] = mf_marty[x[3]]
  <2>1. SUFFICES ASSUME NEW p, p \in x[3] .. Last(x)
                 PROVE  p \in Page /\ x[3] <= p /\ p <= Last(x)
                        /\ mf_marty[p] = mf_marty[x[3]]
    OBVIOUS
  <2>2. p \in Int /\ x[3] <= p /\ p <= Last(x)
    BY <1>1, <2>1
  <2>3. 0 <= x[3] /\ Last(x) < PageNr /\ PageNr \in Int
    BY <1>1, PageFacts, AreaAssumption
  <2>4. 0 <= p /\ p < PageNr
    BY <1>1, <2>2, <2>3
  <2>5. p \in Page
    BY <2>2, <2>4, PageFacts
  <2>6. mf_marty[p] = mf_marty[x[3]]
    BY <1>1, <2>1 DEF InArea, Last
  <2>7. QED
    BY <2>2, <2>5, <2>6
<1>4. Last(x) - x[3] + 1 = af_oderpnr[x[4]]
  BY <1>1, OderFacts
<1>5. x[3] \in Managed /\ Last(x) \in Managed
  BY <1>1, <1>2
<1>6. \A p : p \in x[3] .. Last(x) => p \in Managed /\ mf_marty[p] = mf_marty[x[3]]
  BY <1>2, <1>3
<1>7. QED
  BY <1>1, <1>4, <1>5, <1>6

(* A function that falls by m at one place is an EXCEPT.                   *)
LEMMA MovedBy ==
  ASSUME NEW S, NEW a \in S, NEW F, F = [b \in S |-> F[b]], NEW G, G = [b \in S |-> G[b]],
         NEW m, G[a] = F[a] - m, \A b \in S : b # a => G[b] = F[b]
  PROVE  G = [F EXCEPT ![a] = @ - m]
OBVIOUS

(* The same for one that rises.                                            *)
LEMMA MovedUp ==
  ASSUME NEW S, NEW a \in S, NEW F, F = [b \in S |-> F[b]], NEW G, G = [b \in S |-> G[b]],
         NEW m, G[a] = F[a] + m, \A b \in S : b # a => G[b] = F[b]
  PROVE  G = [F EXCEPT ![a] = @ + m]
OBVIOUS

(* DivDone gives a run out. *)
LEMMA DoneGives ==
  ASSUME IInv, LInv, NEW c \in Caller, DivDone(c), ~died'
  PROVE  LInv' /\ \E a, s, e : GaveOut(a, s, e)
<1>1. PICK s, i, a : s = call[c].msa /\ i = call[c].odr /\ a = AreaOf(c)
  OBVIOUS
<1> DEFINE x == <<"hand", c, s, i>>
           e == Last(x)
           n == af_oderpnr[i]
<1>2. /\ call[c].pc = "div"
      /\ CountAlloc(a, n)
      /\ ma_freepages' = [ma_freepages EXCEPT ![a] = @ - n]
      /\ ma_lock' = [ma_lock EXCEPT ![a] = Nobody]
      /\ call' = [call EXCEPT ![c] = Idle]
      /\ held' = held \cup {<<s, i>>}
  BY <1>1 DEF DivDone, SystemError, CountAlloc, Unlock
<1>3. /\ a \in Area /\ ma_lock[a] = c /\ c # Nobody
      /\ call'[c].pc = "idle" /\ \A d \in Caller : d # c => call'[d] = call[d]
      /\ Pending(a)' = 0
      /\ \A b \in Area : b # a => Pending(b)' = Pending(b)
      /\ ma_freepages' \in [Area -> Int] => LInv'
  BY <1>1, <1>2, ReleaseFacts
<1>4. x \in Pieces /\ i \in Order /\ mf_marty[s] = a /\ ~IsUsed(x)
  BY <1>1, <1>2, HandFacts DEF HasBlock, IsUsed, AreaOf
<1>5. n \in Int /\ ma_freepages \in [Area -> Int]
  BY <1>4, OderFacts DEF LInv
<1>6. /\ ma_freepages' \in [Area -> Int]
      /\ ma_freepages'[a] = ma_freepages[a] - n
      /\ \A b \in Area : b # a => ma_freepages'[b] = ma_freepages[b]
  BY <1>2, <1>3, <1>5
<1>7. Pending(a) = 0
  BY <1>2, <1>3 DEF Pending
<1>8. /\ s \in Managed /\ e \in Managed /\ mf_marty[e] = a /\ s <= e
      /\ s .. e \subseteq {p \in Managed : mf_marty[p] = a}
      /\ e - s + 1 = n
  BY <1>4, PieceArea
<1>9. \A r \in Runs : (s .. e) \cap r = {}
  <2>1. ASSUME NEW r \in Runs
        PROVE  (s .. e) \cap r = {}
    <3>1. PICK y \in Pieces : IsUsed(y) /\ r = y[3] .. Last(y)
      BY RunPieces
    <3>2. x # y /\ x[3] = s
      BY <1>4, <3>1
    <3> HIDE DEF x
    <3>3. QED
      BY <1>4, <3>1, <3>2, PieceSet
  <2>2. QED
    BY <2>1
<1>10. Runs' = Runs \cup {s .. e}
  <2>1. \A r : r \in held' <=> r \in held \/ r = <<s, i>>
    BY <1>2
  <2>2. \A d \in Caller : \/ call'[d] = call[d]
                          \/ call[d].pc # "check" /\ call'[d].pc # "check"
    BY <1>2, <1>3
  <2>3. <<s, i>>[1] = s /\ <<s, i>>[2] = i /\ e = End(s, i)
    BY DEF Last
  <2>4. ASSUME NEW q \in Runs'
        PROVE  q \in Runs \/ q = s .. End(s, i)
    BY <2>1, <2>2, <2>3, RunsAre, RunsNext
  <2>5. ASSUME NEW q \in Runs
        PROVE  q \in Runs'
    BY <2>1, <2>2, RunsAre, RunsNext
  <2>6. s .. End(s, i) \in Runs'
    BY <2>1, <2>3, RunsNext
  <2>7. QED
    BY <2>3, <2>4, <2>5, <2>6
<1>11. CountAlloc(a, e - s + 1)
  BY <1>2, <1>8
<1> HIDE DEF e, n
<1>12. GaveOut(a, s, e)
  BY <1>3, <1>4, <1>7, <1>8, <1>9, <1>10, <1>11 DEF GaveOut
<1>13. QED
  BY <1>3, <1>6, <1>12

(* Giving a run out is Alloc of PageRuns. *)
LEMMA GivesAllocs ==
  ASSUME LInv, NEW a, NEW s, NEW e, GaveOut(a, s, e)
  PROVE  AbstractRuns!Alloc
<1>1. /\ a \in Area /\ s \in Int /\ e \in Int
      /\ ma_freepages \in [Area -> Int]
      /\ ma_freepages' = [ma_freepages EXCEPT ![a] = @ - (e - s + 1)]
      /\ Pending(a) = 0 /\ \A b \in Area : Pending(b)' = Pending(b)
  BY AreaAssumption DEF GaveOut, CountAlloc, LInv, Managed, Page
<1>2. [b \in Area |-> ma_freepages[b] + Pending(b)]'
         = [[b \in Area |-> ma_freepages[b] + Pending(b)] EXCEPT ![a] = @ - (e - s + 1)]
  <2> DEFINE F == [b \in Area |-> ma_freepages[b] + Pending(b)]
             G == [b \in Area |-> ma_freepages'[b] + Pending(b)']
  <2>1. F = [b \in Area |-> F[b]] /\ G = [b \in Area |-> G[b]]
    OBVIOUS
  <2>2. F[a] = ma_freepages[a] + Pending(a) /\ G[a] = ma_freepages'[a] + Pending(a)'
    BY <1>1
  <2>3. \A b \in Area : /\ F[b] = ma_freepages[b] + Pending(b)
                        /\ G[b] = ma_freepages'[b] + Pending(b)'
    OBVIOUS
  <2> HIDE DEF F, G
  <2>4. F[a] = ma_freepages[a] /\ G[a] = ma_freepages[a] - (e - s + 1)
    BY <1>1, <2>2
  <2>5. \A b \in Area : b # a => G[b] = F[b]
    BY <1>1, <2>3
  <2>6. G[a] = F[a] - (e - s + 1)
    BY <2>4
  <2>7. G = [F EXCEPT ![a] = @ - (e - s + 1)]
    BY <1>1, <2>1, <2>5, <2>6, MovedBy
  <2>8. QED
    BY <2>7 DEF F, G
<1>3. QED
  <2> DEFINE Pg == [b \in Area |-> {p \in Managed : mf_marty[p] = b}]
  <2>1. /\ a \in Area /\ s \in Pg[a] /\ e \in Pg[a] /\ s <= e /\ s .. e \subseteq Pg[a]
        /\ \A r \in Runs : (s .. e) \cap r = {}
        /\ Runs' = Runs \cup {s .. e}
    BY <1>1 DEF GaveOut
  <2> HIDE DEF Pg
  <2>2. \E b \in Area : \E f, g \in Pg[b] :
          /\ f <= g /\ f .. g \subseteq Pg[b]
          /\ \A r \in Runs : (f .. g) \cap r = {}
          /\ Runs' = Runs \cup {f .. g}
          /\ [d \in Area |-> ma_freepages[d] + Pending(d)]'
               = [[d \in Area |-> ma_freepages[d] + Pending(d)] EXCEPT ![b] = @ - (g - f + 1)]
    BY <1>2, <2>1
  <2>3. QED
    BY <2>2 DEF AbstractRuns!Alloc, Pg

(* MergeStart gives a run up. *)
LEMMA StartGives ==
  ASSUME IInv, LInv, NEW c \in Caller, MergeStart(c)
  PROVE  LInv' /\ \E a, s, e : TookBack(a, s, e)
<1>1. PICK s, i, a, e : /\ s = call[c].msa /\ i = call[c].odr /\ a = AreaOf(c)
                        /\ e = md_odlink[s]
  OBVIOUS
<1> DEFINE x == <<"hand", c, s, i>>
           n == af_oderpnr[i]
<1>2. Started(c, s, i, a, e)
  BY <1>1, StartFacts
<1>3. /\ x \in Pieces /\ i \in Order /\ a \in Area /\ mf_marty[s] = a
      /\ call[c].pc = "check" /\ ma_lock[a] = Nobody /\ call[c].ask = n
      /\ Last(x) = e /\ s <= e
      /\ call' = [call EXCEPT ![c].pc = "merge", ![c].odr = i]
      /\ ma_lock' = [ma_lock EXCEPT ![a] = c]
      /\ ma_freepages' = ma_freepages /\ held' = held /\ counts' = counts
  BY <1>2 DEF Started, Last, counts
<1>4. call \in [Caller -> Call] /\ ma_lock \in [Area -> Caller \cup {Nobody}]
  BY DEF IInv, TInv
<1>5. /\ call'[c].pc = "merge" /\ call'[c].msa = s /\ call'[c].ask = n
      /\ \A d \in Caller : d # c => call'[d] = call[d]
      /\ ma_lock'[a] = c /\ \A b \in Area : b # a => ma_lock'[b] = ma_lock[b]
      /\ c # Nobody
  BY <1>1, <1>3, <1>4, AreaAssumption DEF Call
<1>6. \A b \in Area : ma_lock[b] # c
  BY <1>3, <1>5 DEF LInv
<1>7. LInv'
  <2>1. ASSUME NEW b \in Area, ma_lock'[b] # Nobody
        PROVE  call'[ma_lock'[b]].pc \in {"div", "merge"} /\ AreaOf(ma_lock[b])' = b
    <3>1. CASE b = a
      BY <3>1, <1>3, <1>5 DEF AreaOf
    <3>2. CASE b # a
      BY <2>1, <3>2, <1>4, <1>5, <1>6 DEF LInv, AreaOf
    <3>3. QED
      BY <3>1, <3>2
  <2>2. QED
    BY <1>3, <2>1 DEF LInv
<1>8. /\ s \in Managed /\ e \in Managed /\ mf_marty[e] = a
      /\ s .. e \subseteq {p \in Managed : mf_marty[p] = a}
      /\ e - s + 1 = n
  BY <1>3, PieceArea
<1>9. n \in Int /\ ma_freepages[a] \in Int
  BY <1>3, OderFacts DEF LInv
<1>10. Pending(a) = 0 /\ Pending(a)' = n /\ \A b \in Area : b # a => Pending(b)' = Pending(b)
  BY <1>3, <1>4, <1>5, <1>6 DEF Pending
<1>11. s .. e \in Runs
  <2>1. e = End(s, i)
    BY <1>3 DEF Last
  <2>2. QED
    BY <2>1, <1>1, <1>3, RunsAre
<1>12. Runs' = Runs \ {s .. e}
  <2>1. ASSUME NEW q \in Runs, q # s .. e
        PROVE  q \in Runs'
    <3>1. e = End(s, i)
      BY <1>3 DEF Last
    <3>2. CASE \E r \in held : q = r[1] .. End(r[1], r[2])
      BY <3>2, <1>3, RunsNext
    <3>3. CASE \E d \in Caller : call[d].pc = "check"
                                   /\ q = call[d].msa .. End(call[d].msa, call[d].odr)
      <4>1. PICK d \in Caller : call[d].pc = "check"
                                  /\ q = call[d].msa .. End(call[d].msa, call[d].odr)
        BY <3>3
      <4>2. d # c
        BY <4>1, <2>1, <3>1, <1>1
      <4>3. QED
        BY <4>1, <4>2, <1>5, RunsNext
    <3>4. QED
      BY <3>2, <3>3, RunsAre
  <2>2. ASSUME NEW q \in Runs'
        PROVE  q \in Runs /\ q # s .. e
    <3>1. CASE \E r \in held' : q = r[1] .. End(r[1], r[2])
      <4>1. PICK r \in held : q = r[1] .. End(r[1], r[2])
        BY <3>1, <1>3
      <4> DEFINE y == <<"held", Nobody, r[1], r[2]>>
      <4>2. y \in Pieces /\ y # x /\ x[3] = s /\ y[3] .. Last(y) = q
        BY <4>1, PiecesAre DEF PiecesBy, Last
      <4>3. q \in Runs
        BY <4>1, RunsAre
      <4> HIDE DEF x, y
      <4>4. QED
        BY <4>2, <4>3, <1>3, PieceSet
    <3>2. CASE \E d \in Caller : call'[d].pc = "check"
                                   /\ q = call'[d].msa .. End(call'[d].msa, call'[d].odr)
      <4>1. PICK d \in Caller : call'[d].pc = "check"
                                  /\ q = call'[d].msa .. End(call'[d].msa, call'[d].odr)
        BY <3>2
      <4>2. d # c /\ call'[d] = call[d]
        BY <4>1, <1>5
      <4> DEFINE y == <<"hand", d, call[d].msa, call[d].odr>>
      <4>3. q \in Runs
        BY <4>1, <4>2, RunsAre
      <4>4. y \in Pieces
        BY <4>1, <4>2, HandFacts DEF HasBlock
      <4>5. y # x /\ x[3] = s /\ y[3] .. Last(y) = q
        BY <4>1, <4>2 DEF Last
      <4> HIDE DEF x, y
      <4>6. QED
        BY <4>3, <4>4, <4>5, <1>3, PieceSet
    <3>3. QED
      BY <3>1, <3>2, RunsNext
  <2>3. QED
    BY <2>1, <2>2
<1> HIDE DEF x, n
<1>13. \A r \in Runs' : (s .. e) \cap r = {}
  <2>1. ASSUME NEW r \in Runs, r # s .. e
        PROVE  (s .. e) \cap r = {}
    <3>1. PICK y \in Pieces : IsUsed(y) /\ r = y[3] .. Last(y)
      BY RunPieces
    <3>2. x[3] = s /\ x \in Pieces /\ Last(x) = e
      BY <1>3 DEF x
    <3>3. x # y
      BY <2>1, <3>1, <3>2
    <3>4. QED
      BY <3>1, <3>2, <3>3, PieceSet
  <2>2. QED
    BY <2>1, <1>12
<1>14. TookBack(a, s, e)
  BY <1>3, <1>8, <1>10, <1>11, <1>12, <1>13 DEF TookBack
<1>15. QED
  BY <1>7, <1>14

(* Giving a run up is Free of PageRuns. *)
LEMMA BackFrees ==
  ASSUME LInv, NEW a, NEW s, NEW e, TookBack(a, s, e)
  PROVE  AbstractRuns!Free
<1>1. /\ a \in Area /\ s \in Int /\ e \in Int
      /\ ma_freepages \in [Area -> Int]
      /\ ma_freepages' = ma_freepages
      /\ Pending(a) = 0 /\ Pending(a)' = e - s + 1
      /\ \A b \in Area : b # a => Pending(b)' = Pending(b)
  BY AreaAssumption DEF TookBack, counts, LInv, Managed, Page
<1>2. [b \in Area |-> ma_freepages[b] + Pending(b)]'
         = [[b \in Area |-> ma_freepages[b] + Pending(b)] EXCEPT ![a] = @ + (e - s + 1)]
  <2> DEFINE F == [b \in Area |-> ma_freepages[b] + Pending(b)]
             G == [b \in Area |-> ma_freepages'[b] + Pending(b)']
  <2>1. F = [b \in Area |-> F[b]] /\ G = [b \in Area |-> G[b]]
    OBVIOUS
  <2>2. F[a] = ma_freepages[a] + Pending(a) /\ G[a] = ma_freepages'[a] + Pending(a)'
    BY <1>1
  <2>3. \A b \in Area : /\ F[b] = ma_freepages[b] + Pending(b)
                        /\ G[b] = ma_freepages'[b] + Pending(b)'
    OBVIOUS
  <2> HIDE DEF F, G
  <2>4. F[a] = ma_freepages[a] /\ G[a] = ma_freepages[a] + (e - s + 1)
    BY <1>1, <2>2
  <2>5. \A b \in Area : b # a => G[b] = F[b]
    BY <1>1, <2>3
  <2>6. G[a] = F[a] + (e - s + 1)
    BY <2>4
  <2>7. G = [F EXCEPT ![a] = @ + (e - s + 1)]
    BY <1>1, <2>1, <2>5, <2>6, MovedUp
  <2>8. QED
    BY <2>7 DEF F, G
<1>3. QED
  <2> DEFINE Pg == [b \in Area |-> {p \in Managed : mf_marty[p] = b}]
  <2>1. /\ a \in Area /\ s \in Pg[a] /\ e \in Pg[a] /\ s <= e /\ s .. e \in Runs
        /\ Runs' = Runs \ {s .. e}
    BY <1>1 DEF TookBack
  <2> HIDE DEF Pg
  <2>2. \E b \in Area : \E f, g \in Pg[b] :
          /\ f <= g /\ f .. g \in Runs
          /\ Runs' = Runs \ {f .. g}
          /\ [d \in Area |-> ma_freepages[d] + Pending(d)]'
               = [[d \in Area |-> ma_freepages[d] + Pending(d)] EXCEPT ![b] = @ + (g - f + 1)]
    BY <1>2, <2>1
  <2>3. QED
    BY <2>2 DEF AbstractRuns!Free, Pg

(* A step gives a run out, gives one up, counts pending pages as free, or  *)
(* neither moves a run nor a count.                                        *)
Moves == \/ Unseen /\ counts' = counts
         \/ \E a, s, e : GaveOut(a, s, e)
         \/ \E a, s, e : TookBack(a, s, e)
         \/ Unseen /\ \E a, n : PutBack(a, n)

LEMMA NextMoves ==
  ASSUME IInv, LInv, [Next]_vars
  PROVE  LInv' /\ Moves
<1>1. CASE UNCHANGED vars
  <2>1. /\ ma_lock' = ma_lock /\ call' = call /\ held' = held
        /\ ma_freepages' = ma_freepages /\ counts' = counts
    BY <1>1 DEF vars, counts
  <2>2. LInv' /\ Runs' = Runs /\ \A b \in Area : Pending(b)' = Pending(b)
    BY <2>1 DEF LInv, AreaOf, Runs, Pending
  <2>3. QED
    BY <2>1, <2>2 DEF Unseen, Free, Moves
<1>2. CASE Next
  <2>1. ~died'
    BY NextIInv DEF IInv
  <2>2. PICK c \in Caller :
          \/ \E a \in Area, n \in 1 .. MaxAsk : DivisionPages(c, a, n)
          \/ DivProc(c)
          \/ ProcEmpty(c)
          \/ DivFallback(c)
          \/ NoPages(c)
          \/ DivSplit(c)
          \/ DivDone(c)
          \/ \E r \in held : MergePages(c, r)
          \/ MergeStart(c)
          \/ MergeJoin(c)
          \/ MergeDone(c)
    BY <1>2 DEF Next
  <2>3. CASE \E a \in Area, n \in 1 .. MaxAsk : DivisionPages(c, a, n)
    <3>1. PICK a \in Area, n \in 1 .. MaxAsk : DivisionPages(c, a, n)
      BY <2>3
    <3>2. DivList(a, n) \in Order
      BY <3>1, DivListLeast DEF DivisionPages, CanDiv
    <3>3. TakeBlock(c, a, DivList(a, n), n) /\ ~HasBlock(c) /\ ma_lock[a] = Nobody
      BY <3>1 DEF DivisionPages, HasBlock
    <3>4. counts' = counts
      BY <3>3 DEF TakeBlock
    <3>5. QED
      BY <3>2, <3>3, <3>4, TakeKeeps DEF Moves
  <2>4. CASE DivProc(c)
    <3>1. TakeBlock(c, PROC, 0, 1) /\ ~HasBlock(c) /\ ma_lock[PROC] = Nobody
      BY <2>4 DEF DivProc, HasBlock
    <3>2. counts' = counts
      BY <3>1 DEF TakeBlock
    <3>3. QED
      BY <3>1, <3>2, AreaAssumption, OderFacts, TakeKeeps DEF Moves
  <2>5. CASE DivFallback(c)
    <3>1. DivList(KRNL, 1) \in Order
      BY <2>5, DivListLeast DEF DivFallback, CanDiv
    <3>2. /\ TakeBlock(c, KRNL, DivList(KRNL, 1), 1) /\ ~HasBlock(c)
          /\ ma_lock[KRNL] = Nobody
      BY <2>5 DEF DivFallback, HasBlock
    <3>3. counts' = counts
      BY <3>2 DEF TakeBlock
    <3>4. QED
      BY <3>1, <3>2, <3>3, AreaAssumption, TakeKeeps DEF Moves
  <2>6. CASE ProcEmpty(c) \/ NoPages(c)
    <3>1. counts' = counts
      BY <2>6 DEF ProcEmpty, NoPages
    <3>2. QED
      BY <2>6, <3>1, EmptyKeeps DEF Moves
  <2>7. CASE DivSplit(c)
    <3>1. counts' = counts
      BY <2>1, <2>7 DEF DivSplit, SystemError
    <3>2. QED
      BY <2>1, <2>7, <3>1, SplitKeeps DEF Moves
  <2>8. CASE DivDone(c)
    BY <2>1, <2>8, DoneGives DEF Moves
  <2>9. CASE \E r \in held : MergePages(c, r)
    <3>1. counts' = counts
      BY <2>9 DEF MergePages
    <3>2. QED
      BY <2>9, <3>1, BackKeeps DEF Moves
  <2>10. CASE MergeStart(c)
    BY <2>10, StartGives DEF Moves
  <2>11. CASE MergeJoin(c)
    <3>1. counts' = counts
      BY <2>11 DEF MergeJoin
    <3>2. QED
      BY <2>11, <3>1, JoinKeeps DEF Moves
  <2>12. CASE MergeDone(c)
    BY <2>1, <2>12, PutKeeps DEF Moves
  <2>13. QED
    BY <2>2, <2>3, <2>4, <2>5, <2>6, <2>7, <2>8, <2>9, <2>10, <2>11, <2>12
<1>3. QED
  BY <1>1, <1>2

(* The allocator implements PageRuns: whatever callers do at the same      *)
(* time, runs are pages of one area that nobody holds, and the pages of an *)
(* area that are not given out are the ones it counts as free, but for     *)
(* those on their way back.                                                *)
THEOREM Implements == Spec => ImplementsPageRuns
<1>1. Init => LInv /\ AbstractRuns!Init
  <2> SUFFICES ASSUME Init PROVE LInv /\ AbstractRuns!Init
    OBVIOUS
  <2>1. /\ held = {} /\ ma_lock = [a \in Area |-> Nobody]
        /\ call = [c \in Caller |-> Idle]
        /\ ma_freepages = [a \in Area |-> Cardinality({p \in Managed : mf_marty[p] = a})]
    BY DEF Init
  <2>2. \A c \in Caller : call[c].pc = "idle"
    BY <2>1 DEF Idle
  <2>3. Runs = {}
    <3>1. \A q : q \notin Runs
      BY <2>1, <2>2, RunsAre
    <3>2. QED
      BY <3>1
  <2>4. \A a \in Area : Cardinality({p \in Managed : mf_marty[p] = a}) \in Nat
    <3>1. IsFiniteSet(Page)
      BY FS_Interval, AreaAssumption DEF Page
    <3>2. \A a \in Area : {p \in Managed : mf_marty[p] = a} \subseteq Page
      BY DEF Managed
    <3>3. \A a \in Area : IsFiniteSet({p \in Managed : mf_marty[p] = a})
      BY <3>1, <3>2, FS_Subset
    <3>4. QED
      BY <3>3, FS_CardinalityType
  <2>5. \A a \in Area : Pending(a) = 0
    BY <2>1 DEF Pending
  <2>6. ma_freepages \in [Area -> Int]
    BY <2>1, <2>4
  <2>7. LInv
    BY <2>1, <2>6 DEF LInv
  <2>8. [a \in Area |-> ma_freepages[a] + Pending(a)]
          = [a \in Area |-> Cardinality([b \in Area |->
               {p \in Managed : mf_marty[p] = b}][a])]
    BY <2>1, <2>4, <2>5
  <2>9. AbstractRuns!Init
    <3>1. \A S : AbstractRuns!Cardinality(S) = Cardinality(S)
      BY DEF AbstractRuns!Cardinality, Cardinality
    <3>2. QED
      BY <2>3, <2>8, <3>1, Zenon DEF AbstractRuns!Init
  <2>10. QED
    BY <2>7, <2>9
<1>2. IInv /\ LInv /\ [Next]_vars => LInv' /\ (Unseen \/ AbstractRuns!Next)
  <2> SUFFICES ASSUME IInv, LInv, [Next]_vars
               PROVE  LInv' /\ (Unseen \/ AbstractRuns!Next)
    OBVIOUS
  <2>1. LInv' /\ Moves
    BY NextMoves
  <2>2. (\E a, s, e : GaveOut(a, s, e)) => AbstractRuns!Alloc
    BY GivesAllocs
  <2>3. (\E a, s, e : TookBack(a, s, e)) => AbstractRuns!Free
    BY BackFrees
  <2>4. QED
    BY <2>1, <2>2, <2>3 DEF Moves, AbstractRuns!Next
<1>3. Unseen => UNCHANGED <<Runs, [a \in Area |-> ma_freepages[a] + Pending(a)]>>
  BY DEF Unseen, Free
<1>4. QED
  BY <1>1, <1>2, <1>3, Safety, PTL DEF Spec, ImplementsPageRuns, AbstractRuns!Spec

-----------------------------------------------------------------------------
(* The counts.                                                             *)

Mine(a)   == {p \in Managed : mf_marty[p] = a}
Left      == {p \in Managed : \A r \in Runs : p \notin r}
LeftOf(a) == {p \in Left : mf_marty[p] = a}
(* Pages that are being joined, by area. *)
PendSet   == {x \in Area \X Nat : 1 <= x[2] /\ x[2] <= Pending(x[1])}

(* An area counts the pages that nobody holds, but for those that are      *)
(* being joined; so does the machine.                                      *)
CInv ==
  /\ ma_allocpages \in [Area -> Int]
  /\ memmgrob \in [mo_freepages : Int, mo_alocpages : Int]
  /\ \A a \in Area : Free(a) = Cardinality(LeftOf(a))
  /\ \A a \in Area : ma_freepages[a] + ma_allocpages[a] = Cardinality(Mine(a))
  /\ memmgrob.mo_freepages + memmgrob.mo_alocpages = Cardinality(Managed)
  /\ IsFiniteSet(PendSet)
  /\ memmgrob.mo_freepages + Cardinality(PendSet) = Cardinality(Left)

(* Sets of pages are finite. *)
LEMMA FinitePages ==
  /\ IsFiniteSet(Managed) /\ Cardinality(Managed) \in Nat
  /\ IsFiniteSet(Left) /\ Cardinality(Left) \in Nat
  /\ Cardinality(Left) <= Cardinality(Managed)
  /\ \A a : /\ IsFiniteSet(LeftOf(a)) /\ Cardinality(LeftOf(a)) \in Nat
            /\ IsFiniteSet(Mine(a)) /\ Cardinality(Mine(a)) \in Nat
            /\ Cardinality(LeftOf(a)) <= Cardinality(Mine(a))
<1>1. IsFiniteSet(Page)
  BY FS_Interval, AreaAssumption DEF Page
<1>2. Managed \in SUBSET Page /\ Left \in SUBSET Managed
  BY DEF Managed, Left
<1>3. IsFiniteSet(Managed)
  BY <1>1, <1>2, FS_Subset
<1>4. IsFiniteSet(Left) /\ Cardinality(Left) <= Cardinality(Managed)
  BY <1>2, <1>3, FS_Subset
<1>5. ASSUME NEW a
      PROVE  /\ IsFiniteSet(LeftOf(a)) /\ IsFiniteSet(Mine(a))
             /\ Cardinality(LeftOf(a)) <= Cardinality(Mine(a))
  <2>1. Mine(a) \in SUBSET Managed /\ LeftOf(a) \in SUBSET Mine(a)
    BY <1>2 DEF Mine, LeftOf
  <2>2. IsFiniteSet(Mine(a))
    BY <1>3, <2>1, FS_Subset
  <2>3. QED
    BY <2>1, <2>2, FS_Subset
<1>6. QED
  BY <1>3, <1>4, <1>5, FS_CardinalityType

(* How many pages a set has with, and without, a run that lies in it or    *)
(* apart from it.                                                          *)
LEMMA RunCount ==
  ASSUME NEW S, IsFiniteSet(S), NEW s \in Int, NEW e \in Int, s <= e
  PROVE  /\ s .. e \subseteq S => Cardinality(S \ (s .. e)) = Cardinality(S) - (e - s + 1)
         /\ S \cap (s .. e) = {} => Cardinality(S \cup (s .. e)) = Cardinality(S) + (e - s + 1)
<1> DEFINE D == s .. e
<1>1. IsFiniteSet(D) /\ Cardinality(D) = e - s + 1
  BY FS_Interval
<1>2. Cardinality(S) \in Nat /\ Cardinality({}) = 0
  BY FS_CardinalityType, FS_EmptySet
<1> HIDE DEF D
<1>3. ASSUME D \subseteq S
      PROVE  Cardinality(S \ D) = Cardinality(S) - (e - s + 1)
  <2>1. S \cap D = D
    BY <1>3
  <2>2. Cardinality(S \ D) = Cardinality(S) - Cardinality(S \cap D)
    BY FS_Difference
  <2>3. QED
    BY <1>1, <2>1, <2>2
<1>4. ASSUME S \cap D = {}
      PROVE  Cardinality(S \cup D) = Cardinality(S) + (e - s + 1)
  <2>1. Cardinality(S \cup D) = Cardinality(S) + Cardinality(D) - Cardinality(S \cap D)
    BY <1>1, FS_Union
  <2>2. Cardinality(S \cap D) = 0
    BY <1>2, <1>4
  <2>3. QED
    BY <1>1, <1>2, <2>1, <2>2
<1>5. QED
  BY <1>3, <1>4 DEF D

(* The pages that are pending in one area come or go.                      *)
LEMMA PendCount ==
  ASSUME IsFiniteSet(PendSet), NEW a \in Area, NEW n \in Nat,
         \A b \in Area : b # a => Pending(b)' = Pending(b)
  PROVE  /\ Pending(a) = 0 /\ Pending(a)' = n =>
              IsFiniteSet(PendSet') /\ Cardinality(PendSet') = Cardinality(PendSet) + n
         /\ Pending(a) = n /\ Pending(a)' = 0 =>
              IsFiniteSet(PendSet') /\ Cardinality(PendSet') = Cardinality(PendSet) - n
<1> DEFINE D == {a} \X (1 .. n)
<1>1. IsFiniteSet(D) /\ Cardinality(D) = n
  <2>1. IsFiniteSet({a}) /\ Cardinality({a}) = 1
    BY FS_Singleton
  <2>2. IsFiniteSet(1 .. n) /\ Cardinality(1 .. n) = n
    BY FS_Interval
  <2>3. IsFiniteSet(D) /\ Cardinality(D) = 1 * n
    BY <2>1, <2>2, FS_Product
  <2>4. QED
    BY <2>3
<1>2. Cardinality(PendSet) \in Nat /\ Cardinality({}) = 0
  BY FS_CardinalityType, FS_EmptySet
<1>3. \A x : x \in PendSet <=> x \in Area \X Nat /\ 1 <= x[2] /\ x[2] <= Pending(x[1])
  BY DEF PendSet
<1>4. \A x : x \in PendSet' <=> x \in Area \X Nat /\ 1 <= x[2] /\ x[2] <= Pending(x[1])'
  BY DEF PendSet, Pending
<1>5. \A x : x \in D <=> x \in Area \X Nat /\ x[1] = a /\ 1 <= x[2] /\ x[2] <= n
  OBVIOUS
<1> HIDE DEF D
<1>6. ASSUME Pending(a) = 0, Pending(a)' = n
      PROVE  IsFiniteSet(PendSet') /\ Cardinality(PendSet') = Cardinality(PendSet) + n
  <2>1. PendSet' = PendSet \cup D /\ PendSet \cap D = {}
    <3>1. \A x \in Area \X Nat : x \in PendSet' <=> x \in PendSet \/ x \in D
      BY <1>3, <1>4, <1>5, <1>6
    <3>2. \A x \in Area \X Nat : ~(x \in PendSet /\ x \in D)
      BY <1>3, <1>5, <1>6
    <3>3. QED
      BY <3>1, <3>2, <1>3, <1>4, <1>5
  <2>2. Cardinality(PendSet \cup D) = Cardinality(PendSet) + n - 0
    BY <1>1, <1>2, <2>1, FS_Union
  <2>3. IsFiniteSet(PendSet \cup D)
    BY <1>1, FS_Union
  <2>4. QED
    BY <1>2, <2>1, <2>2, <2>3
<1>7. ASSUME Pending(a) = n, Pending(a)' = 0
      PROVE  IsFiniteSet(PendSet') /\ Cardinality(PendSet') = Cardinality(PendSet) - n
  <2>1. PendSet' = PendSet \ D /\ PendSet \cap D = D
    <3>1. \A x \in Area \X Nat : x \in PendSet' <=> x \in PendSet /\ x \notin D
      BY <1>3, <1>4, <1>5, <1>7
    <3>2. \A x \in Area \X Nat : x \in D => x \in PendSet
      BY <1>3, <1>5, <1>7
    <3>3. QED
      BY <3>1, <3>2, <1>3, <1>4, <1>5
  <2>2. QED
    BY <1>1, <2>1, FS_Difference
<1>8. QED
  BY <1>6, <1>7

(* What a step does to the pages that are left.                            *)
LEMMA LeftNext ==
  /\ Runs' = Runs => Left' = Left /\ \A b : LeftOf(b)' = LeftOf(b)
  /\ \A a \in Area : \A s, e :
       GaveOut(a, s, e) =>
         /\ s \in Int /\ e \in Int /\ s <= e
         /\ s .. e \subseteq Left /\ Left' = Left \ (s .. e)
         /\ s .. e \subseteq LeftOf(a) /\ LeftOf(a)' = LeftOf(a) \ (s .. e)
         /\ \A b : b # a => LeftOf(b)' = LeftOf(b)
  /\ \A a \in Area : \A s, e :
       TookBack(a, s, e) =>
         /\ s \in Int /\ e \in Int /\ s <= e
         /\ Left \cap (s .. e) = {} /\ Left' = Left \cup (s .. e)
         /\ LeftOf(a) \cap (s .. e) = {} /\ LeftOf(a)' = LeftOf(a) \cup (s .. e)
         /\ \A b : b # a => LeftOf(b)' = LeftOf(b)
<1>0. /\ \A p \in Managed : p \in Int
      /\ Left = {p \in Managed : \A r \in Runs : p \notin r}
      /\ Left' = {p \in Managed : \A r \in Runs' : p \notin r}
      /\ \A b : LeftOf(b) = {p \in Left : mf_marty[p] = b}
      /\ \A b : LeftOf(b)' = {p \in Left' : mf_marty[p] = b}
  BY AreaAssumption DEF Managed, Page, Left, LeftOf, End
<1>1. Runs' = Runs => Left' = Left /\ \A b : LeftOf(b)' = LeftOf(b)
  BY <1>0
<1>2. ASSUME NEW a \in Area, NEW s, NEW e, GaveOut(a, s, e)
      PROVE  /\ s \in Int /\ e \in Int /\ s <= e
             /\ s .. e \subseteq Left /\ Left' = Left \ (s .. e)
             /\ s .. e \subseteq LeftOf(a) /\ LeftOf(a)' = LeftOf(a) \ (s .. e)
             /\ \A b : b # a => LeftOf(b)' = LeftOf(b)
  <2>1. /\ s \in Int /\ e \in Int /\ s <= e
        /\ \A r \in Runs : (s .. e) \cap r = {}
        /\ Runs' = Runs \cup {s .. e}
        /\ \A p \in s .. e : p \in Managed /\ mf_marty[p] = a
    BY <1>0, <1>2 DEF GaveOut
  <2> DEFINE D == s .. e
  <2> HIDE DEF D
  <2>2. /\ \A r \in Runs : D \cap r = {}
        /\ Runs' = Runs \cup {D}
        /\ \A p \in D : p \in Managed /\ mf_marty[p] = a
    BY <2>1 DEF D
  <2>3. D \subseteq Left /\ Left' = Left \ D
    <3>1. /\ \A r \in Runs : \A p \in D : p \notin r
          /\ \A r : r \in Runs' <=> r \in Runs \/ r = D
      BY <2>2
    <3>2. /\ \A p : p \in Left <=> p \in Managed /\ \A r \in Runs : p \notin r
          /\ \A p : p \in Left' <=> p \in Managed /\ \A r \in Runs' : p \notin r
      BY <1>0
    <3>3. \A p \in D : p \in Left /\ p \notin Left'
      BY <2>2, <3>1, <3>2
    <3>4. \A p : p \notin D => (p \in Left' <=> p \in Left)
      BY <3>1, <3>2
    <3>5. QED
      BY <3>3, <3>4
  <2>4. D \subseteq LeftOf(a) /\ LeftOf(a)' = LeftOf(a) \ D
    BY <1>0, <2>2, <2>3
  <2>5. \A b : b # a => LeftOf(b)' = LeftOf(b)
    BY <1>0, <2>2, <2>3
  <2>6. QED
    BY <2>1, <2>3, <2>4, <2>5 DEF D
<1>3. ASSUME NEW a \in Area, NEW s, NEW e, TookBack(a, s, e)
      PROVE  /\ s \in Int /\ e \in Int /\ s <= e
             /\ Left \cap (s .. e) = {} /\ Left' = Left \cup (s .. e)
             /\ LeftOf(a) \cap (s .. e) = {} /\ LeftOf(a)' = LeftOf(a) \cup (s .. e)
             /\ \A b : b # a => LeftOf(b)' = LeftOf(b)
  <2>1. /\ s \in Int /\ e \in Int /\ s <= e
        /\ \A r \in Runs' : (s .. e) \cap r = {}
        /\ s .. e \in Runs /\ Runs' = Runs \ {s .. e}
        /\ \A p \in s .. e : p \in Managed /\ mf_marty[p] = a
    BY <1>0, <1>3 DEF TookBack
  <2> DEFINE D == s .. e
  <2> HIDE DEF D
  <2>2. /\ \A r \in Runs' : D \cap r = {}
        /\ D \in Runs /\ Runs' = Runs \ {D}
        /\ \A p \in D : p \in Managed /\ mf_marty[p] = a
    BY <2>1 DEF D
  <2>3. Left \cap D = {} /\ Left' = Left \cup D
    <3>1. \A p \in D : p \notin Left /\ p \in Left'
      BY <1>0, <2>1, <2>2 DEF D
    <3>2. \A p : p \notin D => (p \in Left' <=> p \in Left)
      BY <1>0, <2>1, <2>2 DEF D
    <3>3. QED
      BY <3>1, <3>2
  <2>4. LeftOf(a) \cap D = {} /\ LeftOf(a)' = LeftOf(a) \cup D
    BY <1>0, <2>2, <2>3
  <2>5. \A b : b # a => LeftOf(b)' = LeftOf(b)
    BY <1>0, <2>2, <2>3
  <2>6. QED
    BY <2>1, <2>3, <2>4, <2>5 DEF D
<1>4. QED
  BY <1>1, <1>2, <1>3

(* What is pending is a number. *)
LEMMA PendingNat ==
  ASSUME IInv
  PROVE  \A b \in Area : Pending(b) \in Nat
BY DEF IInv, TInv, Call, Pending

(* The counts stay right. *)
LEMMA CountsNext ==
  ASSUME IInv, IInv', LInv, LInv', CInv, Moves
  PROVE  CInv'
<1>1. /\ \A b \in Area : Pending(b) \in Int /\ Pending(b)' \in Int
      /\ ma_freepages \in [Area -> Int] /\ ma_freepages' \in [Area -> Int]
  <2>1. (\A b \in Area : Pending(b) \in Nat)'
    BY PendingNat, PTL
  <2>2. QED
    BY <2>1, PendingNat DEF LInv
<1>2. /\ ma_allocpages \in [Area -> Int]
      /\ memmgrob \in [mo_freepages : Int, mo_alocpages : Int]
      /\ \A b \in Area : ma_freepages[b] + Pending(b) = Cardinality(LeftOf(b))
      /\ \A b \in Area : ma_freepages[b] + ma_allocpages[b] = Cardinality(Mine(b))
      /\ memmgrob.mo_freepages + memmgrob.mo_alocpages = Cardinality(Managed)
      /\ IsFiniteSet(PendSet)
      /\ memmgrob.mo_freepages + Cardinality(PendSet) = Cardinality(Left)
  BY DEF CInv, Free
<1>3. /\ memmgrob.mo_freepages \in Int /\ memmgrob.mo_alocpages \in Int
      /\ Cardinality(PendSet) \in Nat
      /\ Cardinality(Managed) \in Nat /\ Cardinality(Left) \in Nat
      /\ \A b \in Area : Cardinality(LeftOf(b)) \in Nat /\ Cardinality(Mine(b)) \in Nat
  BY <1>2, FinitePages, FS_CardinalityType
<1> DEFINE Good ==
      /\ ma_allocpages' \in [Area -> Int]
      /\ memmgrob' \in [mo_freepages : Int, mo_alocpages : Int]
      /\ \A b \in Area : ma_freepages'[b] + Pending(b)' = Cardinality(LeftOf(b)')
      /\ \A b \in Area : ma_freepages'[b] + ma_allocpages'[b] = Cardinality(Mine(b))
      /\ memmgrob'.mo_freepages + memmgrob'.mo_alocpages = Cardinality(Managed)
      /\ IsFiniteSet(PendSet')
      /\ memmgrob'.mo_freepages + Cardinality(PendSet') = Cardinality(Left')
<1>4. SUFFICES Good
  BY DEF CInv, Free, Mine, Managed, End
<1>5. CASE Unseen /\ counts' = counts
  <2>1. /\ ma_freepages' = ma_freepages /\ ma_allocpages' = ma_allocpages
        /\ memmgrob' = memmgrob /\ Runs' = Runs
        /\ \A b \in Area : ma_freepages'[b] + Pending(b)' = ma_freepages[b] + Pending(b)
    BY <1>5 DEF counts, Unseen, Free
  <2>2. \A b \in Area : Pending(b)' = Pending(b)
    BY <1>1, <2>1
  <2>3. PendSet' = PendSet
    BY <2>2 DEF PendSet
  <2>4. QED
    BY <1>2, <2>1, <2>2, <2>3, LeftNext
<1>6. CASE \E a, s, e : GaveOut(a, s, e)
  <2>1. PICK a, s, e : GaveOut(a, s, e)
    BY <1>6
  <2>2. /\ a \in Area /\ CountAlloc(a, e - s + 1)
        /\ Pending(a) = 0 /\ \A b \in Area : Pending(b)' = Pending(b)
    BY <2>1 DEF GaveOut
  <2>3. /\ s \in Int /\ e \in Int /\ s <= e
        /\ s .. e \subseteq Left /\ Left' = Left \ (s .. e)
        /\ s .. e \subseteq LeftOf(a) /\ LeftOf(a)' = LeftOf(a) \ (s .. e)
        /\ \A b : b # a => LeftOf(b)' = LeftOf(b)
    BY <2>1, <2>2, LeftNext
  <2>4. /\ Cardinality(Left') = Cardinality(Left) - (e - s + 1)
        /\ Cardinality(LeftOf(a)') = Cardinality(LeftOf(a)) - (e - s + 1)
    <3>1. IsFiniteSet(Left) /\ IsFiniteSet(LeftOf(a))
      BY FinitePages
    <3>2. Cardinality(Left \ (s .. e)) = Cardinality(Left) - (e - s + 1)
      BY <2>3, <3>1, RunCount
    <3>3. Cardinality(LeftOf(a) \ (s .. e)) = Cardinality(LeftOf(a)) - (e - s + 1)
      BY <2>3, <3>1, RunCount
    <3>4. QED
      BY <2>3, <3>2, <3>3
  <2> DEFINE n == e - s + 1
  <2>5. n \in Int
    BY <2>3
  <2> HIDE DEF n
  <2>6. /\ ma_freepages' = [ma_freepages EXCEPT ![a] = @ - n]
        /\ ma_allocpages' = [ma_allocpages EXCEPT ![a] = @ + n]
        /\ memmgrob' = [mo_freepages |-> memmgrob.mo_freepages - n,
                        mo_alocpages |-> memmgrob.mo_alocpages + n]
    BY <2>2 DEF CountAlloc, n
  <2>7. /\ ma_freepages'[a] = ma_freepages[a] - n /\ ma_allocpages'[a] = ma_allocpages[a] + n
        /\ \A b \in Area : b # a => /\ ma_freepages'[b] = ma_freepages[b]
                                    /\ ma_allocpages'[b] = ma_allocpages[b]
        /\ ma_allocpages' \in [Area -> Int]
        /\ memmgrob' \in [mo_freepages : Int, mo_alocpages : Int]
        /\ memmgrob'.mo_freepages = memmgrob.mo_freepages - n
        /\ memmgrob'.mo_alocpages = memmgrob.mo_alocpages + n
    BY <1>1, <1>2, <1>3, <2>2, <2>5, <2>6
  <2>8. PendSet' = PendSet
    BY <2>2 DEF PendSet
  <2>9. \A b \in Area : ma_freepages'[b] + Pending(b)' = Cardinality(LeftOf(b)')
    <3>1. ma_freepages'[a] + Pending(a)' = Cardinality(LeftOf(a)')
      BY <1>1, <1>2, <1>3, <2>2, <2>4, <2>5, <2>7 DEF n
    <3>2. QED
      BY <1>2, <2>2, <2>3, <2>7, <3>1
  <2>10. \A b \in Area : ma_freepages'[b] + ma_allocpages'[b] = Cardinality(Mine(b))
    BY <1>1, <1>2, <2>2, <2>5, <2>7
  <2>11. memmgrob'.mo_freepages + memmgrob'.mo_alocpages = Cardinality(Managed)
    BY <1>2, <1>3, <2>5, <2>7
  <2>12. memmgrob'.mo_freepages + Cardinality(PendSet') = Cardinality(Left')
    BY <1>2, <1>3, <2>4, <2>5, <2>7, <2>8 DEF n
  <2>13. QED
    BY <1>2, <2>7, <2>8, <2>9, <2>10, <2>11, <2>12
<1>7. CASE \E a, s, e : TookBack(a, s, e)
  <2>1. PICK a, s, e : TookBack(a, s, e)
    BY <1>7
  <2> DEFINE n == e - s + 1
  <2>2. /\ a \in Area /\ counts' = counts
        /\ Pending(a) = 0 /\ Pending(a)' = n
        /\ \A b \in Area : b # a => Pending(b)' = Pending(b)
    BY <2>1 DEF TookBack
  <2>3. /\ s \in Int /\ e \in Int /\ s <= e
        /\ Left \cap (s .. e) = {} /\ Left' = Left \cup (s .. e)
        /\ LeftOf(a) \cap (s .. e) = {} /\ LeftOf(a)' = LeftOf(a) \cup (s .. e)
        /\ \A b : b # a => LeftOf(b)' = LeftOf(b)
    BY <2>1, <2>2, LeftNext
  <2>4. /\ Cardinality(Left') = Cardinality(Left) + n
        /\ Cardinality(LeftOf(a)') = Cardinality(LeftOf(a)) + n
    <3>1. IsFiniteSet(Left) /\ IsFiniteSet(LeftOf(a))
      BY FinitePages
    <3>2. Cardinality(Left \cup (s .. e)) = Cardinality(Left) + (e - s + 1)
      BY <2>3, <3>1, RunCount
    <3>3. Cardinality(LeftOf(a) \cup (s .. e)) = Cardinality(LeftOf(a)) + (e - s + 1)
      BY <2>3, <3>1, RunCount
    <3>4. QED
      BY <2>3, <3>2, <3>3
  <2>5. n \in Nat
    BY <2>3
  <2> HIDE DEF n
  <2>6. /\ ma_freepages' = ma_freepages /\ ma_allocpages' = ma_allocpages
        /\ memmgrob' = memmgrob
    BY <2>2 DEF counts
  <2>7. IsFiniteSet(PendSet') /\ Cardinality(PendSet') = Cardinality(PendSet) + n
    BY <1>2, <2>2, <2>5, PendCount
  <2>8. \A b \in Area : ma_freepages'[b] + Pending(b)' = Cardinality(LeftOf(b)')
    <3>1. ma_freepages'[a] + Pending(a)' = Cardinality(LeftOf(a)')
      BY <1>1, <1>2, <1>3, <2>2, <2>4, <2>5, <2>6
    <3>2. QED
      BY <1>2, <2>2, <2>3, <2>6, <3>1
  <2>9. memmgrob'.mo_freepages + Cardinality(PendSet') = Cardinality(Left')
    BY <1>2, <1>3, <2>4, <2>5, <2>6, <2>7
  <2>10. QED
    BY <1>2, <2>6, <2>7, <2>8, <2>9
<1>8. CASE Unseen /\ \E a, n : PutBack(a, n)
  <2>1. PICK a, n : PutBack(a, n)
    BY <1>8
  <2>2. /\ a \in Area /\ n \in Nat
        /\ ma_freepages' = [ma_freepages EXCEPT ![a] = @ + n]
        /\ ma_allocpages' = [ma_allocpages EXCEPT ![a] = @ - n]
        /\ memmgrob' = [mo_freepages |-> memmgrob.mo_freepages + n,
                        mo_alocpages |-> memmgrob.mo_alocpages - n]
        /\ Pending(a) = n /\ Pending(a)' = 0
        /\ \A b \in Area : b # a => Pending(b)' = Pending(b)
    BY <2>1 DEF PutBack, CountFree
  <2>3. /\ ma_freepages'[a] = ma_freepages[a] + n /\ ma_allocpages'[a] = ma_allocpages[a] - n
        /\ \A b \in Area : b # a => /\ ma_freepages'[b] = ma_freepages[b]
                                    /\ ma_allocpages'[b] = ma_allocpages[b]
        /\ ma_allocpages' \in [Area -> Int]
        /\ memmgrob' \in [mo_freepages : Int, mo_alocpages : Int]
        /\ memmgrob'.mo_freepages = memmgrob.mo_freepages + n
        /\ memmgrob'.mo_alocpages = memmgrob.mo_alocpages - n
    BY <1>1, <1>2, <1>3, <2>2
  <2>4. Left' = Left /\ \A b : LeftOf(b)' = LeftOf(b)
    BY <1>8, LeftNext DEF Unseen
  <2>5. IsFiniteSet(PendSet') /\ Cardinality(PendSet') = Cardinality(PendSet) - n
    BY <1>2, <2>2, PendCount
  <2>6. \A b \in Area : ma_freepages'[b] + Pending(b)' = Cardinality(LeftOf(b)')
    <3>1. \A b \in Area : ma_freepages'[b] + Pending(b)' = ma_freepages[b] + Pending(b)
      BY <1>8 DEF Unseen, Free
    <3>2. QED
      BY <1>2, <2>4, <3>1
  <2>7. \A b \in Area : ma_freepages'[b] + ma_allocpages'[b] = Cardinality(Mine(b))
    BY <1>1, <1>2, <2>2, <2>3
  <2>8. memmgrob'.mo_freepages + memmgrob'.mo_alocpages = Cardinality(Managed)
    BY <1>2, <1>3, <2>2, <2>3
  <2>9. memmgrob'.mo_freepages + Cardinality(PendSet') = Cardinality(Left')
    BY <1>2, <1>3, <2>2, <2>3, <2>4, <2>5
  <2>10. QED
    BY <1>2, <2>3, <2>5, <2>6, <2>7, <2>8, <2>9
<1> HIDE DEF Good
<1>9. QED
  BY <1>5, <1>6, <1>7, <1>8 DEF Moves

(* The counts are right at boot.                                           *)
LEMMA InitCounts == Init => LInv /\ CInv
<1> SUFFICES ASSUME Init PROVE LInv /\ CInv
  OBVIOUS
<1>1. /\ held = {} /\ ma_lock = [a \in Area |-> Nobody]
      /\ call = [c \in Caller |-> Idle]
      /\ ma_freepages = [a \in Area |-> Cardinality(Mine(a))]
      /\ ma_allocpages = [a \in Area |-> 0]
      /\ memmgrob = [mo_freepages |-> Cardinality(Managed), mo_alocpages |-> 0]
  BY DEF Init, Mine
<1>2. Runs = {}
  <2>1. \A q : q \notin Runs
    BY <1>1, RunsAre DEF Idle
  <2>2. QED
    BY <2>1
<1>3. Left = Managed /\ \A a : LeftOf(a) = Mine(a)
  BY <1>2 DEF Left, LeftOf, Mine
<1>4. \A a \in Area : Pending(a) = 0
  BY <1>1 DEF Pending
<1>5. \A a \in Area : Cardinality(Mine(a)) \in Nat
  BY FinitePages
<1>6. PendSet = {}
  BY <1>4 DEF PendSet
<1>7. IsFiniteSet(PendSet) /\ Cardinality(PendSet) = 0
  BY <1>6, FS_EmptySet
<1>8. Cardinality(Managed) \in Nat
  BY FinitePages
<1>9. LInv
  BY <1>1, <1>5 DEF LInv
<1>10. CInv
  <2>1. ma_allocpages \in [Area -> Int] /\ memmgrob \in [mo_freepages : Int, mo_alocpages : Int]
    BY <1>1, <1>8
  <2>2. \A a \in Area : Free(a) = Cardinality(LeftOf(a))
    BY <1>1, <1>3, <1>4, <1>5 DEF Free
  <2>3. \A a \in Area : ma_freepages[a] + ma_allocpages[a] = Cardinality(Mine(a))
    BY <1>1, <1>5
  <2>4. memmgrob.mo_freepages + memmgrob.mo_alocpages = Cardinality(Managed)
    BY <1>1, <1>8
  <2>5. memmgrob.mo_freepages + Cardinality(PendSet) = Cardinality(Left)
    BY <1>1, <1>3, <1>7, <1>8
  <2>6. QED
    BY <1>7, <2>1, <2>2, <2>3, <2>4, <2>5 DEF CInv
<1>11. QED
  BY <1>9, <1>10

(* The pages that no caller holds are those outside the runs. *)
LEMMA UnheldIs ==
  ASSUME NEW a
  PROVE  Unheld(a) = LeftOf(a)
<1>1. ASSUME NEW p \in Managed
      PROVE  p \in Unheld(a) <=> p \in LeftOf(a)
  <2>1. (\A r \in Runs : p \notin r) <=>
          /\ \A r \in held : p \notin r[1] .. End(r[1], r[2])
          /\ \A c \in Caller : call[c].pc = "check"
                                 => p \notin call[c].msa .. End(call[c].msa, call[c].odr)
    <3>1. \A q : q \in Runs =>
            \/ \E r \in held : q = r[1] .. End(r[1], r[2])
            \/ \E c \in Caller : call[c].pc = "check"
                                   /\ q = call[c].msa .. End(call[c].msa, call[c].odr)
      BY RunsAre
    <3>2. \A r \in held : r[1] .. End(r[1], r[2]) \in Runs
      BY RunsAre
    <3>3. \A c \in Caller : call[c].pc = "check"
                              => call[c].msa .. End(call[c].msa, call[c].odr) \in Runs
      BY RunsAre
    <3>4. QED
      BY <3>1, <3>2, <3>3
  <2>2. QED
    BY <2>1 DEF Unheld, LeftOf, Left
<1>2. QED
  BY <1>1 DEF Unheld, LeftOf, Left

(* The counts of every list, of every area and of the machine agree with   *)
(* the pages that callers hold.                                            *)
THEOREM CountsAgree == Spec => []CountsMatch
<1>1. IInv /\ LInv /\ CInv => CountsMatch
  <2> SUFFICES ASSUME IInv, LInv, CInv PROVE CountsMatch
    OBVIOUS
  <2>1. \A a \in Area, i \in Order : af_fobjnr[a][i] = Cardinality(af_frelst[a][i])
    BY DEF IInv, Counted
  <2>2. \A a \in Area : ma_freepages[a] + Pending(a) = Cardinality(Unheld(a))
    BY UnheldIs DEF CInv, Free
  <2>3. \A a \in Area : ma_freepages[a] + ma_allocpages[a]
                          = Cardinality({p \in Managed : mf_marty[p] = a})
    BY DEF CInv, Mine
  <2>4. ASSUME \A a \in Area : Pending(a) = 0
        PROVE  memmgrob.mo_freepages = Cardinality(UNION {Unheld(a) : a \in Area})
    <3>1. PendSet = {}
      BY <2>4 DEF PendSet
    <3>2. Cardinality(PendSet) = 0
      BY <3>1, FS_EmptySet
    <3>3. Left = UNION {Unheld(a) : a \in Area}
      <4>1. \A p \in Left : mf_marty[p] \in Area /\ p \in LeftOf(mf_marty[p])
        BY AreaAssumption DEF Left, LeftOf, Managed
      <4>2. \A a \in Area : Unheld(a) = LeftOf(a) /\ LeftOf(a) \subseteq Left
        BY UnheldIs DEF LeftOf
      <4>3. QED
        BY <4>1, <4>2
    <3>4. memmgrob.mo_freepages \in Int /\ memmgrob.mo_freepages + 0 = Cardinality(Left)
      BY <3>2 DEF CInv
    <3>5. QED
      BY <3>3, <3>4
  <2>5. memmgrob.mo_freepages + memmgrob.mo_alocpages = Cardinality(Managed)
    BY DEF CInv
  <2>6. QED
    BY <2>1, <2>2, <2>3, <2>4, <2>5 DEF CountsMatch
<1>2. IInv /\ LInv /\ CInv /\ [Next]_vars => LInv' /\ CInv'
  BY NextIInv, NextMoves, CountsNext
<1>3. QED
  BY <1>1, <1>2, InitCounts, Safety, PTL DEF Spec

-----------------------------------------------------------------------------
(* Types.                                                                  *)

(* The values of the descriptors, and how much a caller that joins will    *)
(* count as free.                                                          *)
AInv ==
  /\ md_odlink \in [Page -> Page \cup Order \cup {NoLink}]
  /\ mf_uindx \in [Page -> 0 .. 1]
  /\ \A c \in Caller : call[c].pc = "merge" => call[c].ask <= af_oderpnr[call[c].odr]

(* A step of caller c that writes no descriptor and does not join. *)
LEMMA TypedKept ==
  ASSUME IInv, AInv, NEW c \in Caller, md_odlink' = md_odlink, mf_uindx' = mf_uindx,
         \A d \in Caller : d # c => call'[d] = call[d],
         call'[c].pc # "merge"
  PROVE  AInv'
<1>1. \A d \in Caller : call'[d].pc = "merge" => call'[d].ask <= af_oderpnr[call'[d].odr]
  BY DEF AInv
<1>2. QED
  BY <1>1 DEF AInv

(* The values keep their types.                                            *)
LEMMA NextTyped ==
  ASSUME IInv, IInv', AInv, [Next]_vars
  PROVE  AInv'
<1>0. /\ call \in [Caller -> Call] /\ call' \in [Caller -> Call]
      /\ md_odlink \in [Page -> Page \cup Order \cup {NoLink}]
      /\ mf_uindx \in [Page -> 0 .. 1]
      /\ \A d \in Caller : call[d].pc = "merge" => call[d].ask <= af_oderpnr[call[d].odr]
  BY DEF IInv, TInv, AInv
<1>1. CASE UNCHANGED vars
  BY <1>1 DEF vars, links, AInv
<1>2. CASE Next
  <2>1. ~died'
    BY DEF IInv
  <2>2. PICK c \in Caller :
          \/ \E a \in Area, n \in 1 .. MaxAsk : DivisionPages(c, a, n)
          \/ DivProc(c)
          \/ ProcEmpty(c)
          \/ DivFallback(c)
          \/ NoPages(c)
          \/ DivSplit(c)
          \/ DivDone(c)
          \/ \E r \in held : MergePages(c, r)
          \/ MergeStart(c)
          \/ MergeJoin(c)
          \/ MergeDone(c)
    BY <1>2 DEF Next
  <2>3. CASE \E a, i, n : TakeBlock(c, a, i, n)
    <3>1. PICK a, i, n, s :
            /\ IF OdEnd(s) - s + 1 = af_oderpnr[i]
                 THEN call' = [call EXCEPT ![c] =
                                 [pc |-> "div", msa |-> s, odr |-> i, ask |-> n]]
                 ELSE call' = [call EXCEPT ![c] = Idle]
            /\ UNCHANGED <<links, mf_uindx>>
      BY <2>3 DEF TakeBlock
    <3>2. call'[c].pc # "merge" /\ \A d \in Caller : d # c => call'[d] = call[d]
      BY <1>0, <3>1 DEF Idle
    <3>3. md_odlink' = md_odlink /\ mf_uindx' = mf_uindx
      BY <3>1 DEF links
    <3>4. QED
      BY <3>2, <3>3, TypedKept
  <2>4. CASE ProcEmpty(c) \/ NoPages(c)
    <3>1. call'[c].pc # "merge" /\ \A d \in Caller : d # c => call'[d] = call[d]
      BY <1>0, <2>4 DEF ProcEmpty, NoPages, Idle, Call
    <3>2. md_odlink' = md_odlink /\ mf_uindx' = mf_uindx
      BY <2>4 DEF ProcEmpty, NoPages, links
    <3>3. QED
      BY <3>1, <3>2, TypedKept
  <2>5. CASE \E r \in held : MergePages(c, r)
    <3>1. PICK r : /\ call' = [call EXCEPT ![c] = [pc |-> "check", msa |-> r[1],
                                      odr |-> r[2], ask |-> af_oderpnr[r[2]]]]
                   /\ UNCHANGED <<links, mf_uindx>>
      BY <2>5 DEF MergePages
    <3>2. call'[c].pc # "merge" /\ \A d \in Caller : d # c => call'[d] = call[d]
      BY <1>0, <3>1
    <3>3. md_odlink' = md_odlink /\ mf_uindx' = mf_uindx
      BY <3>1 DEF links
    <3>4. QED
      BY <3>2, <3>3, TypedKept
  <2>6. CASE DivSplit(c)
    <3> DEFINE s == call[c].msa
               i == call[c].odr - 1
               u == s + af_oderpnr[i]
               e == md_odlink[s]
    <3>1. /\ call[c].pc = "div"
          /\ md_odlink' = [md_odlink EXCEPT ![u] = e, ![e] = i, ![s] = u - 1]
          /\ af_frelst' = [af_frelst EXCEPT ![AreaOf(c)][i] = @ \cup {u}]
          /\ call' = [call EXCEPT ![c].odr = i]
          /\ mf_uindx' = mf_uindx
      BY <2>1, <2>6 DEF DivSplit, SystemError
    <3>2. call'[c].odr = i /\ call'[c].pc = "div" /\ \A d \in Caller : d # c => call'[d] = call[d]
      BY <1>0, <3>1 DEF Call
    <3>3. i \in Order
      BY <1>0, <3>2 DEF Call
    <3>4. s \in Page /\ AreaOf(c) \in Area
      BY <3>1, HandFacts DEF HasBlock
    <3>5. u \in Page
      <4>1. af_frelst' \in [Area -> [Order -> SUBSET Page]]
            /\ af_frelst \in [Area -> [Order -> SUBSET Page]]
        BY DEF IInv, TInv
      <4>2. u \in af_frelst'[AreaOf(c)][i]
        BY <3>1, <3>3, <3>4, <4>1
      <4>3. QED
        BY <3>3, <3>4, <4>1, <4>2
    <3>6. u - 1 \in Page
      <4>1. af_oderpnr[i] >= 1 /\ af_oderpnr[i] \in Int
        BY <3>3, OderFacts
      <4>2. s \in Int /\ 0 <= s /\ u \in Int /\ u < PageNr
        BY <3>4, <3>5, PageFacts
      <4>3. u - 1 \in Int /\ 0 <= u - 1 /\ u - 1 < PageNr
        BY <4>1, <4>2, AreaAssumption
      <4>4. QED
        BY <4>3, PageFacts
    <3>7. e \in Page \cup Order \cup {NoLink}
      BY <1>0, <3>4
    <3> HIDE DEF s, i, u, e
    <3>8. md_odlink' \in [Page -> Page \cup Order \cup {NoLink}]
      BY <1>0, <3>1, <3>3, <3>6, <3>7
    <3>9. \A d \in Caller : call'[d].pc = "merge" => call'[d].ask <= af_oderpnr[call'[d].odr]
      BY <1>0, <3>2
    <3>10. QED
      BY <1>0, <3>1, <3>8, <3>9 DEF AInv
  <2>7. CASE DivDone(c)
    <3> DEFINE s == call[c].msa
               e == OdEnd(s)
    <3>1. /\ call[c].pc = "div"
          /\ mf_uindx' = [mf_uindx EXCEPT ![s] = 1, ![e] = 1]
          /\ md_odlink' = [md_odlink EXCEPT ![s] = e]
          /\ call' = [call EXCEPT ![c] = Idle]
      BY <2>1, <2>7 DEF DivDone, SystemError
    <3>2. call'[c].pc = "idle" /\ \A d \in Caller : d # c => call'[d] = call[d]
      BY <1>0, <3>1 DEF Idle
    <3>3. s \in Page
      BY <3>1, HandFacts DEF HasBlock
    <3>4. e \in Page \cup Order \cup {NoLink}
      BY <1>0, <3>3 DEF OdEnd
    <3> HIDE DEF s, e
    <3>5. md_odlink' \in [Page -> Page \cup Order \cup {NoLink}] /\ mf_uindx' \in [Page -> 0 .. 1]
      <4>1. md_odlink' \in [Page -> Page \cup Order \cup {NoLink}]
        BY <1>0, <3>1, <3>4
      <4>2. mf_uindx' \in [Page -> 0 .. 1]
        <5>1. mf_uindx \in [Page -> 0 .. 1] /\ 1 \in 0 .. 1
          BY <1>0
        <5>2. mf_uindx' = [mf_uindx EXCEPT ![s] = 1, ![e] = 1]
          BY <3>1
        <5>3. QED
          BY <5>1, <5>2
      <4>3. QED
        BY <4>1, <4>2
    <3>6. \A d \in Caller : call'[d].pc = "merge" => call'[d].ask <= af_oderpnr[call'[d].odr]
      BY <1>0, <3>2
    <3>7. QED
      BY <3>5, <3>6 DEF AInv
  <2>8. CASE MergeStart(c)
    <3>1. PICK s, i, a, e : /\ s = call[c].msa /\ i = call[c].odr /\ a = AreaOf(c)
                            /\ e = md_odlink[s]
      OBVIOUS
    <3>2. Started(c, s, i, a, e)
      BY <2>8, <3>1, StartFacts
    <3>3. /\ i \in Order /\ e \in Page /\ call[c].ask = af_oderpnr[i]
          /\ mf_uindx' = [mf_uindx EXCEPT ![s] = 0, ![e] = 0]
          /\ md_odlink' = [md_odlink EXCEPT ![s] = e, ![e] = i]
          /\ call' = [call EXCEPT ![c].pc = "merge", ![c].odr = i]
      BY <3>2 DEF Started
    <3>4. md_odlink' \in [Page -> Page \cup Order \cup {NoLink}] /\ mf_uindx' \in [Page -> 0 .. 1]
      BY <1>0, <3>3
    <3>5. /\ call'[c].odr = i /\ call'[c].ask = af_oderpnr[i]
          /\ \A d \in Caller : d # c => call'[d] = call[d]
      BY <1>0, <3>3 DEF Call
    <3>6. \A d \in Caller : call'[d].pc = "merge" => call'[d].ask <= af_oderpnr[call'[d].odr]
      BY <1>0, <3>3, <3>5, OderFacts
    <3>7. QED
      BY <3>4, <3>6 DEF AInv
  <2>9. CASE MergeJoin(c)
    <3>1. PICK s, i, a : s = call[c].msa /\ i = call[c].odr /\ a = AreaOf(c)
      OBVIOUS
    <3>2. PICK t \in Neighbours(c) :
            /\ call[c].pc = "merge"
            /\ IF s < t THEN ClearLinks(s, t, i) ELSE ClearLinks(t, s, i)
            /\ call' = [call EXCEPT ![c].msa = IF s < t THEN s ELSE t, ![c].odr = i + 1]
            /\ mf_uindx' = mf_uindx
      BY <2>9, <3>1 DEF MergeJoin
    <3>3. /\ t \in af_frelst[a][i] /\ s \in Page /\ i \in Order /\ a \in Area
          /\ <<"hand", c, s, i>> \in Pieces
      BY <3>1, <3>2, NeighbourFacts, HandFacts DEF HasBlock
    <3>4. t \in Page /\ End(t, i) \in Page /\ End(s, i) \in Page
      <4>1. <<"free", a, t, i>> \in Pieces
        BY <3>3, FreeFacts
      <4>2. Last(<<"hand", c, s, i>>) \in Page /\ Last(<<"free", a, t, i>>) \in Page
            /\ <<"free", a, t, i>>[3] \in Page
        BY <3>3, <4>1, PieceFacts
      <4>3. QED
        BY <4>2 DEF Last
    <3>5. /\ call'[c].odr = i + 1 /\ call'[c].ask = call[c].ask
          /\ \A d \in Caller : d # c => call'[d] = call[d]
      BY <1>0, <3>2 DEF Call
    <3>6. i + 1 \in Order
      BY <1>0, <3>5 DEF Call
    <3>7. md_odlink' \in [Page -> Page \cup Order \cup {NoLink}]
      <4>1. \A f, g \in Page : ClearLinks(f, g, i) /\ End(f, i) \in Page /\ End(g, i) \in Page
              => md_odlink' \in [Page -> Page \cup Order \cup {NoLink}]
        BY <1>0, <3>6 DEF ClearLinks
      <4>2. QED
        BY <3>2, <3>3, <3>4, <4>1
    <3>8. \A d \in Caller : call'[d].pc = "merge" => call'[d].ask <= af_oderpnr[call'[d].odr]
      <4>1. af_oderpnr[i] < af_oderpnr[i + 1] /\ af_oderpnr[i] \in Int /\ af_oderpnr[i + 1] \in Int
        BY <3>3, <3>6, OderGrows, OderFacts
      <4>2. call[c].ask \in Int /\ call[c].ask <= af_oderpnr[i]
        BY <1>0, <3>1, <3>2 DEF Call
      <4>3. call'[c].ask <= af_oderpnr[call'[c].odr]
        BY <3>5, <4>1, <4>2
      <4>4. QED
        BY <1>0, <3>5, <4>3
    <3>9. QED
      BY <1>0, <3>2, <3>7, <3>8 DEF AInv
  <2>10. CASE MergeDone(c)
    <3> DEFINE s == call[c].msa
               i == call[c].odr
               e == End(s, i)
    <3>1. /\ call[c].pc = "merge"
          /\ md_odlink' = [md_odlink EXCEPT ![s] = e, ![e] = i]
          /\ call' = [call EXCEPT ![c] = Idle]
          /\ mf_uindx' = mf_uindx
      BY <2>1, <2>10 DEF MergeDone, SystemError
    <3>2. call'[c].pc = "idle" /\ \A d \in Caller : d # c => call'[d] = call[d]
      BY <1>0, <3>1 DEF Idle
    <3>3. i \in Order /\ e \in Page
      <4>1. <<"hand", c, s, i>> \in Pieces /\ i \in Order
        BY <3>1, HandFacts DEF HasBlock
      <4>2. Last(<<"hand", c, s, i>>) \in Page
        BY <4>1, PieceFacts
      <4>3. QED
        BY <4>1, <4>2 DEF Last
    <3> HIDE DEF s, i, e
    <3>4. md_odlink' \in [Page -> Page \cup Order \cup {NoLink}]
      BY <1>0, <3>1, <3>3
    <3>5. \A d \in Caller : call'[d].pc = "merge" => call'[d].ask <= af_oderpnr[call'[d].odr]
      BY <1>0, <3>2
    <3>6. QED
      BY <1>0, <3>1, <3>4, <3>5 DEF AInv
  <2>11. QED
    <3>1. (\E a \in Area, n \in 1 .. MaxAsk : DivisionPages(c, a, n))
            \/ DivProc(c) \/ DivFallback(c) => \E a, i, n : TakeBlock(c, a, i, n)
      BY DEF DivisionPages, DivProc, DivFallback
    <3>2. QED
      BY <2>2, <2>3, <2>4, <2>5, <2>6, <2>7, <2>8, <2>9, <2>10, <3>1
<1>3. QED
  BY <1>1, <1>2

(* What is pending in an area lies in the block that is being joined, and  *)
(* no run has it.                                                          *)
Spot(b) == call[ma_lock[b]].msa
LEMMA PendingLeft ==
  ASSUME IInv, LInv, AInv, NEW b \in Area
  PROVE  /\ Pending(b) \in Nat
         /\ Pending(b) > 0 => Spot(b) \in Int
         /\ \A k \in 1 .. Pending(b) : Spot(b) + k - 1 \in LeftOf(b)
<1>1. Pending(b) \in Nat
  BY PendingNat
<1>2. CASE Pending(b) = 0
  BY <1>2
<1>3. CASE Pending(b) > 0
  <2>1. PICK c : c = ma_lock[b]
    OBVIOUS
  <2>2. c # Nobody /\ call[c].pc = "merge" /\ Pending(b) = call[c].ask
    BY <1>3, <2>1 DEF Pending
  <2>3. c \in Caller
    BY <2>1, <2>2 DEF IInv, TInv
  <2> DEFINE x == <<"hand", c, call[c].msa, call[c].odr>>
  <2>4. x \in Pieces /\ ~IsUsed(x) /\ x[3] = Spot(b) /\ x[4] = call[c].odr
    BY <2>1, <2>2, <2>3, HandFacts DEF HasBlock, IsUsed, Spot
  <2>5. AreaOf(c) = b /\ mf_marty[x[3]] = b
    BY <2>1, <2>2 DEF LInv, AreaOf
  <2>6. call[c].ask <= af_oderpnr[call[c].odr] /\ call[c].odr \in Order
    BY <2>2, <2>3, HandFacts DEF AInv, HasBlock
  <2> HIDE DEF x
  <2>7. /\ x[3] \in Int /\ Last(x) \in Int
        /\ x[3] .. Last(x) \subseteq {p \in Managed : mf_marty[p] = b}
        /\ Last(x) - x[3] + 1 = af_oderpnr[call[c].odr]
    BY <2>4, <2>5, PieceArea, PieceFacts
  <2>8. \A r \in Runs : (x[3] .. Last(x)) \cap r = {}
    <3>1. ASSUME NEW r \in Runs
          PROVE  (x[3] .. Last(x)) \cap r = {}
      <4>1. PICK y \in Pieces : IsUsed(y) /\ r = y[3] .. Last(y)
        BY RunPieces
      <4>2. x # y
        BY <2>4, <4>1
      <4>3. QED
        BY <2>4, <4>1, <4>2, PieceSet
    <3>2. QED
      BY <3>1
  <2>9. x[3] .. Last(x) \subseteq LeftOf(b)
    BY <2>7, <2>8 DEF LeftOf, Left
  <2>10. \A k \in 1 .. Pending(b) : x[3] + k - 1 \in x[3] .. Last(x)
    <3>1. af_oderpnr[call[c].odr] \in Int
      BY <2>6, OderFacts
    <3>2. QED
      BY <1>1, <2>2, <2>6, <2>7, <3>1
  <2>11. QED
    BY <1>1, <2>4, <2>7, <2>9, <2>10
<1>4. QED
  BY <1>1, <1>2, <1>3

(* So an area, and the machine, have at least as many pages left.          *)
LEMMA PendingFits ==
  ASSUME IInv, LInv, AInv
  PROVE  /\ \A b \in Area : Pending(b) <= Cardinality(LeftOf(b))
         /\ Cardinality(PendSet) <= Cardinality(Left)
<1>1. ASSUME NEW b \in Area
      PROVE  Pending(b) <= Cardinality(LeftOf(b))
  <2> DEFINE S == 1 .. Pending(b)
             g == [k \in S |-> Spot(b) + k - 1]
  <2>1. Pending(b) \in Nat /\ \A k \in S : Spot(b) \in Int /\ Spot(b) + k - 1 \in LeftOf(b)
    BY PendingLeft
  <2>2. g \in [S -> LeftOf(b)]
    BY <2>1
  <2>3. \A j, k \in S : g[j] = g[k] => j = k
    BY <2>1
  <2>4. Cardinality(S) = Pending(b)
    BY <2>1, FS_Interval
  <2> HIDE DEF S, g
  <2>5. g \in Injection(S, LeftOf(b))
    BY <2>2, <2>3 DEF Injection, IsInjective
  <2>6. Cardinality(S) <= Cardinality(LeftOf(b))
    BY <2>5, FinitePages, FS_Injection
  <2>7. QED
    BY <2>4, <2>6
<1>2. Cardinality(PendSet) <= Cardinality(Left)
  <2> DEFINE f == [x \in PendSet |-> Spot(x[1]) + x[2] - 1]
  <2>1. ASSUME NEW x \in PendSet
        PROVE  /\ x[1] \in Area /\ x[2] \in Int /\ Spot(x[1]) \in Int /\ x = <<x[1], x[2]>>
               /\ Spot(x[1]) + x[2] - 1 \in LeftOf(x[1])
    <3>1. x \in Area \X Nat /\ 1 <= x[2] /\ x[2] <= Pending(x[1])
      BY DEF PendSet
    <3>2. x[1] \in Area /\ x[2] \in Nat /\ x = <<x[1], x[2]>>
      BY <3>1
    <3>3. Pending(x[1]) \in Nat
      BY <3>2, PendingLeft
    <3>4. Pending(x[1]) > 0 /\ x[2] \in 1 .. Pending(x[1])
      BY <3>1, <3>2, <3>3
    <3>5. QED
      BY <3>2, <3>4, PendingLeft
  <2>2. f \in [PendSet -> Left]
    BY <2>1 DEF LeftOf
  <2>3. ASSUME NEW x \in PendSet, NEW y \in PendSet, f[x] = f[y]
        PROVE  x = y
    <3>1. Spot(x[1]) + x[2] - 1 = Spot(y[1]) + y[2] - 1
      BY <2>3
    <3>2. x[1] = y[1]
      BY <2>1, <3>1 DEF LeftOf
    <3>3. x[2] = y[2]
      BY <2>1, <3>1, <3>2
    <3>4. QED
      BY <2>1, <3>2, <3>3
  <2> HIDE DEF f
  <2>4. f \in Injection(PendSet, Left)
    BY <2>2, <2>3 DEF Injection, IsInjective
  <2>5. QED
    BY <2>4, FinitePages, FS_Injection
<1>3. QED
  BY <1>1, <1>2

(* The values at boot. *)
LEMMA InitTyped == Init => AInv
<1> SUFFICES ASSUME Init PROVE AInv
  OBVIOUS
<1>1. /\ mf_uindx = [p \in Page |-> IF p \in Managed THEN 0 ELSE 1]
      /\ \A c \in Caller : call[c].pc = "idle"
      /\ md_odlink = [p \in Page |->
           IF \E i \in Order : BootEnd(p, i)
             THEN CHOOSE i \in Order : BootEnd(p, i)
           ELSE IF \E i \in Order : BootStart(p, i)
             THEN End(p, CHOOSE i \in Order : BootStart(p, i))
           ELSE NoLink]
  BY DEF Init, Idle
<1>2. ASSUME NEW p \in Page, \E i \in Order : BootEnd(p, i)
      PROVE  (CHOOSE i \in Order : BootEnd(p, i)) \in Order
  BY <1>2
<1>3. ASSUME NEW p \in Page, \E i \in Order : BootStart(p, i)
      PROVE  End(p, CHOOSE i \in Order : BootStart(p, i)) \in Page
  <2> DEFINE k == CHOOSE i \in Order : BootStart(p, i)
  <2>1. k \in Order /\ BootStart(p, k)
    BY <1>3
  <2> HIDE DEF k
  <2>2. PICK a \in Area : p \in BootBlocks[a][k]
    BY <2>1 DEF BootStart
  <2>3. End(p, k) \in Page
    BY <2>1, <2>2, BootFacts
  <2>4. QED
    BY <2>3 DEF k
<1>4. md_odlink \in [Page -> Page \cup Order \cup {NoLink}]
  BY <1>1, <1>2, <1>3
<1>5. QED
  BY <1>1, <1>4 DEF AInv

(* The machine runs or has stopped. *)
LEMMA NextDied ==
  ASSUME died \in BOOLEAN, [Next]_vars
  PROVE  died' \in BOOLEAN
<1>1. CASE UNCHANGED vars
  BY <1>1 DEF vars
<1>2. CASE Next
  <2>1. ASSUME NEW c \in Caller
        PROVE  /\ DivSplit(c) => died' = died \/ died' = TRUE
               /\ DivDone(c) => died' = died \/ died' = TRUE
               /\ MergeStart(c) => died' = died \/ died' = TRUE
               /\ MergeDone(c) => died' = died \/ died' = TRUE
    <3>1. DivSplit(c) => died' = died \/ died' = TRUE
      BY Zenon DEF DivSplit, SystemError
    <3>2. DivDone(c) => died' = died \/ died' = TRUE
      BY Zenon DEF DivDone, SystemError
    <3>3. MergeStart(c) => died' = died \/ died' = TRUE
      BY Zenon DEF MergeStart, SystemError
    <3>4. MergeDone(c) => died' = died \/ died' = TRUE
      BY Zenon DEF MergeDone, SystemError
    <3>5. QED
      BY <3>1, <3>2, <3>3, <3>4
  <2>2. ASSUME NEW c \in Caller
        PROVE  /\ \A a, i, n : TakeBlock(c, a, i, n) => died' = died
               /\ ProcEmpty(c) \/ NoPages(c) \/ MergeJoin(c) => died' = died
               /\ \A r : MergePages(c, r) => died' = died
    BY DEF TakeBlock, ProcEmpty, NoPages, MergeJoin, MergePages
  <2>3. died' = died \/ died' = TRUE
    BY <1>2, <2>1, <2>2 DEF Next, DivisionPages, DivProc, DivFallback
  <2>4. QED
    BY <2>3
<1>3. QED
  BY <1>1, <1>2

(* Every variable keeps its type: in particular no count ever falls below  *)
(* zero and no descriptor is used twice.                                   *)
THEOREM TypeCorrect == Spec => []TypeOK
<1>1. IInv /\ LInv /\ CInv /\ AInv /\ died \in BOOLEAN => TypeOK
  <2> SUFFICES ASSUME IInv, LInv, CInv, AInv, died \in BOOLEAN PROVE TypeOK
    OBVIOUS
  <2>1. /\ \A b \in Area : Pending(b) \in Nat /\ Pending(b) <= Cardinality(LeftOf(b))
        /\ Cardinality(PendSet) <= Cardinality(Left)
    BY PendingFits, PendingNat
  <2>2. /\ \A b \in Area : ma_freepages[b] + Pending(b) = Cardinality(LeftOf(b))
        /\ \A b \in Area : ma_freepages[b] + ma_allocpages[b] = Cardinality(Mine(b))
        /\ memmgrob.mo_freepages + memmgrob.mo_alocpages = Cardinality(Managed)
        /\ IsFiniteSet(PendSet)
        /\ memmgrob.mo_freepages + Cardinality(PendSet) = Cardinality(Left)
        /\ ma_freepages \in [Area -> Int] /\ ma_allocpages \in [Area -> Int]
        /\ memmgrob \in [mo_freepages : Int, mo_alocpages : Int]
    BY DEF CInv, LInv, Free
  <2>3. /\ Cardinality(Managed) \in Nat /\ Cardinality(Left) \in Nat
        /\ Cardinality(PendSet) \in Nat
        /\ Cardinality(Left) <= Cardinality(Managed)
        /\ \A b \in Area : /\ Cardinality(LeftOf(b)) \in Nat /\ Cardinality(Mine(b)) \in Nat
                           /\ Cardinality(LeftOf(b)) <= Cardinality(Mine(b))
    BY <2>2, FinitePages, FS_CardinalityType
  <2>4. ASSUME NEW b \in Area
        PROVE  ma_freepages[b] \in Nat /\ ma_allocpages[b] \in Nat
    <3>1. ma_freepages[b] \in Int /\ ma_allocpages[b] \in Int
      BY <2>2
    <3>2. QED
      BY <2>1, <2>2, <2>3, <3>1
  <2>5. memmgrob.mo_freepages \in Nat /\ memmgrob.mo_alocpages \in Nat
    <3>1. memmgrob.mo_freepages \in Int /\ memmgrob.mo_alocpages \in Int
      BY <2>2
    <3>2. QED
      BY <2>1, <2>2, <2>3, <3>1
  <2>6. /\ ma_freepages \in [Area -> Nat] /\ ma_allocpages \in [Area -> Nat]
        /\ memmgrob \in [mo_freepages : Nat, mo_alocpages : Nat]
    BY <2>2, <2>4, <2>5
  <2>7. QED
    BY <2>6 DEF TypeOK, IInv, TInv, AInv
<1>2. IInv /\ LInv /\ CInv /\ AInv /\ [Next]_vars => LInv' /\ CInv' /\ AInv'
  BY NextIInv, NextMoves, CountsNext, NextTyped
<1>3. Init => died \in BOOLEAN
  BY DEF Init
<1>4. died \in BOOLEAN /\ [Next]_vars => (died \in BOOLEAN)'
  BY NextDied
<1>5. QED
  BY <1>1, <1>2, <1>3, <1>4, InitCounts, InitTyped, Safety, PTL DEF Spec
=============================================================================
