------------------------------ MODULE VirMemProofs ------------------------------
(***************************************************************************)
(* Proofs about VirMem, for any number of address spaces, descriptors,     *)
(* boxes, frames and pages.  In every mode, also when a fault handler is   *)
(* preempted and a thread runs early: areas are in order, boxes are        *)
(* counted, no frame is behind two pages, blocks and areas cover the same  *)
(* pages.  Until a handler reads the address of another thread's fault, no *)
(* frame is lost and virtual memory implements PrivMem.                    *)
(***************************************************************************)
EXTENDS VirMem, SequenceTheorems, FiniteSetTheorems, TLAPS

PagesOf(a) == a.kva_start .. a.kva_end - 1
Elems(q)   == {q[i] : i \in DOMAIN q}
(* The areas of list q are not empty and in order. *)
Ordered(q, k) ==
  \A i, j \in DOMAIN q : /\ k[q[i]] # NULL /\ k[q[i]].kva_start < k[q[i]].kva_end
                         /\ i < j => k[q[i]].kva_end <= k[q[j]].kva_start
KvaType == [Kmvd -> Area \cup {NULL}]

-----------------------------------------------------------------------------
(* Lists of areas. *)

LEMMA AreaType ==
  ASSUME NEW a \in Area
  PROVE  /\ a.kva_start \in Page /\ a.kva_end \in 2 .. End /\ a # NULL
         /\ a.kva_start \in Int /\ a.kva_end \in Int
         /\ a.kva_maptype \in Type /\ a.kva_kvmbox \in Box \cup {NULL}
BY VirMemAssumption DEF Area, Page

LEMMA HeadOf ==
  ASSUME NEW q \in Seq(Kmvd), NEW i \in 0 .. Len(q)
  PROVE  /\ SubSeq(q, 1, i) \in Seq(Kmvd) /\ Len(SubSeq(q, 1, i)) = i
         /\ \A j \in 1 .. i : SubSeq(q, 1, i)[j] = q[j]
<1> DEFINE a == SubSeq(q, 1, i)
<1>1. Len(q) \in Nat /\ i \in Int /\ 1 \in Int /\ \A j \in 1 .. i : q[j] \in Kmvd
  BY LenProperties, ElementOfSeq
<1>2. /\ a \in Seq(Kmvd) /\ Len(a) = IF 1 <= i THEN i - 1 + 1 ELSE 0
      /\ \A j \in 1 .. i - 1 + 1 : a[j] = q[1 + j - 1]
  BY <1>1, SubSeqProperties
<1> HIDE DEF a
<1>3. i - 1 + 1 = i /\ i >= 0
  BY <1>1
<1>4. ASSUME NEW j \in 1 .. i PROVE a[j] = q[j]
  <2>1. a[j] = q[1 + j - 1] /\ 1 + j - 1 = j
    BY <1>1, <1>2, <1>3
  <2> QED BY <2>1
<1>5. Len(a) = i
  BY <1>1, <1>2
<1> QED BY <1>2, <1>4, <1>5 DEF a

LEMMA RestOf ==
  ASSUME NEW q \in Seq(Kmvd), NEW i \in 0 .. Len(q)
  PROVE  LET z == SubSeq(q, i + 1, Len(q))
         IN  /\ z \in Seq(Kmvd) /\ Len(z) = Len(q) - i
             /\ \A j \in 1 .. Len(q) - i : z[j] = q[i + j]
<1> DEFINE z == SubSeq(q, i + 1, Len(q))
<1>1. Len(q) \in Nat /\ Len(q) \in Int /\ i + 1 \in Int
  BY LenProperties
<1>2. \A j \in i + 1 .. Len(q) : q[j] \in Kmvd
  BY <1>1, ElementOfSeq
<1>3. /\ z \in Seq(Kmvd) /\ Len(z) = IF i + 1 <= Len(q) THEN Len(q) - (i + 1) + 1 ELSE 0
      /\ \A j \in 1 .. Len(q) - (i + 1) + 1 : z[j] = q[(i + 1) + j - 1]
  BY <1>1, <1>2, SubSeqProperties
<1> HIDE DEF z
<1>4. ASSUME NEW j \in 1 .. Len(q) - i PROVE z[j] = q[i + j]
  <2>1. j \in 1 .. Len(q) - (i + 1) + 1 /\ (i + 1) + j - 1 = i + j
    BY <1>1
  <2>2. z[j] = q[(i + 1) + j - 1]
    BY <1>3, <2>1
  <2> QED BY <2>1, <2>2
<1>5. Len(z) = Len(q) - i
  BY <1>1, <1>3
<1> QED BY <1>3, <1>4, <1>5 DEF z

LEMMA Joined ==
  ASSUME NEW s \in Seq(Kmvd), NEW t \in Seq(Kmvd)
  PROVE  /\ s \o t \in Seq(Kmvd) /\ Len(s \o t) = Len(s) + Len(t)
         /\ DOMAIN (s \o t) = 1 .. Len(s) + Len(t)
         /\ \A j \in 1 .. Len(s) : (s \o t)[j] = s[j]
         /\ \A j \in 1 .. Len(t) : (s \o t)[Len(s) + j] = t[j]
<1>1. Len(s) \in Nat /\ Len(t) \in Nat
  BY LenProperties
<1>2. /\ s \o t \in Seq(Kmvd) /\ Len(s \o t) = Len(s) + Len(t)
      /\ \A i \in 1 .. Len(s) + Len(t) : (s \o t)[i] = IF i <= Len(s) THEN s[i] ELSE t[i - Len(s)]
  BY ConcatProperties
<1> DEFINE w == s \o t
<1>3. /\ w \in Seq(Kmvd) /\ Len(w) = Len(s) + Len(t)
      /\ \A i \in 1 .. Len(s) + Len(t) : w[i] = IF i <= Len(s) THEN s[i] ELSE t[i - Len(s)]
  BY <1>2
<1> HIDE DEF w
<1>4. DOMAIN w = 1 .. Len(s) + Len(t)
  BY <1>3, LenProperties
<1>5. ASSUME NEW j \in 1 .. Len(s) PROVE w[j] = s[j]
  <2>1. j \in 1 .. Len(s) + Len(t) /\ j <= Len(s)
    BY <1>1
  <2> QED BY <1>3, <2>1
<1>6. ASSUME NEW j \in 1 .. Len(t) PROVE w[Len(s) + j] = t[j]
  <2>1. Len(s) + j \in 1 .. Len(s) + Len(t) /\ ~(Len(s) + j <= Len(s)) /\ Len(s) + j - Len(s) = j
    BY <1>1
  <2>2. w[Len(s) + j] = t[Len(s) + j - Len(s)]
    BY <1>3, <2>1
  <2> QED BY <2>1, <2>2
<1> QED BY <1>3, <1>4, <1>5, <1>6 DEF w

(* List w is q with the area d behind the i-th one. *)
Inserted(w, q, i, d) ==
  /\ w \in Seq(Kmvd) /\ DOMAIN w = 1 .. Len(q) + 1
  /\ Len(q) \in Nat /\ DOMAIN q = 1 .. Len(q)
  /\ \A j \in 1 .. i : w[j] = q[j]
  /\ w[i + 1] = d
  /\ \A j \in i + 1 .. Len(q) : w[j + 1] = q[j]
  /\ Elems(w) = Elems(q) \cup {d}

LEMMA InsertSeq ==
  ASSUME NEW q \in Seq(Kmvd), NEW i \in DOMAIN q, NEW d \in Kmvd,
         NEW w, w = InsertAfter(q, i, d)
  PROVE  Inserted(w, q, i, d)
<1> DEFINE a == SubSeq(q, 1, i)
           z == SubSeq(q, i + 1, Len(q))
           o == <<d>>
           x == a \o o
<1>1. Len(q) \in Nat /\ DOMAIN q = 1 .. Len(q) /\ i \in 1 .. Len(q) /\ i \in 0 .. Len(q)
  BY LenProperties
<1>2. a \in Seq(Kmvd) /\ Len(a) = i /\ \A j \in 1 .. i : a[j] = q[j]
  BY <1>1, HeadOf
<1>3. z \in Seq(Kmvd) /\ Len(z) = Len(q) - i /\ \A j \in 1 .. Len(q) - i : z[j] = q[i + j]
  BY <1>1, RestOf
<1>4. o \in Seq(Kmvd) /\ Len(o) = 1 /\ o[1] = d
  OBVIOUS
<1>5. w = x \o z
  BY DEF InsertAfter
<1> HIDE DEF a, z, o
<1>6. x \in Seq(Kmvd) /\ Len(x) = i + 1 /\ (\A j \in 1 .. i : x[j] = q[j]) /\ x[i + 1] = d
  <2>1. /\ x \in Seq(Kmvd) /\ Len(x) = Len(a) + Len(o)
        /\ \A j \in 1 .. Len(a) : x[j] = a[j]
        /\ \A j \in 1 .. Len(o) : x[Len(a) + j] = o[j]
    BY <1>2, <1>4, Joined
  <2> HIDE DEF x
  <2>2. 1 \in 1 .. Len(o)
    BY <1>4
  <2>3. x[i + 1] = d
    BY <1>2, <1>4, <2>1, <2>2
  <2> QED BY <1>2, <1>4, <2>1, <2>3
<1> HIDE DEF x
<1>7. /\ w \in Seq(Kmvd) /\ DOMAIN w = 1 .. Len(x) + Len(z)
      /\ \A j \in 1 .. Len(x) : w[j] = x[j]
      /\ \A j \in 1 .. Len(z) : w[Len(x) + j] = z[j]
  BY <1>3, <1>5, <1>6, Joined
<1>8. Len(x) + Len(z) = Len(q) + 1
  BY <1>1, <1>3, <1>6
<1>9. /\ \A j \in 1 .. i : w[j] = q[j]
      /\ w[i + 1] = d
  <2>1. i + 1 \in 1 .. Len(x) /\ \A j \in 1 .. i : j \in 1 .. Len(x)
    BY <1>1, <1>6
  <2> QED BY <1>6, <1>7, <2>1
<1>10. ASSUME NEW j \in i + 1 .. Len(q) PROVE w[j + 1] = q[j]
  <2>a. i \in Int /\ Len(q) \in Int /\ j \in Int /\ i + 1 <= j /\ j <= Len(q)
    BY <1>1
  <2>b. j - i \in Int /\ 1 <= j - i /\ j - i <= Len(q) - i
    BY <2>a
  <2>c. j - i \in 1 .. Len(q) - i
    BY <2>a, <2>b
  <2>d. (i + 1) + (j - i) = j + 1
    BY <2>a
  <2>e. i + (j - i) = j
    BY <2>a
  <2>0. j - i \in 1 .. Len(q) - i /\ (i + 1) + (j - i) = j + 1 /\ i + (j - i) = j
    BY <2>c, <2>d, <2>e
  <2>1. j - i \in 1 .. Len(z) /\ Len(x) + (j - i) = j + 1 /\ i + (j - i) = j /\ Len(z) = Len(q) - i
    BY <1>3, <1>6, <2>0
  <2>2. w[Len(x) + (j - i)] = z[j - i] /\ z[j - i] = q[i + (j - i)]
    BY <1>3, <1>7, <2>1
  <2> QED BY <2>1, <2>2
<1>11. Elems(w) = Elems(q) \cup {d}
  <2>1. ASSUME NEW j \in DOMAIN w PROVE w[j] \in Elems(q) \cup {d}
    <3>1. CASE j <= i
      <4>1. j \in 1 .. i /\ j \in DOMAIN q
        BY <1>1, <1>7, <1>8, <3>1
      <4> QED BY <1>9, <4>1 DEF Elems
    <3>2. CASE j > i + 1
      <4>1. j - 1 \in i + 1 .. Len(q) /\ j - 1 \in DOMAIN q /\ j - 1 + 1 = j
        BY <1>1, <1>7, <1>8, <3>2
      <4>2. w[j - 1 + 1] = q[j - 1]
        BY <1>10, <4>1
      <4> QED BY <4>1, <4>2 DEF Elems
    <3> QED BY <1>1, <1>7, <1>8, <1>9, <3>1, <3>2
  <2>2. ASSUME NEW j \in DOMAIN q PROVE q[j] \in Elems(w)
    <3>1. CASE j <= i
      <4>1. j \in 1 .. i /\ j \in DOMAIN w
        BY <1>1, <1>7, <1>8, <3>1
      <4> QED BY <1>9, <4>1 DEF Elems
    <3>2. CASE j > i
      <4>1. j \in i + 1 .. Len(q) /\ j + 1 \in DOMAIN w
        BY <1>1, <1>7, <1>8, <3>2
      <4>2. w[j + 1] = q[j]
        BY <1>10, <4>1
      <4> QED BY <4>1, <4>2 DEF Elems
    <3> QED BY <1>1, <3>1, <3>2
  <2>3. d \in Elems(w)
    <3>1. i + 1 \in DOMAIN w
      BY <1>1, <1>7, <1>8
    <3> QED BY <1>9, <3>1 DEF Elems
  <2>4. Elems(w) \subseteq Elems(q) \cup {d}
    BY <2>1 DEF Elems
  <2>5. Elems(q) \subseteq Elems(w)
    BY <2>2 DEF Elems
  <2> QED BY <2>3, <2>4, <2>5
<1> QED BY <1>1, <1>7, <1>8, <1>9, <1>10, <1>11 DEF Inserted

(* The list without the i-th area *)
LEMMA WithoutSeq ==
  ASSUME NEW q \in Seq(Kmvd), NEW i \in DOMAIN q,
         NEW w, w = Without(q, i)
  PROVE  /\ w \in Seq(Kmvd) /\ DOMAIN w = 1 .. Len(q) - 1
         /\ Len(q) \in Nat /\ DOMAIN q = 1 .. Len(q)
         /\ \A j \in 1 .. i - 1 : w[j] = q[j]
         /\ \A j \in i + 1 .. Len(q) : w[j - 1] = q[j]
         /\ Elems(w) = {q[j] : j \in DOMAIN q \ {i}}
<1> DEFINE a == SubSeq(q, 1, i - 1)
           z == SubSeq(q, i + 1, Len(q))
<1>1. /\ Len(q) \in Nat /\ DOMAIN q = 1 .. Len(q) /\ i \in 1 .. Len(q)
      /\ i \in 0 .. Len(q) /\ i - 1 \in 0 .. Len(q)
  BY LenProperties
<1>2. a \in Seq(Kmvd) /\ Len(a) = i - 1 /\ \A j \in 1 .. i - 1 : a[j] = q[j]
  BY <1>1, HeadOf
<1>3. z \in Seq(Kmvd) /\ Len(z) = Len(q) - i /\ \A j \in 1 .. Len(q) - i : z[j] = q[i + j]
  BY <1>1, RestOf
<1>4. w = a \o z
  BY DEF Without
<1> HIDE DEF a, z
<1>5. /\ w \in Seq(Kmvd) /\ DOMAIN w = 1 .. Len(a) + Len(z)
      /\ \A j \in 1 .. Len(a) : w[j] = a[j]
      /\ \A j \in 1 .. Len(z) : w[Len(a) + j] = z[j]
  BY <1>2, <1>3, <1>4, Joined
<1>6. Len(a) + Len(z) = Len(q) - 1
  BY <1>1, <1>2, <1>3
<1>7. \A j \in 1 .. i - 1 : w[j] = q[j]
  BY <1>2, <1>5
<1>8. ASSUME NEW j \in i + 1 .. Len(q) PROVE w[j - 1] = q[j]
  <2>1. j - i \in 1 .. Len(z) /\ Len(a) + (j - i) = j - 1 /\ i + (j - i) = j /\ Len(z) = Len(q) - i
    BY <1>1, <1>2, <1>3
  <2>2. w[Len(a) + (j - i)] = z[j - i] /\ z[j - i] = q[i + (j - i)]
    BY <1>3, <1>5, <2>1
  <2> QED BY <2>1, <2>2
<1>9. Elems(w) = {q[j] : j \in DOMAIN q \ {i}}
  <2>1. ASSUME NEW j \in DOMAIN w PROVE \E k \in DOMAIN q \ {i} : w[j] = q[k]
    <3>1. CASE j < i
      <4>1. j \in 1 .. i - 1 /\ j \in DOMAIN q \ {i}
        BY <1>1, <1>5, <1>6, <3>1
      <4> QED BY <1>7, <4>1
    <3>2. CASE j >= i
      <4>1. j + 1 \in i + 1 .. Len(q) /\ j + 1 \in DOMAIN q \ {i} /\ j + 1 - 1 = j
        BY <1>1, <1>5, <1>6, <3>2
      <4>2. PICK k \in i + 1 .. Len(q) : k = j + 1
        BY <4>1
      <4>3. w[k - 1] = q[k]
        BY <1>8
      <4>4. k - 1 = j
        <5>1. j \in Int
          BY <1>5, <1>6, <1>1
        <5> QED BY <4>2, <5>1
      <4> QED BY <4>1, <4>2, <4>3, <4>4
    <3> QED BY <1>1, <1>5, <1>6, <3>1, <3>2
  <2>2. ASSUME NEW j \in DOMAIN q \ {i} PROVE \E k \in DOMAIN w : w[k] = q[j]
    <3>1. CASE j < i
      <4>1. j \in 1 .. i - 1 /\ j \in DOMAIN w
        BY <1>1, <1>5, <1>6, <3>1
      <4> QED BY <1>7, <4>1
    <3>2. CASE j > i
      <4>1. j \in i + 1 .. Len(q) /\ j - 1 \in DOMAIN w
        BY <1>1, <1>5, <1>6, <3>2
      <4>2. w[j - 1] = q[j]
        BY <1>8, <4>1
      <4> QED BY <4>1, <4>2
    <3> QED BY <1>1, <3>1, <3>2
  <2> QED BY <2>1, <2>2 DEF Elems
<1> QED BY <1>1, <1>5, <1>6, <1>7, <1>8, <1>9

(* In an ordered list no area stands twice. *)
LEMMA OrderedOnce ==
  ASSUME NEW q \in Seq(Kmvd), NEW k \in KvaType, Ordered(q, k),
         NEW i \in DOMAIN q, NEW j \in DOMAIN q, q[i] = q[j]
  PROVE  i = j
<1>1. i \in Nat /\ j \in Nat /\ q[i] \in Kmvd
  BY LenProperties, ElementOfSeq
<1>2. k[q[i]] \in Area
  BY <1>1 DEF Ordered, KvaType
<1>3. k[q[i]].kva_start < k[q[i]].kva_end /\ k[q[i]].kva_start \in Int /\ k[q[i]].kva_end \in Int
  BY <1>2, AreaType DEF Ordered
<1>4. ASSUME i < j \/ j < i PROVE FALSE
  <2>1. k[q[i]].kva_end <= k[q[i]].kva_start
    BY <1>4 DEF Ordered
  <2> QED BY <1>3, <2>1
<1> QED BY <1>1, <1>4

(* One area of the list changes its ends. *)
LEMMA OrderedChange ==
  ASSUME NEW q \in Seq(Kmvd), NEW k \in KvaType, NEW l \in KvaType, Ordered(q, k),
         NEW i \in DOMAIN q, \A j \in DOMAIN q : j # i => l[q[j]] = k[q[j]],
         l[q[i]] # NULL, l[q[i]].kva_start < l[q[i]].kva_end,
         k[q[i]].kva_start <= l[q[i]].kva_start,
         l[q[i]].kva_end <= k[q[i]].kva_end \/ i = Len(q) \/ l[q[i]].kva_end <= k[q[i + 1]].kva_start
  PROVE  Ordered(q, l)
<1>1. /\ Len(q) \in Nat /\ DOMAIN q = 1 .. Len(q)
      /\ \A j \in DOMAIN q : /\ k[q[j]].kva_start \in Int /\ k[q[j]].kva_end \in Int
                             /\ l[q[i]].kva_start \in Int /\ l[q[i]].kva_end \in Int
  <2>1. Len(q) \in Nat /\ DOMAIN q = 1 .. Len(q) /\ \A j \in DOMAIN q : q[j] \in Kmvd
    BY LenProperties, ElementOfSeq
  <2>2. \A j \in DOMAIN q : k[q[j]] \in Area /\ l[q[i]] \in Area
    BY <2>1 DEF Ordered, KvaType
  <2> QED BY <2>1, <2>2, AreaType
<1>2. ASSUME NEW j \in DOMAIN q, i < j PROVE l[q[i]].kva_end <= k[q[j]].kva_start
  <2>1. CASE l[q[i]].kva_end <= k[q[i]].kva_end
    BY <1>1, <1>2, <2>1 DEF Ordered
  <2>2. CASE i # Len(q) /\ l[q[i]].kva_end <= k[q[i + 1]].kva_start
    <3>1. i + 1 \in DOMAIN q /\ (j = i + 1 \/ i + 1 < j)
      BY <1>1, <1>2, <2>2
    <3>2. k[q[i + 1]].kva_start <= k[q[j]].kva_start
      <4>1. CASE j = i + 1
        BY <1>1, <4>1
      <4>2. CASE i + 1 < j
        <5>1. k[q[i + 1]].kva_start < k[q[i + 1]].kva_end /\ k[q[i + 1]].kva_end <= k[q[j]].kva_start
          BY <3>1, <4>2 DEF Ordered
        <5> QED BY <1>1, <3>1, <5>1
      <4> QED BY <3>1, <4>1, <4>2
    <3> QED BY <1>1, <2>2, <3>1, <3>2
  <2>3. i # Len(q)
    BY <1>1, <1>2
  <2> QED BY <2>1, <2>2, <2>3
<1>3. ASSUME NEW j \in DOMAIN q, j < i PROVE k[q[j]].kva_end <= l[q[i]].kva_start
  <2>1. k[q[j]].kva_end <= k[q[i]].kva_start
    BY <1>3 DEF Ordered
  <2> QED BY <1>1, <2>1
<1>4. ASSUME NEW j \in DOMAIN q
      PROVE  l[q[j]] # NULL /\ l[q[j]].kva_start < l[q[j]].kva_end
  BY DEF Ordered
<1>5. ASSUME NEW j \in DOMAIN q, NEW h \in DOMAIN q, j < h
      PROVE  l[q[j]].kva_end <= l[q[h]].kva_start
  <2>1. CASE j = i
    BY <1>1, <1>2, <1>5, <2>1
  <2>2. CASE h = i
    BY <1>1, <1>3, <1>5, <2>2
  <2>3. CASE j # i /\ h # i
    BY <1>5, <2>3 DEF Ordered
  <2> QED BY <2>1, <2>2, <2>3
<1> QED BY <1>4, <1>5 DEF Ordered

(* A new area fits behind the i-th one. *)
LEMMA OrderedInsert ==
  ASSUME NEW q \in Seq(Kmvd), NEW k \in KvaType, Ordered(q, k),
         NEW i \in DOMAIN q, NEW d \in Kmvd,
         k[d] # NULL, k[d].kva_start < k[d].kva_end, k[q[i]].kva_end <= k[d].kva_start,
         i = Len(q) \/ k[d].kva_end <= k[q[i + 1]].kva_start
  PROVE  Ordered(InsertAfter(q, i, d), k)
<1>0. PICK w : w = InsertAfter(q, i, d)
  OBVIOUS
<1>1. /\ w \in Seq(Kmvd) /\ DOMAIN w = 1 .. Len(q) + 1
      /\ Len(q) \in Nat /\ DOMAIN q = 1 .. Len(q)
      /\ \A j \in 1 .. i : w[j] = q[j]
      /\ w[i + 1] = d
      /\ \A j \in i + 1 .. Len(q) : w[j + 1] = q[j]
      /\ Elems(w) = Elems(q) \cup {d}
  <2>1. Inserted(w, q, i, d)
    BY <1>0, InsertSeq
  <2> QED BY <2>1 DEF Inserted
<1>2. \A j \in DOMAIN q : k[q[j]].kva_start \in Int /\ k[q[j]].kva_end \in Int
  <2>1. \A j \in DOMAIN q : q[j] \in Kmvd
    BY <1>1, ElementOfSeq
  <2>2. \A j \in DOMAIN q : k[q[j]] \in Area
    BY <2>1 DEF Ordered, KvaType
  <2> QED BY <2>2, AreaType
<1>3. k[d].kva_start \in Int /\ k[d].kva_end \in Int
  BY AreaType DEF KvaType
<1>4. ASSUME NEW j \in DOMAIN q, j <= i PROVE k[q[j]].kva_end <= k[d].kva_start
  <2>1. CASE j = i
    BY <2>1
  <2>2. CASE j < i
    <3>1. k[q[j]].kva_end <= k[q[i]].kva_start /\ k[q[i]].kva_start < k[q[i]].kva_end
      BY <2>2 DEF Ordered
    <3> QED BY <1>2, <1>3, <3>1
  <2> QED BY <1>1, <1>4, <2>1, <2>2
<1>5. ASSUME NEW j \in DOMAIN q, i < j PROVE k[d].kva_end <= k[q[j]].kva_start
  <2>1. i + 1 \in DOMAIN q /\ i # Len(q) /\ (j = i + 1 \/ i + 1 < j)
    BY <1>1, <1>5
  <2>2. CASE j = i + 1
    BY <2>1, <2>2
  <2>3. CASE i + 1 < j
    <3>1. k[q[i + 1]].kva_start < k[q[i + 1]].kva_end /\ k[q[i + 1]].kva_end <= k[q[j]].kva_start
      BY <2>1, <2>3 DEF Ordered
    <3> QED BY <1>2, <1>3, <2>1, <3>1
  <2> QED BY <2>1, <2>2, <2>3
<1>6. ASSUME NEW x \in DOMAIN w
      PROVE  \/ x \in DOMAIN q /\ x <= i /\ w[x] = q[x]
             \/ x = i + 1 /\ w[x] = d
             \/ \E j \in DOMAIN q : x = j + 1 /\ i < j /\ w[x] = q[j]
  <2>0. x \in Int /\ i \in Int /\ Len(q) \in Int /\ 1 <= i /\ i <= Len(q) /\ 1 <= x /\ x <= Len(q) + 1
    BY <1>1
  <2>1. CASE x <= i
    <3>1. x \in 1 .. i /\ x \in DOMAIN q
      BY <1>1, <2>0, <2>1
    <3> QED BY <1>1, <2>1, <3>1
  <2>2. CASE x > i + 1
    <3>1. PICK j \in Int : j = x - 1
      BY <2>0
    <3>2. j \in i + 1 .. Len(q) /\ j \in DOMAIN q /\ x = j + 1 /\ i < j
      BY <1>1, <2>0, <2>2, <3>1
    <3> QED BY <1>1, <3>2
  <2> QED BY <1>1, <2>0, <2>1, <2>2
<1>7. ASSUME NEW x \in DOMAIN w PROVE k[w[x]] # NULL /\ k[w[x]].kva_start < k[w[x]].kva_end
  BY <1>6 DEF Ordered
<1>8. ASSUME NEW x \in DOMAIN w, NEW y \in DOMAIN w, x < y
      PROVE  k[w[x]].kva_end <= k[w[y]].kva_start
  <2>0. x \in Int /\ y \in Int /\ i \in Int
    BY <1>1
  <2>1. CASE x \in DOMAIN q /\ x <= i /\ w[x] = q[x]
    <3>1. CASE y \in DOMAIN q /\ y <= i /\ w[y] = q[y]
      BY <1>8, <2>1, <3>1 DEF Ordered
    <3>2. CASE y = i + 1 /\ w[y] = d
      BY <1>4, <2>1, <3>2
    <3>3. ASSUME NEW j \in DOMAIN q, y = j + 1, i < j, w[y] = q[j]
          PROVE  k[w[x]].kva_end <= k[w[y]].kva_start
      <4>1. x < j
        BY <1>1, <2>0, <2>1, <3>3
      <4> QED BY <2>1, <3>3, <4>1 DEF Ordered
    <3> QED BY <1>6, <3>1, <3>2, <3>3
  <2>2. CASE x = i + 1 /\ w[x] = d
    <3>1. PICK j \in DOMAIN q : y = j + 1 /\ i < j /\ w[y] = q[j]
      BY <1>1, <1>6, <1>8, <2>0, <2>2
    <3> QED BY <1>5, <2>2, <3>1
  <2>3. ASSUME NEW j \in DOMAIN q, x = j + 1, i < j, w[x] = q[j]
        PROVE  k[w[x]].kva_end <= k[w[y]].kva_start
    <3>1. ~(y <= i) /\ y # i + 1
      BY <1>1, <1>8, <2>0, <2>3
    <3>2. PICK h \in DOMAIN q : y = h + 1 /\ i < h /\ w[y] = q[h]
      BY <1>6, <3>1
    <3>3. j < h
      BY <1>1, <1>8, <2>3, <3>2
    <3> QED BY <2>3, <3>2, <3>3 DEF Ordered
  <2> QED BY <1>6, <2>1, <2>2, <2>3
<1> QED BY <1>0, <1>7, <1>8 DEF Ordered

(* Areas that go leave the others in order. *)
LEMMA OrderedWithout ==
  ASSUME NEW q \in Seq(Kmvd), NEW k \in KvaType, NEW l \in KvaType, Ordered(q, k),
         NEW i \in DOMAIN q, \A j \in DOMAIN q : j # i => l[q[j]] = k[q[j]]
  PROVE  /\ Ordered(Without(q, i), l)
         /\ Elems(Without(q, i)) = Elems(q) \ {q[i]}
<1> DEFINE w == Without(q, i)
<1>1. /\ DOMAIN w = 1 .. Len(q) - 1
      /\ Len(q) \in Nat /\ DOMAIN q = 1 .. Len(q)
      /\ \A j \in 1 .. i - 1 : w[j] = q[j]
      /\ \A j \in i + 1 .. Len(q) : w[j - 1] = q[j]
      /\ Elems(w) = {q[j] : j \in DOMAIN q \ {i}}
  BY WithoutSeq
<1> HIDE DEF w
<1>2. ASSUME NEW x \in DOMAIN w
      PROVE  \/ x \in DOMAIN q /\ x < i /\ w[x] = q[x]
             \/ \E j \in DOMAIN q : x = j - 1 /\ i < j /\ w[x] = q[j]
  <2>0. x \in Int /\ i \in Int /\ Len(q) \in Int /\ 1 <= i /\ i <= Len(q) /\ 1 <= x /\ x <= Len(q) - 1
    BY <1>1
  <2>1. CASE x < i
    <3>1. x \in 1 .. i - 1 /\ x \in DOMAIN q
      BY <1>1, <2>0, <2>1
    <3> QED BY <1>1, <2>1, <3>1
  <2>2. CASE x >= i
    <3>1. PICK j \in Int : j = x + 1
      BY <2>0
    <3>2. x = j - 1 /\ i < j /\ i + 1 <= j /\ j <= Len(q)
      BY <2>0, <2>2, <3>1
    <3>3. j \in i + 1 .. Len(q) /\ j \in DOMAIN q
      BY <1>1, <2>0, <3>2
    <3> QED BY <1>1, <3>2, <3>3
  <2> QED BY <2>0, <2>1, <2>2
<1>3. ASSUME NEW x \in DOMAIN w
      PROVE  \E j \in DOMAIN q \ {i} : w[x] = q[j] /\ ((x = j /\ j < i) \/ (x = j - 1 /\ i < j))
  <2>1. CASE x \in DOMAIN q /\ x < i /\ w[x] = q[x]
    BY <1>1, <2>1
  <2>2. ASSUME NEW j \in DOMAIN q, x = j - 1, i < j, w[x] = q[j]
        PROVE  \E h \in DOMAIN q \ {i} : w[x] = q[h] /\ ((x = h /\ h < i) \/ (x = h - 1 /\ i < h))
    BY <1>1, <2>2
  <2> QED BY <1>2, <2>1, <2>2
<1>4. ASSUME NEW x \in DOMAIN w PROVE l[w[x]] # NULL /\ l[w[x]].kva_start < l[w[x]].kva_end
  BY <1>3 DEF Ordered
<1>5. ASSUME NEW x \in DOMAIN w, NEW y \in DOMAIN w, x < y
      PROVE  l[w[x]].kva_end <= l[w[y]].kva_start
  <2>1. PICK j \in DOMAIN q \ {i} : w[x] = q[j] /\ ((x = j /\ j < i) \/ (x = j - 1 /\ i < j))
    BY <1>3
  <2>2. PICK h \in DOMAIN q \ {i} : w[y] = q[h] /\ ((y = h /\ h < i) \/ (y = h - 1 /\ i < h))
    BY <1>3
  <2>3. j < h
    BY <1>1, <1>5, <2>1, <2>2
  <2> QED BY <2>1, <2>2, <2>3 DEF Ordered
<1>6. Elems(w) = Elems(q) \ {q[i]}
  <2>1. \A j \in DOMAIN q : j # i => q[j] # q[i]
    BY OrderedOnce
  <2>2. Elems(q) = {q[j] : j \in DOMAIN q}
    BY DEF Elems
  <2>3. {q[j] : j \in DOMAIN q \ {i}} = {q[j] : j \in DOMAIN q} \ {q[i]}
    BY <2>1
  <2> QED BY <1>1, <2>2, <2>3
<1> QED BY <1>4, <1>5, <1>6 DEF Ordered, w

-----------------------------------------------------------------------------
(* The invariant. *)

On(m) == Elems(vs_list[m])
BoxAt(m, v, b)  == \E d \in On(m) : v \in PagesOf(kva[d]) /\ kva[d].kva_kvmbox = b
InArea(m, v)    == \E d \in On(m) : v \in PagesOf(kva[d])
Within(m, x, y) == \E d \in On(m) : kva[d].kva_start <= x /\ y <= kva[d].kva_end
Granted(m, v)   == \E b \in blocks[m] : v \in b[1] .. b[2] - 1

AInv == /\ \A m \in Mm : Ordered(vs_list[m], kva)
        /\ \A d \in Kmvd : kva[d] # NULL => \E m \in Mm : d \in On(m)
        /\ \A m, o \in Mm : m # o => On(m) \cap On(o) = {}
        /\ \A m \in Mm : vs_currkmvdsc[m] \in On(m) \cup {NULL}
Boxed == /\ \A b, c \in Box : b # c => kmb_msalist[b] \cap kmb_msalist[c] = {}
         /\ \A b \in Box : free \cap kmb_msalist[b] = {}
Unshared == \A m, o \in Mm, v, w \in Page :
              mapped[m][v] = mapped[o][w] /\ mapped[m][v] # NULL => m = o /\ v = w
Kept == \A m \in Mm, v \in Page : mapped[m][v] # NULL =>
          \E b \in Box : BoxAt(m, v, b) /\ mapped[m][v] \in kmb_msalist[b]
FInv == Boxed /\ Unshared /\ Kept
BlocksOK(m) == /\ \A b \in blocks[m] : b[1] < b[2] /\ Within(m, b[1], b[2])
               /\ \A b, c \in blocks[m] : b = c \/ b[2] <= c[1] \/ c[2] <= b[1]
               /\ \A v \in Int : InArea(m, v) => Granted(m, v)
BInv == \A m \in Mm : BlocksOK(m)
(* A thread that does not exist yet has no areas; one that is new has none *)
(* where its program will be.                                              *)
NInv == \A m \in Mm : /\ stus[m] = "none" => vs_list[m] = << >>
                      /\ stus[m] = "new" => ~InArea(m, AppStart)
IInv == TypeOK /\ AInv /\ BoxesCounted /\ FInv /\ BInv /\ NInv

LEMMA OnArea ==
  ASSUME TypeOK, AInv, NEW m \in Mm, NEW d \in On(m)
  PROVE  /\ d \in Kmvd /\ kva[d] \in Area /\ kva[d] # NULL
         /\ kva[d].kva_start \in Page /\ kva[d].kva_end \in 2 .. End
         /\ kva[d].kva_start \in Int /\ kva[d].kva_end \in Int
         /\ kva[d].kva_start < kva[d].kva_end
         /\ kva[d].kva_kvmbox \in Box \cup {NULL}
<1>1. PICK i \in DOMAIN vs_list[m] : d = vs_list[m][i]
  BY DEF On, Elems
<1>2. vs_list[m] \in Seq(Kmvd) /\ Ordered(vs_list[m], kva)
  BY DEF TypeOK, AInv
<1>3. d \in Kmvd
  BY <1>1, <1>2, LenProperties, ElementOfSeq
<1>4. kva[d] # NULL /\ kva[d].kva_start < kva[d].kva_end
  BY <1>1, <1>2 DEF Ordered
<1>5. kva[d] \in Area
  BY <1>3, <1>4 DEF TypeOK
<1> QED BY <1>3, <1>4, <1>5, AreaType

(* A page is in at most one area. *)
LEMMA OneArea ==
  ASSUME TypeOK, AInv, NEW m \in Mm, NEW d \in On(m), NEW e \in On(m),
         NEW v \in PagesOf(kva[d]), v \in PagesOf(kva[e])
  PROVE  d = e
<1>1. PICK i \in DOMAIN vs_list[m] : d = vs_list[m][i]
  BY DEF On, Elems
<1>2. PICK j \in DOMAIN vs_list[m] : e = vs_list[m][j]
  BY DEF On, Elems
<1>3. Ordered(vs_list[m], kva) /\ i \in Nat /\ j \in Nat
  BY LenProperties DEF TypeOK, AInv
<1>4. /\ kva[d].kva_start \in Int /\ kva[d].kva_end \in Int
      /\ kva[e].kva_start \in Int /\ kva[e].kva_end \in Int
  BY OnArea
<1>5. ~(i < j) /\ ~(j < i)
  BY <1>1, <1>2, <1>3, <1>4 DEF Ordered, PagesOf
<1> QED BY <1>1, <1>2, <1>3, <1>5

(* Nothing happens to the areas of o. *)
Same(o) == On(o)' = On(o) /\ \A d \in On(o) : kva'[d] = kva[d]

LEMMA SameAreas ==
  ASSUME NEW o, Same(o)
  PROVE  /\ \A v, b : BoxAt(o, v, b)' <=> BoxAt(o, v, b)
         /\ \A v : InArea(o, v)' <=> InArea(o, v)
         /\ \A x, y : Within(o, x, y)' <=> Within(o, x, y)
<1>1. ASSUME NEW v, NEW b PROVE BoxAt(o, v, b)' <=> BoxAt(o, v, b)
  BY DEF Same, BoxAt
<1>2. ASSUME NEW v PROVE InArea(o, v)' <=> InArea(o, v)
  BY DEF Same, InArea
<1>3. ASSUME NEW x, NEW y PROVE Within(o, x, y)' <=> Within(o, x, y)
  BY DEF Same, Within
<1> QED BY <1>1, <1>2, <1>3

(* The list of one address space becomes q. *)
LEMMA StepAreas ==
  ASSUME TypeOK, AInv, NEW m \in Mm, NEW q \in Seq(Kmvd), NEW c \in Elems(q) \cup {NULL},
         vs_list' = [vs_list EXCEPT ![m] = q],
         vs_currkmvdsc' = [vs_currkmvdsc EXCEPT ![m] = c],
         Ordered(q, kva'), Elems(q) \subseteq On(m) \cup Unused,
         \A d \in Kmvd : d \notin On(m) /\ d \notin Elems(q) => kva'[d] = kva[d],
         \A d \in On(m) : d \notin Elems(q) => kva'[d] = NULL
  PROVE  AInv' /\ On(m)' = Elems(q) /\ \A o \in Mm \ {m} : Same(o)
<1>1. vs_list'[m] = q /\ \A o \in Mm \ {m} : vs_list'[o] = vs_list[o]
  BY DEF TypeOK
<1>2. On(m)' = Elems(q) /\ \A o \in Mm \ {m} : On(o)' = On(o)
  BY <1>1 DEF On
<1>3. ASSUME NEW o \in Mm \ {m}, NEW d \in On(o)
      PROVE  d \in Kmvd /\ d \notin On(m) /\ d \notin Elems(q) /\ kva'[d] = kva[d] /\ kva[d] # NULL
  <2>1. d \in Kmvd /\ kva[d] # NULL
    BY <1>3, OnArea
  <2>2. d \notin On(m)
    BY <1>3 DEF AInv
  <2>3. d \notin Elems(q)
    BY <2>1, <2>2 DEF Unused
  <2> QED BY <2>1, <2>2, <2>3
<1>4. \A o \in Mm \ {m} : Same(o)
  BY <1>2, <1>3 DEF Same
<1>5. ASSUME NEW o \in Mm PROVE Ordered(vs_list[o], kva)'
  <2>1. CASE o = m
    BY <1>1, <2>1
  <2>2. CASE o # m
    <3>1. \A i \in DOMAIN vs_list[o] : kva'[vs_list[o][i]] = kva[vs_list[o][i]]
      BY <1>3, <2>2 DEF On, Elems
    <3>2. Ordered(vs_list[o], kva)
      BY DEF AInv
    <3> QED BY <1>1, <2>2, <3>1, <3>2 DEF Ordered
  <2> QED BY <2>1, <2>2
<1>6. ASSUME NEW d \in Kmvd, kva'[d] # NULL PROVE \E o \in Mm : d \in On(o)'
  <2>1. CASE d \in Elems(q)
    BY <1>2, <2>1
  <2>2. CASE d \notin Elems(q)
    <3>1. d \notin On(m) /\ kva[d] # NULL
      BY <1>6, <2>2
    <3>2. PICK o \in Mm : d \in On(o)
      BY <3>1 DEF AInv
    <3> QED BY <1>2, <3>1, <3>2
  <2> QED BY <2>1, <2>2
<1>7. ASSUME NEW o \in Mm, NEW p \in Mm, o # p PROVE On(o)' \cap On(p)' = {}
  BY <1>2, <1>3, <1>7 DEF AInv
<1>8. ASSUME NEW o \in Mm PROVE vs_currkmvdsc'[o] \in On(o)' \cup {NULL}
  BY <1>2 DEF TypeOK, AInv
<1> QED BY <1>2, <1>4, <1>5, <1>6, <1>7, <1>8 DEF AInv

-----------------------------------------------------------------------------
(* What a step does to the pages of an address space. *)

Added(m, s, e) ==
  /\ \A v \in Int, b \in Box : BoxAt(m, v, b) => BoxAt(m, v, b)'
  /\ \A v \in Int : InArea(m, v)' => InArea(m, v) \/ v \in s .. e - 1
  /\ \A v \in s .. e - 1 : ~InArea(m, v)
  /\ \A x, y \in Int : Within(m, x, y) => Within(m, x, y)'
  /\ Within(m, s, e)'
  /\ \A o \in Mm \ {m} : Same(o)

LEMMA AddedFrames ==
  ASSUME FInv, NEW m \in Mm, NEW s, NEW e, Added(m, s, e), UNCHANGED <<boxes, free, mapped>>
  PROVE  FInv'
<1>1. Boxed' /\ Unshared'
  BY DEF FInv, Boxed, Unshared, boxes
<1>2. ASSUME NEW o \in Mm, NEW v \in Page, NEW b \in Box, BoxAt(o, v, b) PROVE BoxAt(o, v, b)'
  BY <1>2, SameAreas DEF Added, Page
<1>3. Kept'
  BY <1>2 DEF FInv, Kept, boxes
<1> QED BY <1>1, <1>3 DEF FInv

(* Blocks as pairs of numbers *)
LEMMA BlockType ==
  ASSUME TypeOK, NEW m \in Mm, NEW b \in blocks[m]
  PROVE  /\ b = <<b[1], b[2]>> /\ b[1] \in Page /\ b[2] \in 2 .. End
         /\ b[1] \in Int /\ b[2] \in Int
BY VirMemAssumption DEF TypeOK, Page

LEMMA WithinPages ==
  ASSUME TypeOK, AInv, NEW m \in Mm, NEW x \in Int, NEW y \in Int, Within(m, x, y),
         NEW v \in x .. y - 1
  PROVE  InArea(m, v)
<1>1. PICK d \in On(m) : kva[d].kva_start <= x /\ y <= kva[d].kva_end
  BY DEF Within
<1>2. kva[d].kva_start \in Int /\ kva[d].kva_end \in Int
  BY OnArea
<1>3. v \in PagesOf(kva[d])
  BY <1>1, <1>2 DEF PagesOf
<1> QED BY <1>3 DEF InArea

LEMMA AddedBlocks ==
  ASSUME TypeOK, TypeOK', AInv, BInv, NEW m \in Mm, NEW s \in Int, NEW e \in Int, s < e,
         Added(m, s, e), blocks' = [blocks EXCEPT ![m] = @ \cup {<<s, e>>}]
  PROVE  BInv'
<1>1. blocks'[m] = blocks[m] \cup {<<s, e>>} /\ \A o \in Mm \ {m} : blocks'[o] = blocks[o]
  BY DEF TypeOK
<1>2. ASSUME NEW o \in Mm \ {m} PROVE BlocksOK(o)'
  <2>1. Same(o) /\ BlocksOK(o) /\ blocks'[o] = blocks[o]
    BY <1>1 DEF Added, BInv
  <2> QED BY <2>1, SameAreas DEF BlocksOK, Granted
<1>3. BlocksOK(m)'
  <2>0. BlocksOK(m) /\ <<s, e>>[1] = s /\ <<s, e>>[2] = e
    BY DEF BInv
  <2>1. ASSUME NEW b \in blocks[m] PROVE b[2] <= s \/ e <= b[1]
    <3>1. b[1] \in Int /\ b[2] \in Int /\ b[1] < b[2] /\ Within(m, b[1], b[2])
      BY <2>0, BlockType DEF BlocksOK
    <3>2. \A v \in b[1] .. b[2] - 1 : v \notin s .. e - 1
      BY <3>1, WithinPages DEF Added
    <3>3. CASE s < b[1]
      <4>1. b[1] \in b[1] .. b[2] - 1 /\ (b[1] < e => b[1] \in s .. e - 1)
        BY <3>1, <3>3
      <4> QED BY <3>1, <3>2, <4>1
    <3>4. CASE b[1] <= s
      <4>1. s < b[2] => s \in b[1] .. b[2] - 1 /\ s \in s .. e - 1
        BY <3>1, <3>4
      <4> QED BY <3>1, <3>2, <4>1
    <3> QED BY <3>1, <3>3, <3>4
  <2>2. ASSUME NEW b \in blocks'[m] PROVE b[1] < b[2] /\ Within(m, b[1], b[2])'
    <3>1. CASE b = <<s, e>>
      BY <2>0, <3>1 DEF Added
    <3>2. CASE b \in blocks[m]
      <4>1. b[1] \in Int /\ b[2] \in Int
        BY <3>2, BlockType
      <4> QED BY <2>0, <3>2, <4>1 DEF BlocksOK, Added
    <3> QED BY <1>1, <3>1, <3>2
  <2>3. ASSUME NEW b \in blocks'[m], NEW c \in blocks'[m]
        PROVE  b = c \/ b[2] <= c[1] \/ c[2] <= b[1]
    <3>1. CASE b \in blocks[m] /\ c \in blocks[m]
      BY <2>0, <3>1 DEF BlocksOK
    <3>2. CASE b = <<s, e>> \/ c = <<s, e>>
      BY <1>1, <2>0, <2>1, <3>2
    <3> QED BY <1>1, <3>1, <3>2
  <2>4. ASSUME NEW v \in Int, InArea(m, v)' PROVE Granted(m, v)'
    <3>1. CASE InArea(m, v)
      BY <1>1, <2>0, <3>1 DEF BlocksOK, Granted
    <3>2. CASE v \in s .. e - 1
      BY <1>1, <2>0, <3>2 DEF Granted
    <3> QED BY <2>4, <3>1, <3>2 DEF Added
  <2> QED BY <2>2, <2>3, <2>4 DEF BlocksOK
<1> QED BY <1>2, <1>3 DEF BInv

Removed(m, s, e) ==
  /\ \A v \in Int, b \in Box : BoxAt(m, v, b) /\ v \notin s .. e - 1 => BoxAt(m, v, b)'
  /\ \A v \in Int : InArea(m, v)' => InArea(m, v) /\ v \notin s .. e - 1
  /\ \A x, y \in Int : Within(m, x, y) /\ x < y /\ (y <= s \/ e <= x) => Within(m, x, y)'
  /\ \A o \in Mm \ {m} : Same(o)

LEMMA RemovedFrames ==
  ASSUME TypeOK, FInv, NEW m \in Mm, NEW b \in Box \cup {NULL}, NEW s \in Page, NEW e \in 2 .. End,
         Removed(m, s, e), Unmapping(m, b, s, e)
  PROVE  FInv'
<1> DEFINE G == FramesOf(m, b, s, e)
<1>0. s \in Int /\ e \in Int /\ s .. e - 1 \subseteq Page /\ Page \subseteq Int
  BY VirMemAssumption DEF Page
<1>1. \A f \in G : b \in Box /\ f \in kmb_msalist[b] /\ \E w \in Page : w \in s .. e - 1 /\ mapped[m][w] = f
  BY <1>0 DEF FramesOf
<1>2. /\ free' = free \cup G
      /\ \A c \in Box : kmb_msalist'[c] = IF c = b THEN kmb_msalist[c] \ G ELSE kmb_msalist[c]
  <2>1. CASE b = NULL
    BY <2>1, VirMemAssumption DEF Unmapping, TypeOK
  <2>2. CASE b \in Box
    BY <2>2, VirMemAssumption DEF Unmapping, TypeOK
  <2> QED BY <2>1, <2>2
<1>3. \A o \in Mm, v \in Page : mapped'[o][v] = IF o = m /\ v \in s .. e - 1 THEN NULL ELSE mapped[o][v]
  BY DEF Unmapping, MappedWithout, TypeOK
<1> HIDE DEF G
<1>4. Boxed'
  <2>1. ASSUME NEW c \in Box, NEW d \in Box, c # d PROVE kmb_msalist'[c] \cap kmb_msalist'[d] = {}
    BY <1>2, <2>1 DEF FInv, Boxed
  <2>2. ASSUME NEW c \in Box PROVE free' \cap kmb_msalist'[c] = {}
    BY <1>1, <1>2 DEF FInv, Boxed
  <2> QED BY <2>1, <2>2 DEF Boxed
<1>5. Unshared'
  BY <1>3 DEF FInv, Unshared
<1>6. ASSUME NEW o \in Mm, NEW v \in Page, mapped'[o][v] # NULL
      PROVE  \E c \in Box : BoxAt(o, v, c)' /\ mapped'[o][v] \in kmb_msalist'[c]
  <2>1. mapped'[o][v] = mapped[o][v] /\ ~(o = m /\ v \in s .. e - 1)
    BY <1>3, <1>6
  <2>2. PICK c \in Box : BoxAt(o, v, c) /\ mapped[o][v] \in kmb_msalist[c]
    BY <1>6, <2>1 DEF FInv, Kept
  <2>3. BoxAt(o, v, c)'
    BY <1>0, <2>1, <2>2, SameAreas DEF Removed
  <2>4. mapped[o][v] \notin G
    <3>1. ASSUME NEW w \in Page, w \in s .. e - 1, mapped[m][w] = mapped[o][v] PROVE FALSE
      BY <1>6, <2>1, <3>1 DEF FInv, Unshared
    <3> QED BY <1>1, <3>1
  <2> QED BY <1>2, <2>1, <2>2, <2>3, <2>4
<1> QED BY <1>4, <1>5, <1>6 DEF FInv, Kept

LEMMA RemovedBlocks ==
  ASSUME TypeOK, TypeOK', AInv, BInv, NEW m \in Mm, NEW k \in blocks[m],
         NEW s \in Int, NEW e \in Int, s < e, k[1] <= s, e <= k[2],
         Removed(m, s, e), blocks' = [blocks EXCEPT ![m] = (@ \ {k}) \cup Rest(k, s, e)]
  PROVE  BInv'
<1>1. /\ blocks'[m] = (blocks[m] \ {k}) \cup Rest(k, s, e)
      /\ \A o \in Mm \ {m} : blocks'[o] = blocks[o]
  BY DEF TypeOK
<1>2. ASSUME NEW o \in Mm \ {m} PROVE BlocksOK(o)'
  <2>1. Same(o) /\ BlocksOK(o) /\ blocks'[o] = blocks[o]
    BY <1>1 DEF Removed, BInv
  <2> QED BY <2>1, SameAreas DEF BlocksOK, Granted
<1>3. BlocksOK(m)'
  <2>0. BlocksOK(m) /\ k[1] \in Int /\ k[2] \in Int /\ k[1] < k[2] /\ Within(m, k[1], k[2])
    BY BlockType DEF BInv, BlocksOK
  <2>1. ASSUME NEW r \in Rest(k, s, e)
        PROVE  r[1] \in Int /\ r[2] \in Int /\ r[1] < r[2] /\ ((r[1] = k[1] /\ r[2] = s) \/ (r[1] = e /\ r[2] = k[2]))
    <3>1. r = <<k[1], s>> \/ r = <<e, k[2]>>
      BY DEF Rest
    <3>2. r[1] < r[2]
      BY DEF Rest
    <3> QED BY <2>0, <3>1, <3>2
  <2>2. ASSUME NEW c \in blocks[m], c # k
        PROVE  c[1] \in Int /\ c[2] \in Int /\ c[1] < c[2] /\ (c[2] <= k[1] \/ k[2] <= c[1])
    BY <2>0, <2>2, BlockType DEF BlocksOK
  <2>3. ASSUME NEW b \in blocks'[m] PROVE b[1] < b[2] /\ Within(m, b[1], b[2])'
    <3>1. CASE b \in Rest(k, s, e)
      <4>1. Within(m, b[1], b[2])
        <5>1. PICK d \in On(m) : kva[d].kva_start <= k[1] /\ k[2] <= kva[d].kva_end
          BY <2>0 DEF Within
        <5>2. k[1] <= b[1] /\ b[2] <= k[2]
          BY <2>0, <2>1, <3>1
        <5>3. kva[d].kva_start \in Int /\ kva[d].kva_end \in Int
          BY OnArea
        <5>4. kva[d].kva_start <= b[1] /\ b[2] <= kva[d].kva_end
          BY <2>0, <2>1, <3>1, <5>1, <5>2, <5>3
        <5> QED BY <5>4 DEF Within
      <4> QED BY <2>0, <2>1, <3>1, <4>1 DEF Removed
    <3>2. CASE b \in blocks[m] /\ b # k
      <4>1. Within(m, b[1], b[2]) /\ (b[2] <= s \/ e <= b[1])
        BY <2>0, <2>2, <3>2 DEF BlocksOK
      <4> QED BY <2>2, <3>2, <4>1 DEF Removed
    <3> QED BY <1>1, <3>1, <3>2
  <2>4. ASSUME NEW b \in blocks'[m], NEW c \in blocks'[m]
        PROVE  b = c \/ b[2] <= c[1] \/ c[2] <= b[1]
    <3>1. CASE b \in blocks[m] /\ c \in blocks[m]
      BY <2>0, <3>1 DEF BlocksOK
    <3>2. CASE b \in Rest(k, s, e) /\ c \in Rest(k, s, e)
      <4>1. b \in {<<k[1], s>>, <<e, k[2]>>} /\ c \in {<<k[1], s>>, <<e, k[2]>>}
        BY <3>2 DEF Rest
      <4> QED BY <2>0, <4>1
    <3>3. CASE b \in Rest(k, s, e) /\ c \in blocks[m] /\ c # k
      BY <2>0, <2>1, <2>2, <3>3
    <3>4. CASE b \in blocks[m] /\ b # k /\ c \in Rest(k, s, e)
      BY <2>0, <2>1, <2>2, <3>4
    <3> QED BY <1>1, <3>1, <3>2, <3>3, <3>4
  <2>5. ASSUME NEW v \in Int, InArea(m, v)' PROVE Granted(m, v)'
    <3>1. InArea(m, v) /\ v \notin s .. e - 1
      BY <2>5 DEF Removed
    <3>2. PICK c \in blocks[m] : v \in c[1] .. c[2] - 1
      BY <2>0, <3>1 DEF BlocksOK, Granted
    <3>3. CASE c # k
      BY <1>1, <3>2, <3>3 DEF Granted
    <3>4. CASE c = k
      <4>1. CASE v < s
        <5>1. <<k[1], s>> \in Rest(k, s, e) /\ v \in <<k[1], s>>[1] .. <<k[1], s>>[2] - 1
          BY <2>0, <3>2, <3>4, <4>1 DEF Rest
        <5> QED BY <1>1, <5>1 DEF Granted
      <4>2. CASE e <= v
        <5>1. <<e, k[2]>> \in Rest(k, s, e) /\ v \in <<e, k[2]>>[1] .. <<e, k[2]>>[2] - 1
          BY <2>0, <3>2, <3>4, <4>2 DEF Rest
        <5> QED BY <1>1, <5>1 DEF Granted
      <4> QED BY <3>1, <4>1, <4>2
    <3> QED BY <3>3, <3>4
  <2> QED BY <2>3, <2>4, <2>5 DEF BlocksOK
<1> QED BY <1>2, <1>3 DEF BInv

-----------------------------------------------------------------------------
(* Areas come. *)

LEMMA KmsobOf == ASSUME NEW S, S # {} PROVE Kmsob(S) \in S
BY DEF Kmsob

LEMMA NewAreaType ==
  ASSUME NEW s \in Page, NEW e \in 2 .. End, NEW t \in Type
  PROVE  /\ NewArea(s, e, t) \in Area /\ NewArea(s, e, t) # NULL
         /\ NewArea(s, e, t).kva_start = s /\ NewArea(s, e, t).kva_end = e
         /\ NewArea(s, e, t).kva_kvmbox = NULL
<1>1. NewArea(s, e, t) \in Area
  BY DEF NewArea, Area
<1> QED BY <1>1, VirMemAssumption DEF NewArea

(* The room behind the i-th area of m *)
Room(m, i, s, e) ==
  /\ i \in DOMAIN vs_list[m]
  /\ s \in Page /\ e \in 2 .. End /\ s < e /\ kva[vs_list[m][i]].kva_end <= s
  /\ i = Len(vs_list[m]) \/ e <= kva[vs_list[m][i + 1]].kva_start

LEMMA RoomIsFree ==
  ASSUME TypeOK, AInv, NEW m \in Mm, NEW i, NEW s, NEW e, Room(m, i, s, e), NEW v \in s .. e - 1
  PROVE  ~InArea(m, v)
<1> DEFINE q == vs_list[m]
<1>1. /\ q \in Seq(Kmvd) /\ Ordered(q, kva) /\ i \in DOMAIN q /\ Len(q) \in Nat /\ DOMAIN q = 1 .. Len(q)
      /\ s \in Int /\ e \in Int /\ s < e /\ v \in Int /\ s <= v /\ v < e
  BY LenProperties, VirMemAssumption DEF Room, TypeOK, AInv, Page
<1>2. ASSUME NEW j \in DOMAIN q
      PROVE  kva[q[j]].kva_start \in Int /\ kva[q[j]].kva_end \in Int
  BY OnArea DEF On, Elems
<1>3. ASSUME NEW j \in DOMAIN q PROVE v \notin PagesOf(kva[q[j]])
  <2>1. CASE j <= i
    <3>1. kva[q[j]].kva_end <= kva[q[i]].kva_end
      <4>1. CASE j = i
        BY <1>2, <4>1
      <4>2. CASE j < i
        BY <1>1, <1>2, <4>2 DEF Ordered
      <4> QED BY <1>1, <2>1, <4>1, <4>2
    <3> QED BY <1>1, <1>2, <3>1 DEF Room, PagesOf
  <2>2. CASE i < j
    <3>1. i + 1 \in DOMAIN q /\ i # Len(q) /\ (j = i + 1 \/ i + 1 < j)
      BY <1>1, <2>2
    <3>2. kva[q[i + 1]].kva_start <= kva[q[j]].kva_start
      <4>1. CASE j = i + 1
        BY <1>2, <4>1
      <4>2. CASE i + 1 < j
        BY <1>1, <1>2, <3>1, <4>2 DEF Ordered
      <4> QED BY <3>1, <4>1, <4>2
    <3> QED BY <1>1, <1>2, <3>1, <3>2 DEF Room, PagesOf
  <2> QED BY <1>1, <2>1, <2>2
<1> QED BY <1>3 DEF InArea, On, Elems

(* The i-th area of m is extended. *)
LEMMA AreaExtended ==
  ASSUME TypeOK, TypeOK', AInv, NEW m \in Mm, NEW i, NEW e, NEW d, d = vs_list[m][i],
         NEW s, s = kva[d].kva_end, Room(m, i, s, e), kva' = [kva EXCEPT ![d].kva_end = e],
         UNCHANGED vs_list, vs_currkmvdsc' = [vs_currkmvdsc EXCEPT ![m] = d]
  PROVE  /\ AInv' /\ Added(m, s, e)
         /\ \A b \in Box : Users(b)' = Users(b)
<1> DEFINE q == vs_list[m]
<1>1. /\ q \in Seq(Kmvd) /\ Ordered(q, kva) /\ i \in DOMAIN q /\ d \in Elems(q) /\ d \in On(m)
      /\ s \in Int /\ e \in Int /\ s < e
  BY VirMemAssumption DEF Room, TypeOK, AInv, On, Elems, Page
<1>2. /\ d \in Kmvd /\ kva[d] \in Area /\ kva[d].kva_start < s /\ kva[d].kva_start \in Int
  BY <1>1, OnArea
<1>3. /\ kva'[d] = [kva[d] EXCEPT !.kva_end = e] /\ \A x \in Kmvd : x # d => kva'[x] = kva[x]
  BY <1>2 DEF TypeOK
<1>4. /\ kva'[d].kva_start = kva[d].kva_start /\ kva'[d].kva_end = e
      /\ kva'[d].kva_kvmbox = kva[d].kva_kvmbox /\ kva'[d] # NULL /\ kva'[d] \in Area
  <2>1. /\ [kva[d] EXCEPT !.kva_end = e].kva_start = kva[d].kva_start
        /\ [kva[d] EXCEPT !.kva_end = e].kva_end = e
        /\ [kva[d] EXCEPT !.kva_end = e].kva_kvmbox = kva[d].kva_kvmbox
        /\ [kva[d] EXCEPT !.kva_end = e] \in Area
    BY <1>2 DEF Area, Room
  <2> QED BY <1>3, <2>1, AreaType
<1>5. kva \in KvaType /\ kva' \in KvaType
  BY DEF TypeOK, KvaType
<1>6. \A j \in DOMAIN q : j # i => q[j] # d /\ q[j] \in Kmvd
  BY <1>1, <1>5, OrderedOnce, LenProperties, ElementOfSeq
<1>7. Ordered(q, kva')
  <2>0. PICK l \in KvaType : l = kva'
    BY <1>5
  <2> HIDE DEF q
  <2>1. \A j \in DOMAIN q : j # i => l[q[j]] = kva[q[j]]
    BY <1>3, <1>6, <2>0
  <2>2. l[q[i]].kva_start < l[q[i]].kva_end /\ kva[q[i]].kva_start <= l[q[i]].kva_start /\ l[q[i]] # NULL
    BY <1>1, <1>2, <1>4, <2>0 DEF q
  <2>3. i = Len(q) \/ l[q[i]].kva_end <= kva[q[i + 1]].kva_start
    BY <1>4, <2>0 DEF Room, q
  <2>4. Ordered(q, l)
    BY ONLY <1>1, <1>5, <2>0, <2>1, <2>2, <2>3, OrderedChange
  <2> QED BY <2>0, <2>4
<1>8. AInv' /\ On(m)' = On(m) /\ \A o \in Mm \ {m} : Same(o)
  <2>1. vs_list' = [vs_list EXCEPT ![m] = q]
    BY DEF TypeOK
  <2>2. \A x \in Kmvd : x \notin On(m) => kva'[x] = kva[x]
    BY <1>1, <1>3
  <2> QED BY <1>1, <1>7, <2>1, <2>2, StepAreas DEF On
<1>9. \A x \in On(m) : x # d => kva'[x] = kva[x]
  BY <1>3, OnArea
<1>10. Added(m, s, e)
  <2>1. ASSUME NEW v \in Int, NEW b \in Box, BoxAt(m, v, b) PROVE BoxAt(m, v, b)'
    <3>1. PICK x \in On(m) : v \in PagesOf(kva[x]) /\ kva[x].kva_kvmbox = b
      BY <2>1 DEF BoxAt
    <3>2. v \in PagesOf(kva'[x]) /\ kva'[x].kva_kvmbox = b
      BY <1>1, <1>2, <1>4, <1>9, <3>1 DEF PagesOf
    <3> QED BY <1>8, <3>1, <3>2 DEF BoxAt
  <2>2. ASSUME NEW v \in Int, InArea(m, v)' PROVE InArea(m, v) \/ v \in s .. e - 1
    <3>1. PICK x \in On(m) : v \in PagesOf(kva'[x])
      BY <1>8, <2>2 DEF InArea
    <3>2. v \in PagesOf(kva[x]) \/ v \in s .. e - 1
      BY <1>1, <1>2, <1>4, <1>9, <3>1 DEF PagesOf
    <3> QED BY <3>1, <3>2 DEF InArea
  <2>3. ASSUME NEW x \in Int, NEW y \in Int, Within(m, x, y) PROVE Within(m, x, y)'
    <3>1. PICK z \in On(m) : kva[z].kva_start <= x /\ y <= kva[z].kva_end
      BY <2>3 DEF Within
    <3>2. kva'[z].kva_start <= x /\ y <= kva'[z].kva_end
      BY <1>1, <1>2, <1>4, <1>9, <3>1
    <3> QED BY <1>8, <3>1, <3>2 DEF Within
  <2>4. Within(m, s, e)'
    <3>1. kva'[d].kva_start <= s
      BY <1>1, <1>2, <1>4
    <3>2. e <= kva'[d].kva_end
      BY <1>1, <1>4
    <3>3. PICK x \in On(m)' : kva'[x].kva_start <= s /\ e <= kva'[x].kva_end
      BY <1>1, <1>8, <3>1, <3>2
    <3> QED BY <3>3 DEF Within
  <2> QED BY <1>8, <2>1, <2>2, <2>3, <2>4, RoomIsFree DEF Added
<1>11. ASSUME NEW b \in Box PROVE Users(b)' = Users(b)
  BY <1>2, <1>3, <1>4, OnArea, <1>1 DEF Users, Unused
<1> QED BY <1>8, <1>10, <1>11

(* A new area is put behind the i-th one of m. *)
LEMMA AreaInserted ==
  ASSUME TypeOK, TypeOK', AInv, NEW m \in Mm, NEW i, NEW s, NEW e, NEW t \in Type, NEW new \in Unused,
         Room(m, i, s, e), kva' = [kva EXCEPT ![new] = NewArea(s, e, t)],
         vs_list' = [vs_list EXCEPT ![m] = InsertAfter(@, i, new)],
         vs_currkmvdsc' = [vs_currkmvdsc EXCEPT ![m] = new]
  PROVE  /\ AInv' /\ Added(m, s, e)
         /\ \A b \in Box : Users(b)' = Users(b)
<1>0. PICK q : q = vs_list[m]
  OBVIOUS
<1>1. /\ q \in Seq(Kmvd) /\ Ordered(q, kva) /\ i \in DOMAIN q /\ new \in Kmvd /\ kva[new] = NULL
      /\ s \in Page /\ e \in 2 .. End /\ s \in Int /\ e \in Int /\ s < e
  BY <1>0, VirMemAssumption DEF Room, TypeOK, AInv, Page, Unused
<1>2. /\ kva'[new] = NewArea(s, e, t) /\ \A x \in Kmvd : x # new => kva'[x] = kva[x]
  BY <1>1 DEF TypeOK
<1>3. /\ kva'[new].kva_start = s /\ kva'[new].kva_end = e /\ kva'[new].kva_kvmbox = NULL
      /\ kva'[new] # NULL
  BY <1>1, <1>2, NewAreaType
<1>4. \A x \in On(m) : x # new /\ kva'[x] = kva[x] /\ x \in Kmvd
  BY <1>1, <1>2, OnArea
<1>5. PICK l \in KvaType : l = kva'
  BY DEF TypeOK, KvaType
<1>6. PICK w : w = InsertAfter(q, i, new)
  OBVIOUS
<1>7. w \in Seq(Kmvd) /\ Elems(w) = On(m) \cup {new}
  BY <1>0, <1>1, <1>6, InsertSeq DEF Inserted, On
<1>8. \A j \in DOMAIN q : l[q[j]] = kva[q[j]]
  BY <1>0, <1>4, <1>5 DEF On, Elems
<1>9. Ordered(w, l)
  <2>1. Ordered(q, l)
    BY <1>1, <1>8 DEF Ordered
  <2>2. l[new] # NULL /\ l[new].kva_start < l[new].kva_end
    BY <1>1, <1>3, <1>5
  <2>3. l[q[i]].kva_end <= l[new].kva_start
    BY <1>0, <1>1, <1>3, <1>5, <1>8 DEF Room
  <2>4. i = Len(q) \/ l[new].kva_end <= l[q[i + 1]].kva_start
    <3>1. i # Len(q) => i + 1 \in DOMAIN q
      BY <1>1, LenProperties
    <3> QED BY <1>0, <1>3, <1>5, <1>8, <3>1 DEF Room
  <2>5. Ordered(InsertAfter(q, i, new), l)
    BY ONLY <1>1, <2>1, <2>2, <2>3, <2>4, OrderedInsert
  <2> QED BY <1>6, <2>5
<1>10. AInv' /\ On(m)' = On(m) \cup {new} /\ \A o \in Mm \ {m} : Same(o)
  <2>1. vs_list' = [vs_list EXCEPT ![m] = w]
    BY <1>0, <1>6
  <2>2. Ordered(w, kva')
    BY <1>5, <1>9
  <2> QED BY <1>2, <1>7, <2>1, <2>2, StepAreas
<1>11. Added(m, s, e)
  <2>1. ASSUME NEW v \in Int, NEW b \in Box, BoxAt(m, v, b) PROVE BoxAt(m, v, b)'
    BY <1>4, <1>10, <2>1 DEF BoxAt
  <2>2. ASSUME NEW v \in Int, InArea(m, v)' PROVE InArea(m, v) \/ v \in s .. e - 1
    BY <1>3, <1>4, <1>10, <2>2 DEF InArea, PagesOf
  <2>3. ASSUME NEW x \in Int, NEW y \in Int, Within(m, x, y) PROVE Within(m, x, y)'
    BY <1>4, <1>10, <2>3 DEF Within
  <2>4. Within(m, s, e)'
    <3>1. new \in On(m)' /\ kva'[new].kva_start <= s /\ e <= kva'[new].kva_end
      BY <1>1, <1>3, <1>10
    <3> QED BY <3>1 DEF Within
  <2> QED BY <1>10, <2>1, <2>2, <2>3, <2>4, RoomIsFree DEF Added
<1>12. ASSUME NEW b \in Box PROVE Users(b)' = Users(b)
  BY <1>1, <1>2, <1>3, VirMemAssumption DEF Users, Unused
<1> QED BY <1>10, <1>11, <1>12

LEMMA FirstIn == ASSUME NEW S, NEW i \in First(S) PROVE i \in S
BY DEF First

LEMMA RoomFound ==
  ASSUME TypeOK, AInv, NEW m \in Mm, NEW start \in Page \cup {0}, NEW n \in 1 .. MaxSize, NEW t,
         NEW i \in VmaFind(m, start, n, t), NEW s, s = StartBehind(m, i, start), NEW e, e = s + n
  PROVE  /\ Room(m, i, s, e) /\ vs_list[m][i] \in On(m) /\ vs_list[m][i] \in Kmvd
         /\ kva[vs_list[m][i]] \in Area
<1>2. i \in DOMAIN vs_list[m] /\ FitsBehind(m, i, start, n)
  BY FirstIn DEF VmaFind
<1>3. PICK d : d = vs_list[m][i]
  OBVIOUS
<1>4. d \in Kmvd /\ kva[d] \in Area /\ kva[d].kva_start \in Page /\ kva[d].kva_end \in 2 .. End
      /\ d \in On(m)
  BY <1>2, <1>3, OnArea DEF On, Elems
<1>7. Room(m, i, s, e)
  <2>0. n \in Int /\ 1 <= n /\ End \in Int /\ vs_list[m] \in Seq(Kmvd) /\ Len(vs_list[m]) \in Nat
    BY VirMemAssumption, LenProperties DEF TypeOK
  <2>1. s \in Int /\ 1 <= s
    BY <1>3, <1>4, VirMemAssumption DEF StartBehind, Page
  <2>2. kva[vs_list[m][i]].kva_end <= s
    BY <1>2 DEF FitsBehind
  <2>3. i = Len(vs_list[m]) => e <= End
    BY <1>2, <2>0, <2>1 DEF FitsBehind
  <2>4. i # Len(vs_list[m]) => e <= kva[vs_list[m][i + 1]].kva_start
    BY <1>2 DEF FitsBehind
  <2>5. i # Len(vs_list[m]) => kva[vs_list[m][i + 1]].kva_start \in Page
    <3>1. i # Len(vs_list[m]) => i + 1 \in DOMAIN vs_list[m]
      BY <1>2, <2>0, LenProperties
    <3> QED BY <3>1, OnArea DEF On, Elems
  <2>6. e \in Int /\ s < e
    BY <2>0, <2>1
  <2>7. e <= End
    BY <2>0, <2>3, <2>4, <2>5, <2>6 DEF Page
  <2>8. s \in Page /\ e \in 2 .. End
    BY <2>0, <2>1, <2>6, <2>7 DEF Page
  <2> QED BY <1>2, <2>2, <2>4, <2>6, <2>8 DEF Room
<1> QED BY <1>3, <1>4, <1>7

(* Each operation that makes room keeps the invariants of the areas. *)
LEMMA RoomMade ==
  ASSUME TypeOK, TypeOK', AInv, BInv, FInv, NEW m \in Mm, NEW start \in Page \cup {0},
         NEW n \in 1 .. MaxSize, NEW t \in Type, VmaNewVadrs(m, start, n, t)
  PROVE  /\ AInv' /\ BInv' /\ FInv' /\ (\A b \in Box : Users(b)' = Users(b))
         /\ \E s \in Page, e \in 2 .. End :
              s < e /\ Added(m, s, e) /\ blocks' = [blocks EXCEPT ![m] = @ \cup {<<s, e>>}]
<1>1. PICK i \in VmaFind(m, start, n, t) :
        LET d == vs_list[m][i]
            s == StartBehind(m, i, start)
        IN  /\ \/ /\ Extends(m, i, start, t)
                  /\ kva' = [kva EXCEPT ![d].kva_end = @ + n]
                  /\ vs_currkmvdsc' = [vs_currkmvdsc EXCEPT ![m] = d]
                  /\ UNCHANGED vs_list
               \/ /\ ~Extends(m, i, start, t)
                  /\ Unused # {}
                  /\ LET new == Kmsob(Unused)
                     IN
                       /\ kva' = [kva EXCEPT ![new] = NewArea(s, s + n, t)]
                       /\ vs_currkmvdsc' = [vs_currkmvdsc EXCEPT ![m] = new]
                       /\ vs_list' = [vs_list EXCEPT ![m] = InsertAfter(@, i, new)]
            /\ blocks' = [blocks EXCEPT ![m] = @ \cup {<<s, s + n>>}]
  BY DEF VmaNewVadrs
<1>2. i \in DOMAIN vs_list[m] /\ FitsBehind(m, i, start, n)
  BY FirstIn DEF VmaFind
<1>3. PICK d : d = vs_list[m][i]
  OBVIOUS
<1>5. PICK s : s = StartBehind(m, i, start)
  OBVIOUS
<1>6. PICK e : e = s + n
  OBVIOUS
<1>7. Room(m, i, s, e)
  BY <1>5, <1>6, RoomFound
<1>8. AInv' /\ Added(m, s, e) /\ \A b \in Box : Users(b)' = Users(b)
  <2>1. CASE /\ Extends(m, i, start, t)
             /\ kva' = [kva EXCEPT ![d].kva_end = @ + n]
             /\ vs_currkmvdsc' = [vs_currkmvdsc EXCEPT ![m] = d]
             /\ UNCHANGED vs_list
    <3>1. s = kva[d].kva_end
      BY <1>3, <1>5, <2>1 DEF Extends, StartBehind
    <3>2. kva' = [kva EXCEPT ![d].kva_end = e]
      BY <1>6, <2>1, <3>1
    <3> QED BY <1>3, <1>7, <2>1, <3>1, <3>2, AreaExtended
  <2>2. CASE /\ Unused # {}
             /\ kva' = [kva EXCEPT ![Kmsob(Unused)] = NewArea(s, s + n, t)]
             /\ vs_currkmvdsc' = [vs_currkmvdsc EXCEPT ![m] = Kmsob(Unused)]
             /\ vs_list' = [vs_list EXCEPT ![m] = InsertAfter(@, i, Kmsob(Unused))]
    <3>1. PICK new \in Unused : new = Kmsob(Unused)
      BY <2>2, KmsobOf
    <3> QED BY <1>6, <1>7, <2>2, <3>1, AreaInserted
  <2> QED BY <1>1, <1>3, <1>5, <2>1, <2>2
<1>9. s \in Page /\ e \in 2 .. End /\ s \in Int /\ e \in Int /\ s < e
  BY <1>7, VirMemAssumption DEF Room, Page
<1>10. blocks' = [blocks EXCEPT ![m] = @ \cup {<<s, e>>}]
  BY <1>1, <1>5, <1>6
<1>11. BInv'
  BY <1>8, <1>9, <1>10, AddedBlocks
<1>12. FInv'
  BY <1>8, AddedFrames DEF VmaNewVadrs
<1> QED BY <1>8, <1>9, <1>10, <1>11, <1>12

LEMMA RoomType ==
  ASSUME TypeOK, AInv, NEW m \in Mm, NEW start \in Page \cup {0}, NEW n \in 1 .. MaxSize,
         NEW t \in Type, VmaNewVadrs(m, start, n, t), stus' \in [Mm -> Stus]
  PROVE  TypeOK'
<1>1. PICK i \in VmaFind(m, start, n, t) :
        LET d == vs_list[m][i]
            s == StartBehind(m, i, start)
        IN  /\ \/ /\ kva' = [kva EXCEPT ![d].kva_end = @ + n]
                  /\ Extends(m, i, start, t)
                  /\ vs_currkmvdsc' = [vs_currkmvdsc EXCEPT ![m] = d]
                  /\ UNCHANGED vs_list
               \/ /\ Unused # {}
                  /\ LET new == Kmsob(Unused)
                     IN
                       /\ kva' = [kva EXCEPT ![new] = NewArea(s, s + n, t)]
                       /\ vs_currkmvdsc' = [vs_currkmvdsc EXCEPT ![m] = new]
                       /\ vs_list' = [vs_list EXCEPT ![m] = InsertAfter(@, i, new)]
            /\ blocks' = [blocks EXCEPT ![m] = @ \cup {<<s, s + n>>}]
  BY DEF VmaNewVadrs
<1>2. PICK s : s = StartBehind(m, i, start)
  OBVIOUS
<1>3. PICK e : e = s + n
  OBVIOUS
<1>4. PICK d : d = vs_list[m][i]
  OBVIOUS
<1>5. /\ s \in Page /\ e \in 2 .. End /\ i \in DOMAIN vs_list[m] /\ d \in Kmvd /\ kva[d] \in Area
  BY <1>2, <1>3, <1>4, RoomFound DEF Room
<1>6. blocks' \in [Mm -> SUBSET (Page \X (2 .. End))]
  <2>1. blocks' = [blocks EXCEPT ![m] = @ \cup {<<s, e>>}]
    BY <1>1, <1>2, <1>3
  <2> QED BY <1>5, <2>1 DEF TypeOK
<1>7. /\ vs_list' \in [Mm -> Seq(Kmvd)] /\ vs_currkmvdsc' \in [Mm -> Kmvd \cup {NULL}]
      /\ kva' \in [Kmvd -> Area \cup {NULL}]
  <2>1. CASE /\ kva' = [kva EXCEPT ![d].kva_end = @ + n]
             /\ Extends(m, i, start, t)
             /\ vs_currkmvdsc' = [vs_currkmvdsc EXCEPT ![m] = d]
             /\ UNCHANGED vs_list
    <3>1. kva' = [kva EXCEPT ![d].kva_end = e]
      BY <1>2, <1>3, <1>4, <2>1 DEF Extends, StartBehind
    <3>2. [kva[d] EXCEPT !.kva_end = e] \in Area
      BY <1>5 DEF Area
    <3> QED BY <1>5, <2>1, <3>1, <3>2 DEF TypeOK
  <2>2. CASE /\ Unused # {}
             /\ kva' = [kva EXCEPT ![Kmsob(Unused)] = NewArea(s, e, t)]
             /\ vs_currkmvdsc' = [vs_currkmvdsc EXCEPT ![m] = Kmsob(Unused)]
             /\ vs_list' = [vs_list EXCEPT ![m] = InsertAfter(@, i, Kmsob(Unused))]
    <3>1. PICK new \in Unused : new = Kmsob(Unused)
      BY <2>2, KmsobOf
    <3>2. new \in Kmvd /\ NewArea(s, e, t) \in Area
      BY <1>5, NewAreaType DEF Unused
    <3>3. PICK w : w = InsertAfter(vs_list[m], i, new)
      OBVIOUS
    <3>4. w \in Seq(Kmvd)
      BY <1>5, <3>2, <3>3, InsertSeq DEF Inserted, TypeOK
    <3>5. vs_list' = [vs_list EXCEPT ![m] = w]
      BY <2>2, <3>1, <3>3
    <3> QED BY <2>2, <3>1, <3>2, <3>4, <3>5 DEF TypeOK
  <2> QED BY <1>1, <1>2, <1>3, <1>4, <2>1, <2>2
<1> QED BY <1>6, <1>7 DEF TypeOK, VmaNewVadrs, boxes

(* Areas that use the same boxes *)
LEMMA CountsKept ==
  ASSUME BoxesCounted, \A b \in Box : Users(b)' = Users(b),
         UNCHANGED <<kbm_kmbhead, kbm_cachehead, kmb_cont>>
  PROVE  BoxesCounted'
BY DEF BoxesCounted

LEMMA StepExecvl ==
  ASSUME IInv, NEW m \in Mm, NEW n \in 1 .. MaxSize, Execvl(m, n)
  PROVE  IInv'
<1>1. VmaNewVadrs(m, AppStart, n, "bin") /\ stus[m] = "new" /\ stus' = [stus EXCEPT ![m] = "run"]
  BY DEF Execvl
<1>2. AppStart \in Page \cup {0} /\ "bin" \in Type
  BY VirMemAssumption DEF Page, Type
<1>3. TypeOK'
  BY <1>1, <1>2, RoomType DEF IInv, TypeOK, Stus
<1>4. /\ AInv' /\ BInv' /\ FInv' /\ (\A b \in Box : Users(b)' = Users(b))
      /\ \E s \in Page, e \in 2 .. End : Added(m, s, e)
  BY <1>1, <1>2, <1>3, RoomMade DEF IInv
<1>5. BoxesCounted'
  BY <1>1, <1>4, CountsKept DEF IInv, VmaNewVadrs, boxes
<1>6. NInv'
  <2>1. ASSUME NEW o \in Mm, o # m
        PROVE  (stus'[o] = "none" => vs_list'[o] = << >>) /\ (stus'[o] = "new" => ~InArea(o, AppStart)')
    <3>1. vs_list'[o] = vs_list[o] /\ stus'[o] = stus[o]
      BY <1>1, <2>1 DEF VmaNewVadrs, IInv, TypeOK
    <3>2. InArea(o, AppStart)' <=> InArea(o, AppStart)
      BY <1>4, <2>1, SameAreas DEF Added
    <3> QED BY <3>1, <3>2 DEF IInv, NInv
  <2>2. stus'[m] = "run"
    BY <1>1 DEF IInv, TypeOK
  <2> QED BY <2>1, <2>2 DEF NInv
<1> QED BY <1>3, <1>4, <1>5, <1>6 DEF IInv

LEMMA StepMallocblk ==
  ASSUME IInv, NEW m \in Mm, NEW n \in 1 .. MaxSize, Mallocblk(m, n)
  PROVE  IInv'
<1>1. VmaNewVadrs(m, 0, n, "heap") /\ stus[m] = "run" /\ UNCHANGED stus
  BY DEF Mallocblk, Runs
<1>2. 0 \in Page \cup {0} /\ "heap" \in Type
  BY DEF Type
<1>3. TypeOK'
  BY <1>1, <1>2, RoomType DEF IInv, TypeOK
<1>4. /\ AInv' /\ BInv' /\ FInv' /\ (\A b \in Box : Users(b)' = Users(b))
      /\ \E s \in Page, e \in 2 .. End : Added(m, s, e)
  BY <1>1, <1>2, <1>3, RoomMade DEF IInv
<1>5. BoxesCounted'
  BY <1>1, <1>4, CountsKept DEF IInv, VmaNewVadrs, boxes
<1>6. NInv'
  <2>1. ASSUME NEW o \in Mm, o # m
        PROVE  (stus'[o] = "none" => vs_list'[o] = << >>) /\ (stus'[o] = "new" => ~InArea(o, AppStart)')
    <3>1. vs_list'[o] = vs_list[o] /\ stus'[o] = stus[o]
      BY <1>1, <2>1 DEF VmaNewVadrs, IInv, TypeOK
    <3>2. InArea(o, AppStart)' <=> InArea(o, AppStart)
      BY <1>4, <2>1, SameAreas DEF Added
    <3> QED BY <3>1, <3>2 DEF IInv, NInv
  <2>2. stus'[m] = "run"
    BY <1>1
  <2> QED BY <2>1, <2>2 DEF NInv
<1> QED BY <1>3, <1>4, <1>5, <1>6 DEF IInv

LEMMA StepNewMmadrsdsc ==
  ASSUME IInv, NEW m \in Mm, NewMmadrsdsc(m)
  PROVE  IInv' /\ \A o \in Mm \ {m} : Same(o)
<1>0. TypeOK /\ AInv /\ BoxesCounted /\ FInv /\ BInv /\ NInv
  BY DEF IInv
<1>1. PICK d \in Unused : d = Kmsob(Unused)
  BY KmsobOf DEF NewMmadrsdsc
<1>2. PICK h \in Unused \ {d} : h = Kmsob(Unused \ {d})
  BY <1>1, KmsobOf DEF NewMmadrsdsc
<1>3. PICK s \in Unused \ {d, h} : s = Kmsob(Unused \ {d, h})
  BY <1>1, <1>2, KmsobOf DEF NewMmadrsdsc
<1>4. /\ kva' = [kva EXCEPT ![d] = NewArea(1, TextEnd, "text"),
                            ![h] = NewArea(HeapStart, HeapStart + 1, "heap"),
                            ![s] = NewArea(StackStart, End, "stack")]
      /\ vs_list' = [vs_list EXCEPT ![m] = <<d, h, s>>]
  BY <1>1, <1>2, <1>3 DEF NewMmadrsdsc
<1>5. /\ stus[m] = "none" /\ stus' = [stus EXCEPT ![m] = "new"]
      /\ blocks' = [blocks EXCEPT ![m] =
                      {<<1, TextEnd>>, <<HeapStart, HeapStart + 1>>, <<StackStart, End>>}]
      /\ UNCHANGED <<vs_currkmvdsc, boxes, free, mapped, cr2, fault>>
  BY DEF NewMmadrsdsc
<1>6. /\ 1 \in Int /\ TextEnd \in Int /\ AppStart \in Int /\ HeapStart \in Int /\ StackStart \in Int /\ End \in Int
      /\ 1 < TextEnd /\ TextEnd <= AppStart /\ AppStart < HeapStart /\ HeapStart < StackStart /\ StackStart < End
  BY VirMemAssumption
<1>7. /\ 1 \in Page /\ TextEnd \in 2 .. End /\ HeapStart \in Page /\ HeapStart + 1 \in 2 .. End
      /\ StackStart \in Page /\ End \in 2 .. End
  BY <1>6 DEF Page
<1>8. {"text", "heap", "stack"} \subseteq Type
  BY DEF Type
<1>9. d \in Kmvd /\ h \in Kmvd /\ s \in Kmvd /\ d # h /\ d # s /\ h # s
  BY DEF Unused
<1>10. /\ kva'[d] = NewArea(1, TextEnd, "text") /\ kva'[h] = NewArea(HeapStart, HeapStart + 1, "heap")
       /\ kva'[s] = NewArea(StackStart, End, "stack")
       /\ \A x \in Kmvd \ {d, h, s} : kva'[x] = kva[x]
  BY <1>0, <1>4, <1>9 DEF TypeOK
<1>11. /\ kva'[d] \in Area /\ kva'[d] # NULL
       /\ kva'[d].kva_start = 1 /\ kva'[d].kva_end = TextEnd /\ kva'[d].kva_kvmbox = NULL
  BY <1>7, <1>8, <1>10, NewAreaType
<1>12. /\ kva'[h] \in Area /\ kva'[h] # NULL
       /\ kva'[h].kva_start = HeapStart /\ kva'[h].kva_end = HeapStart + 1 /\ kva'[h].kva_kvmbox = NULL
  BY <1>7, <1>8, <1>10, NewAreaType
<1>13. /\ kva'[s] \in Area /\ kva'[s] # NULL
       /\ kva'[s].kva_start = StackStart /\ kva'[s].kva_end = End /\ kva'[s].kva_kvmbox = NULL
  BY <1>7, <1>8, <1>10, NewAreaType
<1>14. PICK q : q = <<d, h, s>>
  OBVIOUS
<1>15. q \in Seq(Kmvd) /\ DOMAIN q = 1 .. 3 /\ q[1] = d /\ q[2] = h /\ q[3] = s
  BY <1>9, <1>14
<1>16. Elems(q) = {d, h, s}
  BY <1>15 DEF Elems
<1>17. kva' \in [Kmvd -> Area \cup {NULL}]
  BY <1>0, <1>4, <1>9, <1>10, <1>11, <1>12, <1>13 DEF TypeOK
<1>18. TypeOK'
  <2>1. vs_list' \in [Mm -> Seq(Kmvd)]
    BY <1>0, <1>4, <1>14, <1>15 DEF TypeOK
  <2>2. blocks' \in [Mm -> SUBSET (Page \X (2 .. End))]
    BY <1>0, <1>5, <1>7 DEF TypeOK
  <2>3. stus' \in [Mm -> Stus]
    BY <1>0, <1>5 DEF TypeOK, Stus
  <2> QED BY <1>0, <1>5, <1>17, <2>1, <2>2, <2>3 DEF TypeOK, boxes
<1>19. On(m) = {}
  BY <1>0, <1>5 DEF NInv, On, Elems
<1>20. AInv' /\ On(m)' = {d, h, s} /\ \A o \in Mm \ {m} : Same(o)
  <2>1. vs_list' = [vs_list EXCEPT ![m] = q]
    BY <1>4, <1>14
  <2>2. vs_currkmvdsc' = [vs_currkmvdsc EXCEPT ![m] = NULL]
    BY <1>0, <1>5, <1>19 DEF AInv, TypeOK
  <2>3. Ordered(q, kva')
    <3>1. ASSUME NEW i \in DOMAIN q
          PROVE kva'[q[i]] # NULL /\ kva'[q[i]].kva_start < kva'[q[i]].kva_end
      <4>1. i = 1 \/ i = 2 \/ i = 3
        BY <1>15
      <4> QED BY <1>6, <1>11, <1>12, <1>13, <1>15, <4>1
    <3>2. ASSUME NEW i \in DOMAIN q, NEW j \in DOMAIN q, i < j
          PROVE kva'[q[i]].kva_end <= kva'[q[j]].kva_start
      <4>1. (i = 1 /\ j = 2) \/ (i = 1 /\ j = 3) \/ (i = 2 /\ j = 3)
        BY <1>15, <3>2
      <4> QED BY <1>6, <1>11, <1>12, <1>13, <1>15, <4>1
    <3> QED BY <3>1, <3>2 DEF Ordered
  <2> QED BY <1>0, <1>10, <1>15, <1>16, <1>19, <2>1, <2>2, <2>3, StepAreas
<1>21. BoxesCounted'
  <2>1. ASSUME NEW b \in Box PROVE Users(b)' = Users(b)
    <3>1. b # NULL /\ kva[d] = NULL /\ kva[h] = NULL /\ kva[s] = NULL
      BY VirMemAssumption DEF Unused
    <3>2. ASSUME NEW x \in Kmvd
          PROVE  (kva'[x] # NULL /\ kva'[x].kva_kvmbox = b) <=> (kva[x] # NULL /\ kva[x].kva_kvmbox = b)
      <4>1. CASE x \in {d, h, s}
        BY <1>11, <1>12, <1>13, <3>1, <4>1
      <4>2. CASE x \notin {d, h, s}
        BY <1>10, <4>2
      <4> QED BY <4>1, <4>2
    <3>3. Users(b) = {x \in Kmvd : kva[x] # NULL /\ kva[x].kva_kvmbox = b}
      BY DEF Users, Unused
    <3>4. Users(b)' = {x \in Kmvd : kva'[x] # NULL /\ kva'[x].kva_kvmbox = b}
      BY DEF Users, Unused
    <3> QED BY <3>2, <3>3, <3>4
  <2> QED BY <1>0, <1>5, <2>1, CountsKept DEF boxes
<1>22. FInv'
  <2>1. Boxed' /\ Unshared'
    BY <1>0, <1>5 DEF FInv, Boxed, Unshared, boxes
  <2>2. \A v \in Page : mapped[m][v] = NULL
    BY <1>0, <1>19 DEF FInv, Kept, BoxAt
  <2>3. ASSUME NEW o \in Mm, NEW v \in Page, NEW b \in Box, o # m, BoxAt(o, v, b) PROVE BoxAt(o, v, b)'
    BY <1>20, <2>3, SameAreas
  <2> QED BY <1>0, <1>5, <2>1, <2>2, <2>3 DEF FInv, Kept, boxes
<1>23. ASSUME NEW v \in Int
       PROVE  InArea(m, v)' <=> v \in 1 .. TextEnd - 1 \/ v \in HeapStart .. HeapStart \/ v \in StackStart .. End - 1
  <2>1. PagesOf(kva'[d]) = 1 .. TextEnd - 1
    BY <1>11 DEF PagesOf
  <2>2. PagesOf(kva'[h]) = HeapStart .. HeapStart
    <3>1. (HeapStart + 1) - 1 = HeapStart
      BY <1>6
    <3> QED BY <1>12, <3>1 DEF PagesOf
  <2>3. PagesOf(kva'[s]) = StackStart .. End - 1
    BY <1>13 DEF PagesOf
  <2>4. InArea(m, v)' <=> \E x \in {d, h, s} : v \in PagesOf(kva'[x])
    BY <1>20 DEF InArea
  <2> QED BY <2>1, <2>2, <2>3, <2>4
<1>24. BInv'
  <2>1. /\ blocks'[m] = {<<1, TextEnd>>, <<HeapStart, HeapStart + 1>>, <<StackStart, End>>}
        /\ \A o \in Mm \ {m} : blocks'[o] = blocks[o]
    BY <1>0, <1>5 DEF TypeOK
  <2>2. ASSUME NEW o \in Mm \ {m} PROVE BlocksOK(o)'
    <3>1. Same(o) /\ BlocksOK(o) /\ blocks'[o] = blocks[o]
      BY <1>0, <1>20, <2>1 DEF BInv
    <3> QED BY <3>1, SameAreas DEF BlocksOK, Granted
  <2>3. Within(m, 1, TextEnd)' /\ Within(m, HeapStart, HeapStart + 1)' /\ Within(m, StackStart, End)'
    BY <1>6, <1>11, <1>12, <1>13, <1>20 DEF Within
  <2>4. ASSUME NEW b \in blocks'[m] PROVE b[1] < b[2] /\ Within(m, b[1], b[2])'
    <3>1. CASE b = <<1, TextEnd>>
      BY <1>6, <2>3, <3>1
    <3>2. CASE b = <<HeapStart, HeapStart + 1>>
      BY <1>6, <2>3, <3>2
    <3>3. CASE b = <<StackStart, End>>
      BY <1>6, <2>3, <3>3
    <3> QED BY <2>1, <3>1, <3>2, <3>3
  <2>5. ASSUME NEW b \in blocks'[m], NEW c \in blocks'[m]
        PROVE  b = c \/ b[2] <= c[1] \/ c[2] <= b[1]
    BY <1>6, <2>1
  <2>6. ASSUME NEW v \in Int, InArea(m, v)' PROVE Granted(m, v)'
    <3>1. Granted(m, v)' <=> \E b \in blocks'[m] : v \in b[1] .. b[2] - 1
      BY DEF Granted
    <3>2. CASE v \in 1 .. TextEnd - 1
      <4>1. <<1, TextEnd>>[1] = 1 /\ <<1, TextEnd>>[2] = TextEnd
        OBVIOUS
      <4> QED BY <2>1, <3>1, <3>2, <4>1
    <3>3. CASE v \in HeapStart .. HeapStart
      <4>1. <<HeapStart, HeapStart + 1>>[1] = HeapStart /\ <<HeapStart, HeapStart + 1>>[2] = HeapStart + 1
        OBVIOUS
      <4>2. (HeapStart + 1) - 1 = HeapStart
        BY <1>6
      <4>3. <<HeapStart, HeapStart + 1>> \in blocks'[m]
        BY <2>1
      <4> QED BY <3>1, <3>3, <4>1, <4>2, <4>3
    <3>4. CASE v \in StackStart .. End - 1
      <4>1. <<StackStart, End>>[1] = StackStart /\ <<StackStart, End>>[2] = End
        OBVIOUS
      <4> QED BY <2>1, <3>1, <3>4, <4>1
    <3> QED BY <1>23, <2>6, <3>2, <3>3, <3>4
  <2>7. BlocksOK(m)'
    BY <2>4, <2>5, <2>6 DEF BlocksOK
  <2> QED BY <2>2, <2>7 DEF BInv
<1>25. NInv'
  <2>1. ASSUME NEW o \in Mm, o # m
        PROVE  (stus'[o] = "none" => vs_list'[o] = << >>) /\ (stus'[o] = "new" => ~InArea(o, AppStart)')
    <3>1. vs_list'[o] = vs_list[o] /\ stus'[o] = stus[o]
      BY <1>0, <1>4, <1>5, <2>1 DEF TypeOK
    <3>2. InArea(o, AppStart)' <=> InArea(o, AppStart)
      BY <1>20, <2>1, SameAreas
    <3> QED BY <1>0, <3>1, <3>2 DEF NInv
  <2>2. stus'[m] = "new"
    BY <1>0, <1>5 DEF TypeOK
  <2>3. ~InArea(m, AppStart)'
    BY <1>6, <1>23
  <2> QED BY <2>1, <2>2, <2>3 DEF NInv
<1> QED BY <1>20, <1>18, <1>20, <1>21, <1>22, <1>24, <1>25 DEF IInv

(* Steps that leave areas, boxes and pages alone *)
LEMMA StepOther ==
  ASSUME IInv, UNCHANGED <<areas, boxes, free, mapped, blocks>>, stus' \in [Mm -> Stus],
         cr2' \in 0 .. End - 1, fault' \in [Mm -> 0 .. End - 1],
         \A o \in Mm : stus'[o] # stus[o] => stus'[o] \notin {"none", "new"}
  PROVE  IInv'
<1>0. TypeOK /\ AInv /\ BoxesCounted /\ FInv /\ BInv /\ NInv
  BY DEF IInv
<1>1. TypeOK'
  BY <1>0 DEF TypeOK, areas, boxes
<1>2. ASSUME NEW o \in Mm PROVE Same(o)
  BY DEF Same, On, areas
<1>3. AInv'
  BY <1>0 DEF AInv, On, areas
<1>4. BoxesCounted'
  BY <1>0, CountsKept DEF Users, Unused, areas, boxes
<1>5. FInv'
  BY <1>0 DEF FInv, Boxed, Unshared, Kept, BoxAt, On, areas, boxes
<1>6. BInv'
  BY <1>0, <1>2, SameAreas DEF BInv, BlocksOK, Granted
<1>7. NInv'
  BY <1>0, <1>2, SameAreas DEF NInv, areas
<1> QED BY <1>1, <1>3, <1>4, <1>5, <1>6, <1>7 DEF IInv

-----------------------------------------------------------------------------
(* Areas go. *)

LEMMA Place ==
  ASSUME TypeOK, AInv, NEW m \in Mm, NEW i \in DOMAIN vs_list[m], NEW d, d = vs_list[m][i],
         NEW q, q = vs_list[m]
  PROVE  /\ q \in Seq(Kmvd) /\ Ordered(q, kva) /\ i \in DOMAIN q /\ d = q[i] /\ d \in On(m)
         /\ Len(q) \in Nat /\ DOMAIN q = 1 .. Len(q) /\ On(m) = Elems(q)
         /\ d \in Kmvd /\ kva[d] # NULL /\ kva[d] \in Area
         /\ kva[d].kva_start \in Int /\ kva[d].kva_end \in Int /\ kva[d].kva_start < kva[d].kva_end
<1>1. q \in Seq(Kmvd) /\ Ordered(q, kva) /\ Len(q) \in Nat /\ DOMAIN q = 1 .. Len(q)
  BY LenProperties DEF TypeOK, AInv
<1>2. d \in On(m)
  BY DEF On, Elems
<1> QED BY <1>1, <1>2, OnArea DEF On

LEMMA WholeGone ==
  ASSUME TypeOK, TypeOK', AInv, NEW m \in Mm, NEW i \in DOMAIN vs_list[m], NEW d, d = vs_list[m][i],
         NEW s, s = kva[d].kva_start, NEW e, e = kva[d].kva_end,
         kva' = [kva EXCEPT ![d] = NULL], vs_list' = [vs_list EXCEPT ![m] = Without(@, i)],
         vs_currkmvdsc' = [vs_currkmvdsc EXCEPT ![m] = CurrAfterDel(m, i)]
  PROVE  /\ AInv' /\ Removed(m, s, e)
         /\ \A b \in Box : Users(b)' = Users(b) \ {d}
<1>0. PICK q : q = vs_list[m]
  OBVIOUS
<1>1. /\ q \in Seq(Kmvd) /\ Ordered(q, kva) /\ i \in DOMAIN q /\ d = q[i] /\ d \in On(m)
      /\ Len(q) \in Nat /\ DOMAIN q = 1 .. Len(q) /\ d \in Kmvd /\ kva[d] # NULL
      /\ s \in Int /\ e \in Int /\ s < e
  BY <1>0, Place
<1>2. kva'[d] = NULL /\ \A x \in Kmvd : x # d => kva'[x] = kva[x]
  BY <1>1 DEF TypeOK
<1>3. PICK l \in KvaType : l = kva'
  BY DEF TypeOK, KvaType
<1>4. kva \in KvaType
  BY DEF TypeOK, KvaType
<1>5. \A j \in DOMAIN q : j # i => q[j] # d /\ q[j] \in Kmvd /\ l[q[j]] = kva[q[j]]
  BY <1>1, <1>2, <1>3, <1>4, OrderedOnce, ElementOfSeq
<1>6. PICK w : w = Without(q, i)
  OBVIOUS
<1>7. w \in Seq(Kmvd) /\ Ordered(w, l) /\ Elems(w) = On(m) \ {d}
  <2>1. \A j \in DOMAIN q : j # i => l[q[j]] = kva[q[j]]
    BY <1>5
  <2>2. Ordered(Without(q, i), l) /\ Elems(Without(q, i)) = Elems(q) \ {q[i]}
    BY ONLY <1>1, <1>4, <2>1, OrderedWithout
  <2> QED BY <1>0, <1>1, <1>6, <2>2, WithoutSeq DEF On
<1>8. CurrAfterDel(m, i) \in Elems(w) \cup {NULL}
  <2>1. i < Len(q) => i + 1 \in DOMAIN q /\ i + 1 # i
    BY <1>1
  <2>2. i > 1 => i - 1 \in DOMAIN q /\ i - 1 # i
    BY <1>1
  <2>3. \A j \in DOMAIN q : j # i => q[j] \in Elems(w)
    BY <1>0, <1>5, <1>7 DEF On, Elems
  <2> QED BY <1>0, <2>1, <2>2, <2>3 DEF CurrAfterDel
<1>9. PICK c \in Elems(w) \cup {NULL} : c = CurrAfterDel(m, i)
  BY <1>8
<1>10. AInv' /\ On(m)' = On(m) \ {d} /\ \A o \in Mm \ {m} : Same(o)
  <2>1. vs_list' = [vs_list EXCEPT ![m] = w] /\ vs_currkmvdsc' = [vs_currkmvdsc EXCEPT ![m] = c]
    BY <1>0, <1>6, <1>9
  <2>2. Ordered(w, kva')
    BY <1>3, <1>7
  <2>3. \A x \in On(m) : x \notin Elems(w) => kva'[x] = NULL
    BY <1>2, <1>7
  <2>4. \A x \in Kmvd : x \notin On(m) /\ x \notin Elems(w) => kva'[x] = kva[x]
    BY <1>1, <1>2
  <2>5. Elems(w) \subseteq On(m) \cup Unused /\ w \in Seq(Kmvd)
    BY <1>7
  <2>6. AInv' /\ On(m)' = Elems(w) /\ \A o \in Mm \ {m} : Same(o)
    BY ONLY TypeOK, AInv, <2>1, <2>2, <2>3, <2>4, <2>5, StepAreas
  <2> QED BY <1>7, <2>6
<1>11. \A x \in On(m)' : x \in On(m) /\ x # d /\ kva'[x] = kva[x]
  BY <1>2, <1>10, OnArea
<1>12. PagesOf(kva[d]) = s .. e - 1
  BY DEF PagesOf
<1>13. Removed(m, s, e)
  <2>1. ASSUME NEW v \in Int, NEW b \in Box, BoxAt(m, v, b), v \notin s .. e - 1 PROVE BoxAt(m, v, b)'
    <3>1. PICK x \in On(m) : v \in PagesOf(kva[x]) /\ kva[x].kva_kvmbox = b
      BY <2>1 DEF BoxAt
    <3>2. x \in On(m)' /\ kva'[x] = kva[x]
      BY <1>10, <1>11, <1>12, <2>1, <3>1
    <3> QED BY <3>1, <3>2 DEF BoxAt
  <2>2. ASSUME NEW v \in Int, InArea(m, v)' PROVE InArea(m, v) /\ v \notin s .. e - 1
    <3>1. PICK x \in On(m)' : v \in PagesOf(kva'[x])
      BY <2>2 DEF InArea
    <3>2. x \in On(m) /\ v \in PagesOf(kva[x]) /\ x # d
      BY <1>11, <3>1
    <3>3. v \notin PagesOf(kva[d])
      BY <1>1, <3>2, OneArea
    <3> QED BY <1>12, <3>2, <3>3 DEF InArea
  <2>3. ASSUME NEW x \in Int, NEW y \in Int, Within(m, x, y), x < y, y <= s \/ e <= x PROVE Within(m, x, y)'
    <3>1. PICK z \in On(m) : kva[z].kva_start <= x /\ y <= kva[z].kva_end
      BY <2>3 DEF Within
    <3>2. z # d
      BY <1>1, <2>3, <3>1
    <3>3. z \in On(m)' /\ kva'[z] = kva[z]
      BY <1>10, <1>11, <3>2
    <3> QED BY <3>1, <3>3 DEF Within
  <2> QED BY <1>10, <2>1, <2>2, <2>3 DEF Removed
<1>14. ASSUME NEW b \in Box PROVE Users(b)' = Users(b) \ {d}
  BY <1>1, <1>2 DEF Users, Unused
<1> QED BY <1>10, <1>13, <1>14

LEMMA EdgeGone ==
  ASSUME TypeOK, TypeOK', AInv, NEW m \in Mm, NEW i \in DOMAIN vs_list[m], NEW d, d = vs_list[m][i],
         NEW s \in Page, NEW e \in 2 .. End, s < e,
         \/ kva[d].kva_start = s /\ e < kva[d].kva_end /\ kva' = [kva EXCEPT ![d].kva_start = e]
         \/ kva[d].kva_end = e /\ kva[d].kva_start < s /\ kva' = [kva EXCEPT ![d].kva_end = s],
         UNCHANGED <<vs_list, vs_currkmvdsc>>
  PROVE  /\ AInv' /\ Removed(m, s, e)
         /\ \A b \in Box : Users(b)' = Users(b)
<1>0. PICK q : q = vs_list[m]
  OBVIOUS
<1>1. /\ q \in Seq(Kmvd) /\ Ordered(q, kva) /\ i \in DOMAIN q /\ d = q[i] /\ d \in On(m)
      /\ Len(q) \in Nat /\ DOMAIN q = 1 .. Len(q) /\ d \in Kmvd /\ kva[d] # NULL /\ kva[d] \in Area
      /\ s \in Int /\ e \in Int /\ s < e /\ kva[d].kva_start \in Int /\ kva[d].kva_end \in Int
  BY <1>0, Place, VirMemAssumption DEF Page
<1>2. PICK x \in Int, y \in Int :
        /\ kva'[d].kva_start = x /\ kva'[d].kva_end = y /\ x < y
        /\ kva[d].kva_start <= x /\ y <= kva[d].kva_end
        /\ \/ kva[d].kva_start = s /\ x = e /\ y = kva[d].kva_end
           \/ kva[d].kva_end = e /\ y = s /\ x = kva[d].kva_start
        /\ kva'[d].kva_kvmbox = kva[d].kva_kvmbox
        /\ \A z \in Kmvd : z # d => kva'[z] = kva[z]
  <2>1. CASE kva[d].kva_start = s /\ e < kva[d].kva_end /\ kva' = [kva EXCEPT ![d].kva_start = e]
    <3>1. kva'[d] = [kva[d] EXCEPT !.kva_start = e] /\ \A z \in Kmvd : z # d => kva'[z] = kva[z]
      BY <1>1, <2>1 DEF TypeOK
    <3>2. /\ kva'[d].kva_start = e /\ kva'[d].kva_end = kva[d].kva_end
          /\ kva'[d].kva_kvmbox = kva[d].kva_kvmbox
      BY <1>1, <3>1 DEF Area
    <3> QED BY <1>1, <2>1, <3>1, <3>2
  <2>2. CASE kva[d].kva_end = e /\ kva[d].kva_start < s /\ kva' = [kva EXCEPT ![d].kva_end = s]
    <3>1. kva'[d] = [kva[d] EXCEPT !.kva_end = s] /\ \A z \in Kmvd : z # d => kva'[z] = kva[z]
      BY <1>1, <2>2 DEF TypeOK
    <3>2. /\ kva'[d].kva_start = kva[d].kva_start /\ kva'[d].kva_end = s
          /\ kva'[d].kva_kvmbox = kva[d].kva_kvmbox
      BY <1>1, <3>1 DEF Area
    <3> QED BY <1>1, <2>2, <3>1, <3>2
  <2> QED BY <2>1, <2>2
<1>3. PICK l \in KvaType : l = kva'
  BY DEF TypeOK, KvaType
<1>4. kva \in KvaType
  BY DEF TypeOK, KvaType
<1>5. kva'[d] # NULL
  <2>0. /\ kva[d].kva_start \in Page /\ kva[d].kva_end \in 2 .. End /\ End \in Int
        /\ kva[d].kva_maptype \in Type /\ kva[d].kva_kvmbox \in Box \cup {NULL}
    BY <1>1, AreaType, VirMemAssumption
  <2>1. CASE kva[d].kva_start = s /\ e < kva[d].kva_end /\ kva' = [kva EXCEPT ![d].kva_start = e]
    <3>1. kva'[d] = [kva[d] EXCEPT !.kva_start = e]
      BY <1>1, <2>1 DEF TypeOK
    <3>2. e \in Page
      BY <1>1, <2>0, <2>1 DEF Page
    <3>3. [kva[d] EXCEPT !.kva_start = e] \in Area
      BY <1>1, <3>2 DEF Area
    <3> QED BY <3>1, <3>3, AreaType
  <2>2. CASE kva[d].kva_end = e /\ kva[d].kva_start < s /\ kva' = [kva EXCEPT ![d].kva_end = s]
    <3>1. kva'[d] = [kva[d] EXCEPT !.kva_end = s]
      BY <1>1, <2>2 DEF TypeOK
    <3>2. s \in 2 .. End
      BY <1>1, <2>0, <2>2 DEF Page
    <3>3. [kva[d] EXCEPT !.kva_end = s] \in Area
      BY <1>1, <3>2 DEF Area
    <3> QED BY <3>1, <3>3, AreaType
  <2> QED BY <2>1, <2>2
<1>6. \A j \in DOMAIN q : j # i => l[q[j]] = kva[q[j]]
  <2>1. \A j \in DOMAIN q : j # i => q[j] # d /\ q[j] \in Kmvd
    BY <1>1, <1>4, OrderedOnce, ElementOfSeq
  <2> QED BY <1>2, <1>3, <2>1
<1>7. Ordered(q, l)
  <2>1. /\ l[q[i]] # NULL /\ l[q[i]].kva_start < l[q[i]].kva_end
        /\ kva[q[i]].kva_start <= l[q[i]].kva_start
    BY <1>1, <1>2, <1>3, <1>5
  <2>2. l[q[i]].kva_end <= kva[q[i]].kva_end
    BY <1>1, <1>2, <1>3
  <2> QED BY ONLY <1>1, <1>3, <1>4, <1>6, <2>1, <2>2, OrderedChange
<1>8. AInv' /\ On(m)' = On(m) /\ \A o \in Mm \ {m} : Same(o)
  <2>1. vs_list' = [vs_list EXCEPT ![m] = q]
    BY <1>0 DEF TypeOK
  <2>2. PICK c : c = vs_currkmvdsc[m]
    OBVIOUS
  <2>3. vs_currkmvdsc' = [vs_currkmvdsc EXCEPT ![m] = c] /\ c \in Elems(q) \cup {NULL}
    BY <1>0, <2>2 DEF TypeOK, AInv, On
  <2>4. Ordered(q, kva')
    BY <1>3, <1>7
  <2>5. Elems(q) = On(m)
    BY <1>0 DEF On
  <2>6. \A h \in Kmvd : h \notin On(m) => kva'[h] = kva[h]
    BY <1>1, <1>2
  <2> QED BY <1>1, <2>1, <2>3, <2>4, <2>5, <2>6, StepAreas
<1>9. \A z \in On(m) : z # d => kva'[z] = kva[z]
  BY <1>2, OnArea
<1>10. Removed(m, s, e)
  <2>1. ASSUME NEW v \in Int, NEW b \in Box, BoxAt(m, v, b), v \notin s .. e - 1 PROVE BoxAt(m, v, b)'
    <3>1. PICK z \in On(m) : v \in PagesOf(kva[z]) /\ kva[z].kva_kvmbox = b
      BY <2>1 DEF BoxAt
    <3>2. v \in PagesOf(kva'[z]) /\ kva'[z].kva_kvmbox = b
      BY <1>1, <1>2, <1>9, <2>1, <3>1 DEF PagesOf
    <3> QED BY <1>8, <3>1, <3>2 DEF BoxAt
  <2>2. ASSUME NEW v \in Int, InArea(m, v)' PROVE InArea(m, v) /\ v \notin s .. e - 1
    <3>1. PICK z \in On(m) : v \in PagesOf(kva'[z])
      BY <1>8, <2>2 DEF InArea
    <3>2. v \in PagesOf(kva[z])
      BY <1>1, <1>2, <1>9, <3>1 DEF PagesOf
    <3>3. v \notin s .. e - 1
      <4>1. CASE z = d
        BY <1>1, <1>2, <3>1, <4>1 DEF PagesOf
      <4>2. CASE z # d
        <5>1. v \notin PagesOf(kva[d])
          BY <1>1, <3>2, <4>2, OneArea
        <5> QED BY <1>1, <1>2, <5>1 DEF PagesOf
      <4> QED BY <4>1, <4>2
    <3> QED BY <3>2, <3>3 DEF InArea
  <2>3. ASSUME NEW f \in Int, NEW t \in Int, Within(m, f, t), f < t, t <= s \/ e <= f PROVE Within(m, f, t)'
    <3>1. PICK z \in On(m) : kva[z].kva_start <= f /\ t <= kva[z].kva_end
      BY <2>3 DEF Within
    <3>2. kva'[z].kva_start <= f /\ t <= kva'[z].kva_end
      BY <1>1, <1>2, <1>9, <2>3, <3>1
    <3> QED BY <1>8, <3>1, <3>2 DEF Within
  <2> QED BY <1>8, <2>1, <2>2, <2>3 DEF Removed
<1>11. ASSUME NEW b \in Box PROVE Users(b)' = Users(b)
  BY <1>1, <1>2, <1>5 DEF Users, Unused
<1> QED BY <1>8, <1>10, <1>11

LEMMA CutStart ==
  ASSUME NEW a \in Area, NEW e \in Page, NEW c, c = [a EXCEPT !.kva_start = e]
  PROVE  /\ c \in Area /\ c # NULL /\ c.kva_start = e /\ c.kva_end = a.kva_end
         /\ c.kva_kvmbox = a.kva_kvmbox
<1>1. c \in Area /\ c.kva_start = e /\ c.kva_end = a.kva_end /\ c.kva_kvmbox = a.kva_kvmbox
  BY DEF Area
<1> QED BY <1>1, AreaType

LEMMA CutEnd ==
  ASSUME NEW a \in Area, NEW s \in 2 .. End, NEW c, c = [a EXCEPT !.kva_end = s]
  PROVE  /\ c \in Area /\ c # NULL /\ c.kva_end = s /\ c.kva_start = a.kva_start
         /\ c.kva_kvmbox = a.kva_kvmbox
<1>1. c \in Area /\ c.kva_end = s /\ c.kva_start = a.kva_start /\ c.kva_kvmbox = a.kva_kvmbox
  BY DEF Area
<1> QED BY <1>1, AreaType

(* Area x is one more of those that use box c. *)
BoxShared(c, x) == \A b \in Box : Users(b)' = IF b = c THEN Users(b) \cup {x} ELSE Users(b)

LEMMA MiddleGone ==
  ASSUME TypeOK, TypeOK', AInv, NEW m \in Mm, NEW i \in DOMAIN vs_list[m], NEW d, d = vs_list[m][i],
         NEW s \in Page, NEW e \in 2 .. End, s < e, kva[d].kva_start < s, e < kva[d].kva_end,
         NEW new \in Unused, NEW c, c = kva[d].kva_kvmbox,
         kva' = [kva EXCEPT ![d].kva_end = s, ![new] = [kva[d] EXCEPT !.kva_start = e]],
         vs_list' = [vs_list EXCEPT ![m] = InsertAfter(@, i, new)],
         vs_currkmvdsc' = [vs_currkmvdsc EXCEPT ![m] = new]
  PROVE  /\ AInv' /\ Removed(m, s, e)
         /\ BoxShared(c, new)
<1>0. PICK q : q = vs_list[m]
  OBVIOUS
<1>1. /\ q \in Seq(Kmvd) /\ Ordered(q, kva) /\ i \in DOMAIN q /\ d = q[i] /\ d \in On(m)
      /\ Len(q) \in Nat /\ DOMAIN q = 1 .. Len(q) /\ d \in Kmvd /\ kva[d] # NULL /\ kva[d] \in Area
      /\ s \in Int /\ e \in Int /\ s < e /\ kva[d].kva_start \in Int /\ kva[d].kva_end \in Int
      /\ On(m) = Elems(q)
  BY <1>0, Place, VirMemAssumption DEF Page
<1>1a. s <= e /\ s <= kva[d].kva_end /\ kva[d].kva_start <= kva[d].kva_start
  <2>1. PICK x \in Int, y \in Int : x = kva[d].kva_start /\ y = kva[d].kva_end /\ x < s /\ e < y
    BY <1>1
  <2>2. s <= e /\ s <= y /\ x <= x
    BY ONLY <1>1, <2>1
  <2> QED BY <2>1, <2>2
<1>2. new \in Kmvd /\ kva[new] = NULL /\ new # d /\ new \notin On(m)
  BY <1>1, OnArea DEF Unused
<1>3. /\ kva'[d] = [kva[d] EXCEPT !.kva_end = s]
      /\ kva'[new] = [kva[d] EXCEPT !.kva_start = e]
      /\ \A z \in Kmvd : z # d /\ z # new => kva'[z] = kva[z]
  BY <1>1, <1>2 DEF TypeOK
<1>4. /\ kva[d].kva_start \in Page /\ kva[d].kva_end \in 2 .. End /\ End \in Int
      /\ kva[d].kva_maptype \in Type /\ kva[d].kva_kvmbox \in Box \cup {NULL}
  BY <1>1, AreaType, VirMemAssumption
<1>5. s \in 2 .. End /\ e \in Page
  BY <1>1, <1>4 DEF Page
<1>6. kva'[d] # NULL /\ kva'[d].kva_start = kva[d].kva_start /\ kva'[d].kva_end = s
      /\ kva'[d].kva_kvmbox = kva[d].kva_kvmbox
  BY <1>1, <1>3, <1>5, CutEnd
<1>7. kva'[new] # NULL /\ kva'[new].kva_start = e /\ kva'[new].kva_end = kva[d].kva_end
      /\ kva'[new].kva_kvmbox = kva[d].kva_kvmbox
  BY <1>1, <1>3, <1>5, CutStart
<1>8. PICK l \in KvaType : l = kva'
  BY DEF TypeOK, KvaType
<1>9. kva \in KvaType
  BY DEF TypeOK, KvaType
<1>10. \A j \in DOMAIN q : j # i => l[q[j]] = kva[q[j]]
  <2>1. \A j \in DOMAIN q : j # i => q[j] # d /\ q[j] \in Kmvd
    BY <1>1, <1>9, OrderedOnce, ElementOfSeq
  <2>2. \A j \in DOMAIN q : q[j] # new
    BY <1>1, <1>2 DEF Elems
  <2> QED BY <1>3, <1>8, <2>1, <2>2
<1>11. Ordered(q, l)
  <2>0. /\ l[q[i]] = kva'[d] /\ kva[q[i]] = kva[d] /\ kva'[d] # NULL
        /\ kva'[d].kva_start = kva[d].kva_start /\ kva'[d].kva_end = s
        /\ kva[d].kva_start < s /\ s <= kva[d].kva_end /\ kva[d].kva_start <= kva[d].kva_start
    BY <1>1, <1>1a, <1>6, <1>8
  <2>1. /\ l[q[i]] # NULL /\ l[q[i]].kva_start < l[q[i]].kva_end
        /\ kva[q[i]].kva_start <= l[q[i]].kva_start
    BY ONLY <2>0
  <2>2. l[q[i]].kva_end <= kva[q[i]].kva_end
    BY ONLY <2>0
  <2> QED BY ONLY <1>1, <1>8, <1>9, <1>10, <2>1, <2>2, OrderedChange
<1>12. PICK w : w = InsertAfter(q, i, new)
  OBVIOUS
<1>13. w \in Seq(Kmvd) /\ Elems(w) = On(m) \cup {new}
  <2>1. Inserted(w, q, i, new)
    BY ONLY <1>1, <1>2, <1>12, InsertSeq
  <2> QED BY <1>1, <2>1 DEF Inserted
<1>14. Ordered(w, l)
  <2>1. l[new] # NULL /\ l[new].kva_start < l[new].kva_end
    BY <1>7, <1>8
  <2>0. l[q[i]] = kva'[d] /\ l[new] = kva'[new] /\ s <= e
    BY <1>1, <1>1a, <1>8
  <2>2. l[q[i]].kva_end <= l[new].kva_start
    BY ONLY <1>1, <1>6, <1>7, <2>0
  <2>3. i = Len(q) \/ l[new].kva_end <= l[q[i + 1]].kva_start
    <3>1. i # Len(q) => i + 1 \in DOMAIN q /\ i + 1 # i /\ i < i + 1
      BY <1>1
    <3>2. i # Len(q) => kva[q[i]].kva_end <= kva[q[i + 1]].kva_start
      BY <1>1, <3>1 DEF Ordered
    <3> QED BY <1>1, <1>7, <1>8, <1>10, <3>1, <3>2
  <2>4. Ordered(InsertAfter(q, i, new), l)
    BY ONLY <1>1, <1>2, <1>8, <1>11, <2>1, <2>2, <2>3, OrderedInsert
  <2> QED BY <1>12, <2>4
<1>15. AInv' /\ On(m)' = On(m) \cup {new} /\ \A o \in Mm \ {m} : Same(o)
  <2>1. vs_list' = [vs_list EXCEPT ![m] = w]
    BY <1>0, <1>12
  <2>2. Ordered(w, kva')
    BY <1>8, <1>14
  <2>3. \A x \in On(m) : x \notin Elems(w) => kva'[x] = NULL
    BY <1>13
  <2>4. \A x \in Kmvd : x \notin On(m) /\ x \notin Elems(w) => kva'[x] = kva[x]
    BY <1>1, <1>3, <1>13
  <2>5. Elems(w) \subseteq On(m) \cup Unused /\ w \in Seq(Kmvd) /\ new \in Elems(w)
    BY <1>13
  <2>6. AInv' /\ On(m)' = Elems(w) /\ \A o \in Mm \ {m} : Same(o)
    BY ONLY TypeOK, AInv, vs_currkmvdsc' = [vs_currkmvdsc EXCEPT ![m] = new],
       <2>1, <2>2, <2>3, <2>4, <2>5, StepAreas
  <2> QED BY <1>13, <2>6
<1>16. \A z \in On(m) : z # d => z # new /\ kva'[z] = kva[z]
  BY <1>2, <1>3, OnArea
<1>17. Removed(m, s, e)
  <2>1. ASSUME NEW v \in Int, NEW b \in Box, BoxAt(m, v, b), v \notin s .. e - 1 PROVE BoxAt(m, v, b)'
    <3>1. PICK z \in On(m) : v \in PagesOf(kva[z]) /\ kva[z].kva_kvmbox = b
      BY <2>1 DEF BoxAt
    <3>2. PICK x \in On(m) \cup {new} : v \in PagesOf(kva'[x]) /\ kva'[x].kva_kvmbox = b
      <4>1. CASE z # d
        BY <1>16, <3>1, <4>1
      <4>2. CASE z = d /\ v < s
        <5>1. v \in PagesOf(kva'[d])
          BY <1>1, <1>6, <3>1, <4>2 DEF PagesOf
        <5> QED BY <1>1, <1>6, <3>1, <4>2, <5>1
      <4>3. CASE z = d /\ e <= v
        <5>1. v \in PagesOf(kva'[new])
          BY <1>1, <1>7, <3>1, <4>3 DEF PagesOf
        <5> QED BY <1>7, <3>1, <4>3, <5>1
      <4>4. z # d \/ (z = d /\ v < s) \/ (z = d /\ e <= v)
        BY <1>1, <2>1
      <4> QED BY <4>1, <4>2, <4>3, <4>4
    <3> QED BY <1>15, <3>2 DEF BoxAt
  <2>2. ASSUME NEW v \in Int, InArea(m, v)' PROVE InArea(m, v) /\ v \notin s .. e - 1
    <3>1. PICK z \in On(m) \cup {new} : v \in PagesOf(kva'[z])
      BY <1>15, <2>2 DEF InArea
    <3>2. CASE z # d /\ z # new
      <4>1. z \in On(m) /\ v \in PagesOf(kva[z])
        BY <1>16, <3>1, <3>2
      <4>2. v \notin PagesOf(kva[d])
        BY <1>1, <3>2, <4>1, OneArea
      <4> QED BY <1>1, <4>1, <4>2 DEF InArea, PagesOf
    <3>3. CASE z = d
      <4>1. v \in PagesOf(kva[d]) /\ v \notin s .. e - 1
        BY <1>1, <1>6, <3>1, <3>3 DEF PagesOf
      <4> QED BY <1>1, <4>1 DEF InArea
    <3>4. CASE z = new
      <4>1. v \in PagesOf(kva[d]) /\ v \notin s .. e - 1
        BY <1>1, <1>7, <3>1, <3>4 DEF PagesOf
      <4> QED BY <1>1, <4>1 DEF InArea
    <3> QED BY <3>2, <3>3, <3>4
  <2>3. ASSUME NEW f \in Int, NEW t \in Int, Within(m, f, t), f < t, t <= s \/ e <= f PROVE Within(m, f, t)'
    <3>1. PICK z \in On(m) : kva[z].kva_start <= f /\ t <= kva[z].kva_end
      BY <2>3 DEF Within
    <3>2. \E x \in On(m) \cup {new} : kva'[x].kva_start <= f /\ t <= kva'[x].kva_end
      BY <1>1, <1>6, <1>7, <1>16, <2>3, <3>1
    <3> QED BY <1>15, <3>2 DEF Within
  <2> QED BY <1>15, <2>1, <2>2, <2>3 DEF Removed
<1>18. ASSUME NEW b \in Box
       PROVE  Users(b)' = IF b = c THEN Users(b) \cup {new} ELSE Users(b)
  <2>1. Users(b) = {x \in Kmvd : kva[x] # NULL /\ kva[x].kva_kvmbox = b}
    BY DEF Users, Unused
  <2>2. Users(b)' = {x \in Kmvd : kva'[x] # NULL /\ kva'[x].kva_kvmbox = b}
    BY DEF Users, Unused
  <2>3. ASSUME NEW x \in Kmvd
        PROVE  (kva'[x] # NULL /\ kva'[x].kva_kvmbox = b)
                 <=> ((kva[x] # NULL /\ kva[x].kva_kvmbox = b) \/ (x = new /\ kva[d].kva_kvmbox = b))
    <3>1. CASE x = d
      BY <1>1, <1>2, <1>6, <3>1
    <3>2. CASE x = new
      BY <1>2, <1>7, <3>2
    <3>3. CASE x # d /\ x # new
      BY <1>3, <3>3
    <3> QED BY <3>1, <3>2, <3>3
  <2> QED BY <1>2, <2>1, <2>2, <2>3
<1> QED BY <1>15, <1>17, <1>18 DEF BoxShared

-----------------------------------------------------------------------------
(* Users of boxes are counted. *)

LEMMA UsersFinite == \A b : IsFiniteSet(Users(b))
<1>1. ASSUME NEW b PROVE IsFiniteSet(Users(b))
  <2>1. Users(b) \in SUBSET Kmvd /\ IsFiniteSet(Kmvd)
    BY VirMemAssumption DEF Users
  <2> QED BY <2>1, FS_Subset
<1> QED BY <1>1

(* One area gives up box b. *)
LEMMA CountedLess ==
  ASSUME TypeOK, BoxesCounted, NEW b \in Box, NEW d \in Users(b), PutKvmemcbox(b),
         \A c \in Box : Users(c)' = Users(c) \ {d}
  PROVE  BoxesCounted' /\ kmb_cont' \in [Box -> Nat]
<1>1. b # NULL
  BY VirMemAssumption
<1>2. IsFiniteSet(Users(b)) /\ Cardinality(Users(b) \ {d}) = Cardinality(Users(b)) - 1
      /\ Cardinality(Users(b)) \in Nat /\ Cardinality(Users(b) \ {d}) \in Nat
  BY UsersFinite, FS_RemoveElement, FS_CardinalityType
<1>3. /\ kmb_cont' = [kmb_cont EXCEPT ![b] = @ - 1]
      /\ kbm_kmbhead' = IF LastUse(b) THEN kbm_kmbhead \ {b} ELSE kbm_kmbhead
      /\ kbm_cachehead' = kbm_cachehead \/ (LastUse(b) /\ kbm_cachehead' = kbm_cachehead \cup {b})
  BY <1>1 DEF PutKvmemcbox
<1>4. \A c \in Box : c # b => Users(c)' = Users(c) /\ kmb_cont'[c] = kmb_cont[c]
  BY <1>3 DEF Users, TypeOK
<1>5. kmb_cont'[b] = Cardinality(Users(b)') /\ kmb_cont'[b] = kmb_cont[b] - 1 /\ kmb_cont'[b] \in Nat
  BY <1>2, <1>3 DEF TypeOK, BoxesCounted
<1>6. LastUse(b) <=> kmb_cont'[b] = 0
  <2>1. kmb_cont[b] \in Nat
    BY DEF TypeOK
  <2> QED BY <1>5, <2>1 DEF LastUse
<1>7. kbm_kmbhead' \cap kbm_cachehead' = {}
  BY <1>3 DEF BoxesCounted
<1>8. ASSUME NEW c \in Box
      PROVE  kmb_cont'[c] = Cardinality(Users(c)') /\ (c \in kbm_kmbhead' <=> kmb_cont'[c] > 0)
  <2>1. CASE c = b
    <3>1. b \in kbm_kmbhead
      BY <1>2, <1>5 DEF BoxesCounted
    <3>2. b \in kbm_kmbhead' <=> ~LastUse(b)
      BY <1>3, <3>1
    <3>3. PICK n \in Nat : n = kmb_cont'[b]
      BY <1>5
    <3>4. n > 0 <=> ~(n = 0)
      BY ONLY <3>3
    <3>5. b \in kbm_kmbhead' <=> kmb_cont'[b] > 0
      BY ONLY <1>6, <3>2, <3>3, <3>4
    <3> QED BY <1>5, <2>1, <3>5
  <2>2. CASE c # b
    <3>1. c \in kbm_kmbhead' <=> c \in kbm_kmbhead
      BY <1>3, <2>2
    <3> QED BY <1>4, <2>2, <3>1 DEF BoxesCounted
  <2> QED BY <2>1, <2>2
<1>9. kmb_cont' \in [Box -> Nat]
  BY <1>3, <1>5 DEF TypeOK
<1> QED BY <1>7, <1>8, <1>9 DEF BoxesCounted

(* Box b in use gets one more area. *)
LEMMA CountedMore ==
  ASSUME TypeOK, BoxesCounted, NEW b \in Box, NEW d \in Users(b), NEW new, new \notin Users(b),
         kmb_cont' = [kmb_cont EXCEPT ![b] = @ + 1], UNCHANGED <<kbm_kmbhead, kbm_cachehead>>,
         \A c \in Box : Users(c)' = IF c = b THEN Users(c) \cup {new} ELSE Users(c)
  PROVE  BoxesCounted'
<1>1. IsFiniteSet(Users(b)) /\ Cardinality(Users(b) \cup {new}) = Cardinality(Users(b)) + 1
      /\ Cardinality(Users(b)) \in Nat /\ Cardinality(Users(b)) # 0
  BY UsersFinite, FS_AddElement, FS_CardinalityType, FS_EmptySet
<1>2. \A c \in Box : c # b => Users(c)' = Users(c) /\ kmb_cont'[c] = kmb_cont[c]
  BY DEF TypeOK
<1>3. Users(b)' = Users(b) \cup {new} /\ kmb_cont'[b] = kmb_cont[b] + 1
  BY DEF TypeOK
<1>4. kmb_cont'[b] = Cardinality(Users(b)') /\ b \in kbm_kmbhead' /\ kmb_cont'[b] > 0
  BY <1>1, <1>3 DEF BoxesCounted
<1>5. ASSUME NEW c \in Box
      PROVE  kmb_cont'[c] = Cardinality(Users(c)') /\ (c \in kbm_kmbhead' <=> kmb_cont'[c] > 0)
  <2>1. CASE c = b
    BY <1>4, <2>1
  <2>2. CASE c # b
    BY <1>2, <2>2 DEF BoxesCounted
  <2> QED BY <2>1, <2>2
<1> QED BY <1>5 DEF BoxesCounted

LEMMA UsedCounts ==
  ASSUME BoxesCounted, TypeOK, NEW b \in Box, NEW d \in Users(b)
  PROVE  kmb_cont[b] \in Nat /\ kmb_cont[b] - 1 \in Nat /\ b \in kbm_kmbhead
<1>1. Cardinality(Users(b)) \in Nat /\ Cardinality(Users(b)) # 0
  BY UsersFinite, FS_CardinalityType, FS_EmptySet
<1>2. kmb_cont[b] = Cardinality(Users(b))
  BY DEF BoxesCounted
<1>3. PICK n \in Nat : n = kmb_cont[b] /\ n # 0
  BY <1>1, <1>2
<1>4. n - 1 \in Nat /\ n > 0
  BY ONLY <1>3
<1> QED BY <1>3, <1>4 DEF BoxesCounted

(* Pages s .. e - 1 of the i-th area, or of a part of it, are given up. *)
Freed(m, i, s, e) ==
  LET a == kva[vs_list[m][i]]
  IN  /\ Unmapping(m, a.kva_kvmbox, s, e)
      /\ \/ Whole(a, s, e) /\ DelWhole(m, i)
         \/ /\ ~Whole(a, s, e) /\ (a.kva_start = s \/ a.kva_end = e)
            /\ DelEdge(m, i, s, e)
         \/ a.kva_start < s /\ e < a.kva_end /\ DelMiddle(m, i, s, e)

LEMMA FreedArea ==
  ASSUME TypeOK, AInv, NEW m \in Mm, NEW s \in Page, NEW e \in 2 .. End,
         NEW i \in VmaFindArea(m, s, e)
  PROVE  /\ i \in DOMAIN vs_list[m]
         /\ kva[vs_list[m][i]].kva_start <= s /\ e <= kva[vs_list[m][i]].kva_end
         /\ vs_list[m][i] \in On(m)
BY FirstIn DEF VmaFindArea, On, Elems

LEMMA FreedGone ==
  ASSUME TypeOK, TypeOK', AInv, BoxesCounted, NEW m \in Mm, NEW s \in Page, NEW e \in 2 .. End, s < e,
         NEW i \in VmaFindArea(m, s, e), Freed(m, i, s, e)
  PROVE  AInv' /\ Removed(m, s, e) /\ BoxesCounted'
<1>1. PICK d : d = vs_list[m][i]
  OBVIOUS
<1>2. PICK b : b = kva[d].kva_kvmbox
  OBVIOUS
<1>3. /\ i \in DOMAIN vs_list[m] /\ kva[d].kva_start <= s /\ e <= kva[d].kva_end
      /\ d \in On(m) /\ d \in Kmvd /\ kva[d] # NULL /\ b \in Box \cup {NULL}
      /\ kva[d].kva_start \in Int /\ kva[d].kva_end \in Int /\ s \in Int /\ e \in Int
  BY <1>1, <1>2, FreedArea, OnArea, VirMemAssumption DEF Page
<1>4. b \in Box => d \in Users(b)
  BY <1>2, <1>3 DEF Users, Unused
<1>5. NULL \notin Box
  BY VirMemAssumption
<1>6. CASE Whole(kva[d], s, e) /\ DelWhole(m, i)
  <2>1. /\ PutKvmemcbox(b)
        /\ kva' = [kva EXCEPT ![d] = NULL] /\ vs_list' = [vs_list EXCEPT ![m] = Without(@, i)]
        /\ vs_currkmvdsc' = [vs_currkmvdsc EXCEPT ![m] = CurrAfterDel(m, i)]
    BY <1>1, <1>2, <1>6 DEF DelWhole
  <2>2. s = kva[d].kva_start /\ e = kva[d].kva_end
    BY <1>6 DEF Whole
  <2>3. AInv' /\ Removed(m, s, e) /\ \A c \in Box : Users(c)' = Users(c) \ {d}
    BY <1>1, <1>3, <2>1, <2>2, WholeGone
  <2>4. BoxesCounted'
    <3>1. CASE b \in Box
      BY <1>4, <2>1, <2>3, <3>1, CountedLess
    <3>2. CASE b = NULL
      <4>1. \A c \in Box : d \notin Users(c)
        BY <1>2, <1>5, <3>2 DEF Users
      <4>2. \A c \in Box : Users(c)' = Users(c)
        BY <2>3, <4>1
      <4> QED BY <2>1, <3>2, <4>2, CountsKept DEF PutKvmemcbox
    <3> QED BY <1>3, <3>1, <3>2
  <2> QED BY <2>3, <2>4
<1>7. CASE ~Whole(kva[d], s, e) /\ (kva[d].kva_start = s \/ kva[d].kva_end = e) /\ DelEdge(m, i, s, e)
  <2>1. /\ kva' = IF kva[d].kva_start = s THEN [kva EXCEPT ![d].kva_start = e]
                  ELSE [kva EXCEPT ![d].kva_end = s]
        /\ UNCHANGED <<vs_list, vs_currkmvdsc, kbm_kmbhead, kbm_cachehead, kmb_cont>>
    BY <1>1, <1>7 DEF DelEdge
  <2>2. ~(kva[d].kva_start = s /\ kva[d].kva_end = e)
    BY <1>7 DEF Whole
  <2>3. (kva[d].kva_start = s => e < kva[d].kva_end) /\ (kva[d].kva_start # s => kva[d].kva_start < s)
    BY <1>3, <2>2
  <2>4. \/ kva[d].kva_start = s /\ e < kva[d].kva_end /\ kva' = [kva EXCEPT ![d].kva_start = e]
        \/ kva[d].kva_end = e /\ kva[d].kva_start < s /\ kva' = [kva EXCEPT ![d].kva_end = s]
    BY <1>7, <2>1, <2>3
  <2>5. AInv' /\ Removed(m, s, e) /\ \A c \in Box : Users(c)' = Users(c)
    BY <1>1, <1>3, <2>1, <2>4, EdgeGone
  <2> QED BY <2>1, <2>5, CountsKept
<1>8. CASE kva[d].kva_start < s /\ e < kva[d].kva_end /\ DelMiddle(m, i, s, e)
  <2>1. PICK new \in Unused :
          /\ kva' = [kva EXCEPT ![d].kva_end = s, ![new] = [kva[d] EXCEPT !.kva_start = e]]
          /\ vs_list' = [vs_list EXCEPT ![m] = InsertAfter(@, i, new)]
          /\ vs_currkmvdsc' = [vs_currkmvdsc EXCEPT ![m] = new]
    BY <1>1, <1>8, KmsobOf DEF DelMiddle
  <2>2. kmb_cont' = Count(b) /\ UNCHANGED <<kbm_kmbhead, kbm_cachehead>>
    BY <1>1, <1>2, <1>8 DEF DelMiddle
  <2>3. AInv' /\ Removed(m, s, e)
        /\ \A c \in Box : Users(c)' = IF c = b THEN Users(c) \cup {new} ELSE Users(c)
    <3>1. kva[d].kva_start < s /\ e < kva[d].kva_end
      BY <1>8
    <3>2. AInv' /\ Removed(m, s, e) /\ BoxShared(b, new)
      BY ONLY TypeOK, TypeOK', AInv, s < e, <1>1, <1>2, <1>3, <2>1, <3>1, MiddleGone
    <3> QED BY <3>2 DEF BoxShared
  <2>4. BoxesCounted'
    <3>1. CASE b \in Box
      <4>1. new \notin Users(b)
        BY DEF Users
      <4>2. kmb_cont' = [kmb_cont EXCEPT ![b] = @ + 1]
        BY <1>5, <2>2, <3>1 DEF Count
      <4>3. \A c \in Box : Users(c)' = IF c = b THEN Users(c) \cup {new} ELSE Users(c)
        BY <2>3
      <4> QED BY <1>4, <2>2, <3>1, <4>1, <4>2, <4>3, CountedMore
    <3>2. CASE b = NULL
      BY <1>5, <2>2, <2>3, <3>2, CountsKept DEF Count
    <3> QED BY <1>3, <3>1, <3>2
  <2> QED BY <2>3, <2>4
<1> QED BY <1>1, <1>6, <1>7, <1>8 DEF Freed

LEMMA FreedType ==
  ASSUME TypeOK, AInv, BoxesCounted, NEW m \in Mm, NEW s \in Page, NEW e \in 2 .. End, s < e,
         NEW i \in VmaFindArea(m, s, e), Freed(m, i, s, e),
         blocks' \in [Mm -> SUBSET (Page \X (2 .. End))], UNCHANGED <<stus, cr2, fault>>
  PROVE  TypeOK'
<1>1. PICK d : d = vs_list[m][i]
  OBVIOUS
<1>2. PICK b : b = kva[d].kva_kvmbox
  OBVIOUS
<1>3. /\ i \in DOMAIN vs_list[m] /\ kva[d].kva_start <= s /\ e <= kva[d].kva_end
      /\ d \in On(m) /\ d \in Kmvd /\ kva[d] # NULL /\ kva[d] \in Area /\ b \in Box \cup {NULL}
      /\ kva[d].kva_start \in Int /\ kva[d].kva_end \in Int /\ s \in Int /\ e \in Int
      /\ kva[d].kva_start \in Page /\ kva[d].kva_end \in 2 .. End /\ End \in Int
  BY <1>1, <1>2, FreedArea, OnArea, VirMemAssumption DEF Page
<1>4. /\ vs_list[m] \in Seq(Kmvd) /\ Len(vs_list[m]) \in Nat /\ DOMAIN vs_list[m] = 1 .. Len(vs_list[m])
      /\ \A j \in DOMAIN vs_list[m] : vs_list[m][j] \in Kmvd
  BY LenProperties, ElementOfSeq DEF TypeOK
<1>5. b \in Box => d \in Users(b)
  BY <1>2, <1>3 DEF Users, Unused
<1>6. /\ mapped' \in [Mm -> [Page -> Frame \cup {NULL}]] /\ free' \subseteq Frame
      /\ kmb_msalist' \in [Box -> SUBSET Frame]
  <2>1. Unmapping(m, b, s, e)
    BY <1>1, <1>2 DEF Freed
  <2>2. FramesOf(m, b, s, e) \subseteq Frame
    BY <1>3 DEF FramesOf, TypeOK
  <2>3. mapped' \in [Mm -> [Page -> Frame \cup {NULL}]]
    BY <2>1 DEF Unmapping, MappedWithout, TypeOK
  <2> QED BY <1>3, <2>1, <2>2, <2>3 DEF Unmapping, TypeOK
<1>7. /\ kbm_kmbhead' \subseteq Box /\ kbm_cachehead' \subseteq Box
      /\ kmb_cont' \in [Box -> Nat]
      /\ vs_list' \in [Mm -> Seq(Kmvd)] /\ vs_currkmvdsc' \in [Mm -> Kmvd \cup {NULL}]
      /\ kva' \in [Kmvd -> Area \cup {NULL}]
  <2>1. CASE DelWhole(m, i)
    <3>1. /\ PutKvmemcbox(b)
          /\ kva' = [kva EXCEPT ![d] = NULL] /\ vs_list' = [vs_list EXCEPT ![m] = Without(@, i)]
          /\ vs_currkmvdsc' = [vs_currkmvdsc EXCEPT ![m] = CurrAfterDel(m, i)]
      BY <1>1, <1>2, <2>1 DEF DelWhole
    <3>2. kbm_kmbhead' \subseteq Box /\ kbm_cachehead' \subseteq Box /\ kmb_cont' \in [Box -> Nat]
      <4>1. CASE b = NULL
        BY <3>1, <4>1 DEF PutKvmemcbox, TypeOK
      <4>2. CASE b # NULL
        <5>1. b \in Box /\ kmb_cont[b] - 1 \in Nat
          BY <1>3, <1>5, <4>2, UsedCounts
        <5> QED BY <3>1, <4>2, <5>1 DEF PutKvmemcbox, TypeOK
      <4> QED BY <4>1, <4>2
    <3>3. CurrAfterDel(m, i) \in Kmvd \cup {NULL}
      <4>1. i < Len(vs_list[m]) => i + 1 \in DOMAIN vs_list[m]
        BY <1>3, <1>4
      <4>2. i > 1 => i - 1 \in DOMAIN vs_list[m]
        BY <1>3, <1>4
      <4> QED BY <1>4, <4>1, <4>2 DEF CurrAfterDel
    <3>4. Without(vs_list[m], i) \in Seq(Kmvd)
      BY <1>3, <1>4, WithoutSeq
    <3> QED BY <1>3, <3>1, <3>2, <3>3, <3>4 DEF TypeOK
  <2>2. CASE DelEdge(m, i, s, e) /\ ~Whole(kva[d], s, e) /\ (kva[d].kva_start = s \/ kva[d].kva_end = e)
    <3>1. /\ kva' = IF kva[d].kva_start = s THEN [kva EXCEPT ![d].kva_start = e]
                    ELSE [kva EXCEPT ![d].kva_end = s]
          /\ UNCHANGED <<vs_list, vs_currkmvdsc, kbm_kmbhead, kbm_cachehead, kmb_cont>>
      BY <1>1, <2>2 DEF DelEdge
    <3>2. CASE kva[d].kva_start = s
      <4>1. kva[d].kva_end # e
        BY <2>2, <3>2 DEF Whole
      <4>2. e \in Page
        BY <1>3, <4>1 DEF Page
      <4>3. [kva[d] EXCEPT !.kva_start = e] \in Area
        BY <1>3, <4>2, CutStart
      <4> QED BY <1>3, <3>1, <3>2, <4>3 DEF TypeOK
    <3>3. CASE kva[d].kva_start # s
      <4>1. s \in 2 .. End
        BY <1>3, <3>3 DEF Page
      <4>2. [kva[d] EXCEPT !.kva_end = s] \in Area
        BY <1>3, <4>1, CutEnd
      <4> QED BY <1>3, <3>1, <3>3, <4>2 DEF TypeOK
    <3> QED BY <3>2, <3>3
  <2>3. CASE kva[d].kva_start < s /\ e < kva[d].kva_end /\ DelMiddle(m, i, s, e)
    <3>1. PICK new \in Unused :
            /\ kva' = [kva EXCEPT ![d].kva_end = s, ![new] = [kva[d] EXCEPT !.kva_start = e]]
            /\ vs_list' = [vs_list EXCEPT ![m] = InsertAfter(@, i, new)]
            /\ vs_currkmvdsc' = [vs_currkmvdsc EXCEPT ![m] = new]
      BY <1>1, <2>3, KmsobOf DEF DelMiddle
    <3>2. kmb_cont' = Count(b) /\ UNCHANGED <<kbm_kmbhead, kbm_cachehead>>
      BY <1>1, <1>2, <2>3 DEF DelMiddle
    <3>3. kmb_cont' \in [Box -> Nat]
      BY <1>3, <3>2 DEF Count, TypeOK
    <3>4. s \in 2 .. End /\ e \in Page
      BY <1>3, <2>3 DEF Page
    <3>5. [kva[d] EXCEPT !.kva_end = s] \in Area /\ [kva[d] EXCEPT !.kva_start = e] \in Area
      BY <1>3, <3>4, CutStart, CutEnd
    <3>6. kva' \in [Kmvd -> Area \cup {NULL}]
      BY <1>3, <3>1, <3>5 DEF TypeOK
    <3>7. new \in Kmvd
      BY DEF Unused
    <3>8. PICK w : w = InsertAfter(vs_list[m], i, new)
      OBVIOUS
    <3>9. w \in Seq(Kmvd)
      BY <1>3, <1>4, <3>7, <3>8, InsertSeq DEF Inserted
    <3>10. vs_list' = [vs_list EXCEPT ![m] = w]
      BY <3>1, <3>8
    <3> QED BY <3>1, <3>2, <3>3, <3>6, <3>7, <3>9, <3>10 DEF TypeOK
  <2> QED BY <1>1, <2>1, <2>2, <2>3 DEF Freed
<1> QED BY <1>6, <1>7 DEF TypeOK

LEMMA StepMfreeblk ==
  ASSUME IInv, NEW m \in Mm, NEW b \in blocks[m], NEW s \in b[1] .. b[2] - 1, NEW e \in s + 1 .. b[2],
         Mfreeblk(m, b, s, e)
  PROVE  IInv'
<1>0. TypeOK /\ AInv /\ BoxesCounted /\ FInv /\ BInv /\ NInv
  BY DEF IInv
<1>1. b[1] \in Page /\ b[2] \in 2 .. End /\ b[1] \in Int /\ b[2] \in Int /\ End \in Int
  BY <1>0, BlockType, VirMemAssumption
<1>2. s \in Int /\ e \in Int /\ b[1] <= s /\ s < e /\ e <= b[2] /\ s \in Page /\ e \in 2 .. End
  BY <1>1 DEF Page
<1>3. PICK i \in VmaFindArea(m, s, e) : Freed(m, i, s, e)
  BY DEF Mfreeblk, VmaDelVadrs, Freed
<1>4. /\ stus[m] = "run" /\ blocks' = [blocks EXCEPT ![m] = (@ \ {b}) \cup Rest(b, s, e)]
      /\ UNCHANGED <<stus, cr2, fault>>
  BY DEF Mfreeblk, Runs
<1>5. TypeOK'
  <2>1. Rest(b, s, e) \subseteq Page \X (2 .. End)
    <3>1. ASSUME NEW r \in Rest(b, s, e) PROVE r \in Page \X (2 .. End)
      <4>1. CASE r = <<b[1], s>>
        <5>1. b[1] < s
          BY <4>1 DEF Rest
        <5>2. s \in 2 .. End
          BY <1>1, <1>2, <5>1 DEF Page
        <5> QED BY <1>1, <4>1, <5>2
      <4>2. CASE r = <<e, b[2]>>
        <5>1. e < b[2]
          BY <4>2 DEF Rest
        <5>2. e \in Page
          BY <1>1, <1>2, <5>1 DEF Page
        <5> QED BY <1>1, <4>2, <5>2
      <4> QED BY <4>1, <4>2 DEF Rest
    <3> QED BY <3>1
  <2>2. blocks' \in [Mm -> SUBSET (Page \X (2 .. End))]
    BY <1>0, <1>4, <2>1 DEF TypeOK
  <2> QED BY <1>0, <1>2, <1>3, <1>4, <2>2, FreedType
<1>6. AInv' /\ Removed(m, s, e) /\ BoxesCounted'
  BY <1>0, <1>2, <1>3, <1>5, FreedGone
<1>7. FInv'
  <2>1. PICK c : c = kva[vs_list[m][i]].kva_kvmbox
    OBVIOUS
  <2>2. c \in Box \cup {NULL}
    BY <1>0, <1>2, <2>1, FreedArea, OnArea
  <2>3. Unmapping(m, c, s, e)
    BY <1>3, <2>1 DEF Freed
  <2> QED BY <1>0, <1>2, <1>6, <2>2, <2>3, RemovedFrames
<1>8. BInv'
  BY <1>0, <1>2, <1>4, <1>5, <1>6, RemovedBlocks
<1>9. NInv'
  <2>1. ASSUME NEW o \in Mm, o # m
        PROVE  (stus'[o] = "none" => vs_list'[o] = << >>) /\ (stus'[o] = "new" => ~InArea(o, AppStart)')
    <3>1. vs_list'[o] = vs_list[o] /\ stus'[o] = stus[o]
      BY <1>0, <1>3, <1>4, <2>1 DEF Freed, DelWhole, DelEdge, DelMiddle, TypeOK
    <3>2. InArea(o, AppStart)' <=> InArea(o, AppStart)
      BY <1>6, <2>1, SameAreas DEF Removed
    <3> QED BY <1>0, <3>1, <3>2 DEF NInv
  <2>2. stus'[m] = "run"
    BY <1>4
  <2> QED BY <2>1, <2>2 DEF NInv
<1> QED BY <1>5, <1>6, <1>7, <1>8, <1>9 DEF IInv

-----------------------------------------------------------------------------
(* Pages come. *)

(* Areas keep their places: only boxes change. *)
Placed ==
  /\ \A o \in Mm : On(o)' = On(o)
  /\ \A d \in Kmvd : /\ kva'[d] = NULL <=> kva[d] = NULL
                     /\ kva[d] # NULL => /\ kva'[d].kva_start = kva[d].kva_start
                                         /\ kva'[d].kva_end = kva[d].kva_end

LEMMA PlacedAreas ==
  ASSUME TypeOK, AInv, Placed, UNCHANGED <<vs_list, vs_currkmvdsc>>
  PROVE  /\ AInv'
         /\ \A o \in Mm : \A v \in Int : InArea(o, v)' <=> InArea(o, v)
         /\ \A o \in Mm : \A x, y \in Int : Within(o, x, y)' <=> Within(o, x, y)
<1>1. \A o \in Mm : \A d \in On(o) : /\ kva'[d] # NULL /\ kva[d] # NULL /\ d \in Kmvd
                                     /\ kva'[d].kva_start = kva[d].kva_start /\ kva'[d].kva_end = kva[d].kva_end
  BY OnArea DEF Placed
<1>2. ASSUME NEW o \in Mm PROVE Ordered(vs_list[o], kva)'
  <2>1. Ordered(vs_list[o], kva) /\ vs_list'[o] = vs_list[o]
    BY DEF AInv
  <2>2. \A j \in DOMAIN vs_list[o] : vs_list[o][j] \in On(o)
    BY DEF On, Elems
  <2> QED BY <1>1, <2>1, <2>2 DEF Ordered
<1>3. AInv'
  BY <1>2 DEF AInv, Placed
<1>4. ASSUME NEW o \in Mm, NEW v \in Int PROVE InArea(o, v)' <=> InArea(o, v)
  BY <1>1 DEF InArea, PagesOf, Placed
<1>5. ASSUME NEW o \in Mm, NEW x \in Int, NEW y \in Int PROVE Within(o, x, y)' <=> Within(o, x, y)
  BY <1>1 DEF Within, Placed
<1> QED BY <1>3, <1>4, <1>5

(* Frames F go to box b, now the box of area d. *)
Filled(d, b, F) ==
  /\ kva'[d].kva_kvmbox = b
  /\ F \subseteq kmb_msalist'[b]
  /\ \A c \in Box : kmb_msalist'[c] \subseteq IF c = b THEN kmb_msalist[c] \cup F ELSE kmb_msalist[c]
  /\ \A o \in Mm, v \in Int, c \in Box :
       BoxAt(o, v, c) => BoxAt(o, v, c)' /\ kmb_msalist[c] \subseteq kmb_msalist'[c]

LEMMA BoxToGet ==
  ASSUME TypeOK, BoxesCounted, NEW b \in BoxesToGet
  PROVE  b \in Box /\ b # NULL /\ kmb_cont[b] = 0 /\ Users(b) = {}
<1>1. b \in Box /\ b \notin kbm_kmbhead
  BY DEF BoxesToGet, BoxesCounted, TypeOK
<1>2. ~(kmb_cont[b] > 0) /\ kmb_cont[b] \in Nat /\ kmb_cont[b] = Cardinality(Users(b))
  BY <1>1 DEF BoxesCounted, TypeOK
<1>3. PICK n \in Nat : n = kmb_cont[b]
  BY <1>2
<1>4. n = 0
  BY <1>2, <1>3
<1> QED BY <1>1, <1>2, <1>3, <1>4, UsersFinite, FS_EmptySet, VirMemAssumption

LEMMA BoxPut ==
  ASSUME NEW a \in Area, NEW b \in Box
  PROVE  \E c \in Area : c = [a EXCEPT !.kva_kvmbox = b] /\ c.kva_kvmbox = b
                         /\ c.kva_start = a.kva_start /\ c.kva_end = a.kva_end
<1>1. PICK c : c = [a EXCEPT !.kva_kvmbox = b]
  OBVIOUS
<1>2. c \in Area /\ c.kva_kvmbox = b /\ c.kva_start = a.kva_start /\ c.kva_end = a.kva_end
  BY <1>1 DEF Area
<1> QED BY <1>1, <1>2

LEMMA BoxReturned ==
  ASSUME TypeOK, AInv, BoxesCounted, NEW m \in Mm, NEW d \in On(m), NEW b \in Box, NEW F \in SUBSET Frame,
         RetnKvmemcbox(d, b, F), UNCHANGED <<vs_list, vs_currkmvdsc>>
  PROVE  /\ Placed /\ Filled(d, b, F) /\ BoxesCounted'
         /\ kva' \in [Kmvd -> Area \cup {NULL}]
         /\ kbm_kmbhead' \subseteq Box /\ kbm_cachehead' \subseteq Box
         /\ kmb_cont' \in [Box -> Nat] /\ kmb_msalist' \in [Box -> SUBSET Frame]
<1>1. d \in Kmvd /\ kva[d] \in Area /\ kva[d] # NULL /\ b # NULL
  BY OnArea, VirMemAssumption
<1>2. \A o \in Mm : On(o)' = On(o)
  BY DEF On
<1>3. CASE kva[d].kva_kvmbox = b /\ kmb_msalist' = [kmb_msalist EXCEPT ![b] = @ \cup F]
           /\ UNCHANGED <<kva, kbm_kmbhead, kbm_cachehead, kmb_cont>>
  <2>1. Placed
    BY <1>2, <1>3 DEF Placed
  <2>2. kmb_msalist'[b] = kmb_msalist[b] \cup F /\ \A c \in Box \ {b} : kmb_msalist'[c] = kmb_msalist[c]
    BY <1>3 DEF TypeOK
  <2>3. \A o \in Mm, v \in Int, c \in Box : BoxAt(o, v, c) => BoxAt(o, v, c)'
    BY <1>2, <1>3 DEF BoxAt
  <2>4. Filled(d, b, F)
    BY <1>3, <2>2, <2>3 DEF Filled
  <2>5. BoxesCounted'
    BY <1>3, CountsKept DEF Users, Unused
  <2> QED BY <1>3, <2>1, <2>4, <2>5 DEF TypeOK
<1>4. CASE /\ kva[d].kva_kvmbox = NULL /\ b \in BoxesToGet
           /\ kva' = [kva EXCEPT ![d].kva_kvmbox = b]
           /\ kbm_kmbhead' = kbm_kmbhead \cup {b}
           /\ kbm_cachehead' = kbm_cachehead \ {b}
           /\ kmb_cont' = [kmb_cont EXCEPT ![b] = 1]
           /\ kmb_msalist' = [kmb_msalist EXCEPT ![b] = F]
  <2>1. Users(b) = {}
    BY <1>4, BoxToGet
  <2>2. kva'[d] = [kva[d] EXCEPT !.kva_kvmbox = b] /\ \A x \in Kmvd : x # d => kva'[x] = kva[x]
    BY <1>1, <1>4 DEF TypeOK
  <2>3. PICK a \in Area : a = [kva[d] EXCEPT !.kva_kvmbox = b] /\ a.kva_kvmbox = b
                          /\ a.kva_start = kva[d].kva_start /\ a.kva_end = kva[d].kva_end
    BY <1>1, BoxPut
  <2>4. a # NULL /\ kva'[d] = a
    BY <2>2, <2>3, AreaType
  <2>5. Placed
    BY <1>1, <1>2, <2>2, <2>3, <2>4 DEF Placed
  <2>6. kmb_msalist'[b] = F /\ \A c \in Box \ {b} : kmb_msalist'[c] = kmb_msalist[c]
    BY <1>4 DEF TypeOK
  <2>7. ASSUME NEW o \in Mm, NEW v \in Int, NEW c \in Box, BoxAt(o, v, c)
        PROVE  BoxAt(o, v, c)' /\ c # b
    <3>1. PICK x \in On(o) : v \in PagesOf(kva[x]) /\ kva[x].kva_kvmbox = c
      BY <2>7 DEF BoxAt
    <3>2. x \in Kmvd /\ kva[x] # NULL
      BY OnArea
    <3>3. x \in Users(c)
      BY <3>1, <3>2 DEF Users, Unused
    <3>4. x # d
      BY <1>4, <3>1, VirMemAssumption
    <3> QED BY <1>2, <2>1, <2>2, <3>1, <3>2, <3>3, <3>4 DEF BoxAt
  <2>8. Filled(d, b, F)
    BY <2>3, <2>4, <2>6, <2>7 DEF Filled
  <2>9. Users(b)' = {d}
    <3>1. Users(b)' = {x \in Kmvd : kva'[x] # NULL /\ kva'[x].kva_kvmbox = b}
      BY DEF Users, Unused
    <3>2. \A x \in Kmvd : ~(kva[x] # NULL /\ kva[x].kva_kvmbox = b)
      BY <2>1 DEF Users, Unused
    <3> QED BY <1>1, <2>2, <2>3, <2>4, <3>1, <3>2
  <2>10. ASSUME NEW c \in Box, c # b PROVE Users(c)' = Users(c)
    <3>1. Users(c) = {x \in Kmvd : kva[x] # NULL /\ kva[x].kva_kvmbox = c}
      BY DEF Users, Unused
    <3>2. Users(c)' = {x \in Kmvd : kva'[x] # NULL /\ kva'[x].kva_kvmbox = c}
      BY DEF Users, Unused
    <3>3. ASSUME NEW x \in Kmvd
          PROVE  (kva'[x] # NULL /\ kva'[x].kva_kvmbox = c) <=> (kva[x] # NULL /\ kva[x].kva_kvmbox = c)
      BY <1>4, <2>2, <2>3, <2>4, <2>10, VirMemAssumption
    <3> QED BY <3>1, <3>2, <3>3
  <2>11. BoxesCounted'
    <3>1. kbm_kmbhead' \cap kbm_cachehead' = {}
      BY <1>4 DEF BoxesCounted
    <3>2. ASSUME NEW c \in Box
          PROVE  kmb_cont'[c] = Cardinality(Users(c)') /\ (c \in kbm_kmbhead' <=> kmb_cont'[c] > 0)
      <4>1. CASE c = b
        <5>1. Cardinality({d}) = 1
          BY FS_Singleton
        <5>2. kmb_cont'[b] = 1 /\ b \in kbm_kmbhead'
          BY <1>4 DEF TypeOK
        <5> QED BY <2>9, <4>1, <5>1, <5>2
      <4>2. CASE c # b
        BY <1>4, <2>10, <4>2 DEF TypeOK, BoxesCounted
      <4> QED BY <4>1, <4>2
    <3> QED BY <3>1, <3>2 DEF BoxesCounted
  <2> QED BY <1>1, <1>4, <2>3, <2>4, <2>5, <2>8, <2>11 DEF TypeOK
<1> QED BY <1>3, <1>4 DEF RetnKvmemcbox

(* A handler that found an area has done its work; its box got frames F. *)
LEMMA StepFilled ==
  ASSUME IInv, NEW m \in Mm, NEW d \in On(m), NEW b \in Box, NEW F \in SUBSET free,
         RetnKvmemcbox(d, b, F), EndFault(m), FInv', stus' \in [Mm -> Stus],
         \A o \in Mm : stus'[o] # stus[o] => stus'[o] \notin {"none", "new"},
         free' \subseteq Frame, mapped' \in [Mm -> [Page -> Frame \cup {NULL}]]
  PROVE  IInv'
<1>0. TypeOK /\ AInv /\ BoxesCounted /\ FInv /\ BInv /\ NInv
  BY DEF IInv
<1>1. UNCHANGED <<vs_list, vs_currkmvdsc, blocks>> /\ fault' = [fault EXCEPT ![m] = 0] /\ cr2' \in {0, cr2}
  BY DEF EndFault
<1>2. F \in SUBSET Frame
  BY <1>0 DEF TypeOK
<1>3. /\ Placed /\ BoxesCounted'
      /\ kva' \in [Kmvd -> Area \cup {NULL}]
      /\ kbm_kmbhead' \subseteq Box /\ kbm_cachehead' \subseteq Box
      /\ kmb_cont' \in [Box -> Nat] /\ kmb_msalist' \in [Box -> SUBSET Frame]
  BY <1>0, <1>1, <1>2, BoxReturned
<1>4. TypeOK'
  <2>1. 0 \in 0 .. End - 1
    BY VirMemAssumption
  <2> QED BY <1>0, <1>1, <1>3, <2>1 DEF TypeOK
<1>5. /\ AInv'
      /\ \A o \in Mm : \A v \in Int : InArea(o, v)' <=> InArea(o, v)
      /\ \A o \in Mm : \A x, y \in Int : Within(o, x, y)' <=> Within(o, x, y)
  BY <1>0, <1>1, <1>3, PlacedAreas
<1>6. ASSUME NEW o \in Mm PROVE BlocksOK(o)'
  <2>1. BlocksOK(o) /\ blocks'[o] = blocks[o]
    BY <1>0, <1>1 DEF BInv
  <2>2. \A c \in blocks[o] : c[1] \in Int /\ c[2] \in Int
    BY <1>0, BlockType
  <2> QED BY <1>5, <2>1, <2>2 DEF BlocksOK, Granted
<1>7. AppStart \in Int
  BY VirMemAssumption
<1>8. NInv'
  BY <1>0, <1>1, <1>5, <1>7 DEF NInv
<1> QED BY <1>3, <1>4, <1>5, <1>6, <1>8 DEF IInv, BInv

LEMMA FoundForFault ==
  ASSUME IInv, NEW m \in Mm, NEW i \in VmaFindArea(m, cr2, cr2 + 1)
  PROVE  /\ vs_list[m][i] \in On(m) /\ cr2 \in Page /\ cr2 \in Int
         /\ cr2 \in PagesOf(kva[vs_list[m][i]])
<1>1. i \in DOMAIN vs_list[m] /\ kva[vs_list[m][i]].kva_start <= cr2 /\ cr2 + 1 <= kva[vs_list[m][i]].kva_end
  BY FirstIn DEF VmaFindArea
<1>2. vs_list[m][i] \in On(m)
  BY <1>1 DEF On, Elems
<1>3. kva[vs_list[m][i]].kva_start \in Page /\ kva[vs_list[m][i]].kva_start \in Int /\ kva[vs_list[m][i]].kva_end \in Int
  BY <1>2, OnArea DEF IInv
<1>4. cr2 \in Int /\ End \in Int /\ cr2 \in 0 .. End - 1
  BY VirMemAssumption DEF IInv, TypeOK
<1>5. cr2 \in Page
  BY <1>1, <1>3, <1>4 DEF Page
<1>6. cr2 \in PagesOf(kva[vs_list[m][i]])
  BY <1>1, <1>3, <1>4 DEF PagesOf
<1> QED BY <1>2, <1>4, <1>5, <1>6

LEMMA StepFaultMapped ==
  ASSUME IInv, NEW m \in Mm, FaultMapped(m)
  PROVE  IInv'
<1>0. TypeOK /\ AInv /\ BoxesCounted /\ FInv /\ BInv /\ NInv
  BY DEF IInv
<1>1. PICK i \in VmaFindArea(m, cr2, cr2 + 1), b \in Box, f \in free :
        /\ RetnKvmemcbox(vs_list[m][i], b, {f})
        /\ free' = free \ {f}
        /\ mapped' = [mapped EXCEPT ![m][cr2] = f]
  BY DEF FaultMapped
<1>2. PICK d \in On(m) : d = vs_list[m][i] /\ cr2 \in Page /\ cr2 \in Int /\ cr2 \in PagesOf(kva[d])
  BY FoundForFault
<1>3. EndFault(m) /\ UNCHANGED stus /\ UNCHANGED <<vs_list, vs_currkmvdsc>> /\ f \in Frame /\ f # NULL
  BY <1>0, VirMemAssumption DEF FaultMapped, EndFault, TypeOK
<1>4. Placed /\ Filled(d, b, {f})
  <2>1. {f} \in SUBSET Frame /\ RetnKvmemcbox(d, b, {f})
    BY <1>1, <1>2, <1>3
  <2> QED BY <1>0, <1>3, <2>1, BoxReturned
<1>5. PICK p \in Page : p = cr2
  BY <1>2
<1>6. /\ mapped'[m][p] = f
      /\ \A o \in Mm, v \in Page : ~(o = m /\ v = p) => mapped'[o][v] = mapped[o][v]
  BY <1>0, <1>1, <1>5 DEF TypeOK
<1>7. Boxed'
  <2>1. ASSUME NEW c \in Box, NEW e \in Box, c # e PROVE kmb_msalist'[c] \cap kmb_msalist'[e] = {}
    <3>1. /\ kmb_msalist'[c] \subseteq IF c = b THEN kmb_msalist[c] \cup {f} ELSE kmb_msalist[c]
          /\ kmb_msalist'[e] \subseteq IF e = b THEN kmb_msalist[e] \cup {f} ELSE kmb_msalist[e]
      BY <1>4 DEF Filled
    <3>2. f \notin kmb_msalist[c] /\ f \notin kmb_msalist[e] /\ kmb_msalist[c] \cap kmb_msalist[e] = {}
      BY <1>0, <2>1 DEF FInv, Boxed
    <3> QED BY <2>1, <3>1, <3>2
  <2>2. ASSUME NEW c \in Box PROVE free' \cap kmb_msalist'[c] = {}
    <3>1. kmb_msalist'[c] \subseteq kmb_msalist[c] \cup {f}
      BY <1>4 DEF Filled
    <3>2. free \cap kmb_msalist[c] = {}
      BY <1>0 DEF FInv, Boxed
    <3> QED BY <1>1, <3>1, <3>2
  <2> QED BY <2>1, <2>2 DEF Boxed
<1>8. \A o \in Mm, v \in Page : mapped[o][v] # f
  <2>1. ASSUME NEW o \in Mm, NEW v \in Page, mapped[o][v] = f PROVE FALSE
    <3>1. \E c \in Box : f \in kmb_msalist[c]
      BY <1>0, <1>3, <2>1 DEF FInv, Kept
    <3> QED BY <1>0, <3>1 DEF FInv, Boxed
  <2> QED BY <2>1
<1>9. Unshared'
  BY <1>0, <1>6, <1>8 DEF FInv, Unshared
<1>10. ASSUME NEW o \in Mm, NEW v \in Page, mapped'[o][v] # NULL
       PROVE  \E c \in Box : BoxAt(o, v, c)' /\ mapped'[o][v] \in kmb_msalist'[c]
  <2>1. CASE o = m /\ v = p
    <3>1. kva'[d].kva_start = kva[d].kva_start /\ kva'[d].kva_end = kva[d].kva_end /\ d \in On(m)'
      BY <1>0, <1>4, OnArea DEF Placed
    <3>2. BoxAt(m, p, b)'
      BY <1>2, <1>4, <1>5, <3>1 DEF BoxAt, Filled, PagesOf
    <3>3. f \in kmb_msalist'[b]
      BY <1>4 DEF Filled
    <3> QED BY <1>6, <2>1, <3>2, <3>3
  <2>2. CASE ~(o = m /\ v = p)
    <3>1. mapped'[o][v] = mapped[o][v]
      BY <1>6, <2>2
    <3>2. PICK c \in Box : BoxAt(o, v, c) /\ mapped[o][v] \in kmb_msalist[c]
      BY <1>0, <1>10, <3>1 DEF FInv, Kept
    <3>3. v \in Int
      BY DEF Page
    <3> QED BY <1>4, <3>1, <3>2, <3>3 DEF Filled
  <2> QED BY <2>1, <2>2
<1>11. FInv'
  BY <1>7, <1>9, <1>10 DEF FInv, Kept
<1>12. free' \subseteq Frame /\ mapped' \in [Mm -> [Page -> Frame \cup {NULL}]]
  BY <1>0, <1>1, <1>2, <1>3 DEF TypeOK
<1>13. stus' \in [Mm -> Stus] /\ \A o \in Mm : stus'[o] = stus[o]
  BY <1>0, <1>3 DEF TypeOK
<1> QED BY <1>1, <1>2, <1>3, <1>11, <1>12, <1>13, StepFilled

LEMMA StepFaultNoMem ==
  ASSUME IInv, NEW m \in Mm, FaultNoMem(m)
  PROVE  IInv'
<1>0. TypeOK /\ AInv /\ BoxesCounted /\ FInv /\ BInv /\ NInv
  BY DEF IInv
<1>1. PICK i \in VmaFindArea(m, cr2, cr2 + 1), b \in Box : RetnKvmemcbox(vs_list[m][i], b, {})
  BY DEF FaultNoMem
<1>2. PICK d \in On(m) : d = vs_list[m][i]
  BY FoundForFault
<1>3. /\ EndFault(m) /\ UNCHANGED <<mapped, vs_list, vs_currkmvdsc>> /\ free' = free
      /\ stus' = [stus EXCEPT ![m] = "ENOMEM"]
  BY DEF FaultNoMem, EndFault, FramesAfterFailure
<1>4. RetnKvmemcbox(d, b, {}) /\ {} \in SUBSET Frame /\ {} \in SUBSET free
  BY <1>1, <1>2
<1>5. Placed /\ Filled(d, b, {})
  BY <1>0, <1>3, <1>4, BoxReturned
<1>6. \A c \in Box : kmb_msalist'[c] \subseteq kmb_msalist[c]
  BY <1>5 DEF Filled
<1>7. Boxed'
  <2>1. ASSUME NEW c \in Box, NEW e \in Box, c # e PROVE kmb_msalist'[c] \cap kmb_msalist'[e] = {}
    BY <1>0, <1>6, <2>1 DEF FInv, Boxed
  <2>2. ASSUME NEW c \in Box PROVE free' \cap kmb_msalist'[c] = {}
    BY <1>0, <1>3, <1>6 DEF FInv, Boxed
  <2> QED BY <2>1, <2>2 DEF Boxed
<1>8. Unshared'
  BY <1>0, <1>3 DEF FInv, Unshared
<1>9. ASSUME NEW o \in Mm, NEW v \in Page, mapped'[o][v] # NULL
      PROVE  \E c \in Box : BoxAt(o, v, c)' /\ mapped'[o][v] \in kmb_msalist'[c]
  <2>1. PICK c \in Box : BoxAt(o, v, c) /\ mapped[o][v] \in kmb_msalist[c]
    BY <1>0, <1>3, <1>9 DEF FInv, Kept
  <2>2. v \in Int
    BY DEF Page
  <2> QED BY <1>3, <1>5, <2>1, <2>2 DEF Filled
<1>10. FInv'
  BY <1>7, <1>8, <1>9 DEF FInv, Kept
<1>11. free' \subseteq Frame /\ mapped' \in [Mm -> [Page -> Frame \cup {NULL}]]
  BY <1>0, <1>3 DEF TypeOK
<1>12. stus' \in [Mm -> Stus] /\ \A o \in Mm : stus'[o] # stus[o] => stus'[o] \notin {"none", "new"}
  BY <1>0, <1>3 DEF TypeOK, Stus
<1> QED BY <1>3, <1>4, <1>10, <1>11, <1>12, StepFilled

-----------------------------------------------------------------------------
(* Every step keeps the invariant, in every mode. *)

LEMMA StepTouch ==
  ASSUME IInv, NEW m \in Mm, NEW v \in Int, v \in Page, Touch(m, v)
  PROVE  IInv'
<1>1. v \in 0 .. End - 1
  BY VirMemAssumption DEF Page
<1>2. cr2' = v /\ fault' = [fault EXCEPT ![m] = v] /\ UNCHANGED <<stus, areas, boxes, free, mapped, blocks>>
  BY DEF Touch
<1> QED BY <1>1, <1>2, StepOther DEF IInv, TypeOK

LEMMA StepTouchEarly ==
  ASSUME IInv, NEW m \in Mm, TouchEarly(m)
  PROVE  IInv'
<1>1. AppStart \in 0 .. End - 1
  BY VirMemAssumption
<1>2. /\ cr2' = AppStart /\ fault' = [fault EXCEPT ![m] = AppStart]
      /\ UNCHANGED <<stus, areas, boxes, free, mapped, blocks>>
  BY DEF TouchEarly
<1> QED BY <1>1, <1>2, StepOther DEF IInv, TypeOK

LEMMA StepFaultStops ==
  ASSUME IInv, NEW m \in Mm, NEW s \in {"EFAULT", "ENOOBJ"}, stus' = [stus EXCEPT ![m] = s],
         EndFault(m), UNCHANGED <<kva, boxes, free, mapped>>
  PROVE  IInv'
<1>1. /\ fault' = [fault EXCEPT ![m] = 0] /\ cr2' \in {0, cr2}
      /\ UNCHANGED <<areas, boxes, free, mapped, blocks>>
  BY DEF EndFault, areas
<1>2. 0 \in 0 .. End - 1
  BY VirMemAssumption
<1>3. /\ stus' \in [Mm -> Stus] /\ cr2' \in 0 .. End - 1 /\ fault' \in [Mm -> 0 .. End - 1]
      /\ \A o \in Mm : stus'[o] # stus[o] => stus'[o] \notin {"none", "new"}
  BY <1>1, <1>2 DEF IInv, TypeOK, Stus
<1> QED BY <1>1, <1>3, StepOther

LEMMA InitIInv == Init => IInv
<1> SUFFICES ASSUME Init PROVE IInv
  OBVIOUS
<1>1. TypeOK
  <2>1. 0 \in 0 .. End - 1
    BY VirMemAssumption
  <2> QED BY <2>1 DEF Init, TypeOK, Stus
<1>2. \A m \in Mm : On(m) = {}
  BY DEF Init, On, Elems
<1>3. AInv
  BY <1>2 DEF Init, AInv, Ordered, Elems
<1>4. \A b : Users(b) = {}
  BY DEF Init, Users, Unused
<1>5. BoxesCounted
  <2>1. Cardinality({}) = 0 /\ ~(0 > 0)
    BY FS_EmptySet
  <2>2. ASSUME NEW b \in Box
        PROVE  kmb_cont[b] = Cardinality(Users(b)) /\ (b \in kbm_kmbhead <=> kmb_cont[b] > 0)
    <3>1. kmb_cont[b] = 0 /\ kbm_kmbhead = {}
      BY DEF Init
    <3> QED BY <1>4, <2>1, <3>1
  <2> QED BY <2>2 DEF Init, BoxesCounted
<1>6. FInv
  BY VirMemAssumption DEF Init, FInv, Boxed, Unshared, Kept
<1>7. BInv
  BY <1>2 DEF Init, BInv, BlocksOK, InArea
<1>8. NInv
  BY <1>2 DEF Init, NInv, InArea
<1> QED BY <1>1, <1>3, <1>5, <1>6, <1>7, <1>8 DEF IInv

LEMMA NextIInv == IInv /\ [Next]_vars => IInv'
<1> SUFFICES ASSUME IInv, [Next]_vars PROVE IInv'
  OBVIOUS
<1>1. ASSUME NEW m \in Mm, NEW b \in blocks[m], NEW v \in b[1] .. b[2] - 1
      PROVE  v \in Int /\ v \in Page
  <2>1. b[1] \in Page /\ b[2] \in 2 .. End /\ b[1] \in Int /\ b[2] \in Int /\ End \in Int
    BY BlockType, VirMemAssumption DEF IInv
  <2> QED BY <2>1 DEF Page
<1>2. CASE UNCHANGED vars
  <2>1. UNCHANGED <<stus, areas, boxes, free, mapped, cr2, fault, blocks>>
    BY <1>2 DEF vars
  <2> QED BY <2>1, StepOther DEF IInv, TypeOK
<1>3. ASSUME NEW m \in Mm, NewMmadrsdsc(m) PROVE IInv'
  BY <1>3, StepNewMmadrsdsc
<1>4. ASSUME NEW m \in Mm, TouchEarly(m) PROVE IInv'
  BY <1>4, StepTouchEarly
<1>5. ASSUME NEW m \in Mm, NEW n \in 1 .. MaxSize, Execvl(m, n) PROVE IInv'
  BY <1>5, StepExecvl
<1>6. ASSUME NEW m \in Mm, NEW n \in 1 .. MaxSize, Mallocblk(m, n) PROVE IInv'
  BY <1>6, StepMallocblk
<1>7. ASSUME NEW m \in Mm, NEW b \in blocks[m], NEW v \in b[1] .. b[2] - 1, Touch(m, v) PROVE IInv'
  BY <1>1, <1>7, StepTouch
<1>8. ASSUME NEW m \in Mm, NEW b \in blocks[m], NEW v \in b[1] .. b[2] - 1, NEW e \in v + 1 .. b[2],
             Mfreeblk(m, b, v, e)
      PROVE IInv'
  BY <1>8, StepMfreeblk
<1>9. ASSUME NEW m \in Mm, FaultNoArea(m) PROVE IInv'
  BY <1>9, StepFaultStops DEF FaultNoArea
<1>10. ASSUME NEW m \in Mm, FaultNoBox(m) PROVE IInv'
  BY <1>10, StepFaultStops DEF FaultNoBox
<1>11. ASSUME NEW m \in Mm, FaultMapped(m) PROVE IInv'
  BY <1>11, StepFaultMapped
<1>12. ASSUME NEW m \in Mm, FaultNoMem(m) PROVE IInv'
  BY <1>12, StepFaultNoMem
<1> QED BY <1>2, <1>3, <1>4, <1>5, <1>6, <1>7, <1>8, <1>9, <1>10, <1>11, <1>12 DEF Next

THEOREM Inductive == Spec => []IInv
<1>1. Init => IInv
  BY InitIInv
<1>2. IInv /\ [Next]_vars => IInv'
  BY NextIInv
<1> QED BY <1>1, <1>2, PTL DEF Spec

-----------------------------------------------------------------------------
(* What the invariant says. *)

(* Every variable has its type, and no count of a box falls below zero,    *)
(* whatever the programs ask for and in whatever order faults are handled. *)
THEOREM TypeCorrect == Spec => []TypeOK
<1>1. IInv => TypeOK
  BY DEF IInv
<1> QED BY <1>1, Inductive, PTL

(* Areas stay apart and in order, and none is used after it has gone: also *)
(* with a handler that has read the address of another thread's fault.     *)
THEOREM AreasAlwaysOrdered == Spec => []AreasOrdered
<1>1. ASSUME IInv PROVE AreasOrdered
  <2>0. TypeOK /\ AInv
    BY <1>1 DEF IInv
  <2>1. ASSUME NEW m \in Mm, NEW i \in DOMAIN vs_list[m], NEW j \in DOMAIN vs_list[m]
        PROVE  /\ vs_list[m][i] \notin Unused
               /\ kva[vs_list[m][i]].kva_start < kva[vs_list[m][i]].kva_end
               /\ i < j => kva[vs_list[m][i]].kva_end <= kva[vs_list[m][j]].kva_start
    <3>1. Ordered(vs_list[m], kva)
      BY <2>0 DEF AInv
    <3> QED BY <3>1 DEF Ordered, Unused
  <2>2. ASSUME NEW d \in Kmvd \ Unused PROVE \E m \in Mm : \E i \in DOMAIN vs_list[m] : vs_list[m][i] = d
    BY <2>0 DEF AInv, On, Elems, Unused
  <2>3. ASSUME NEW m \in Mm, NEW o \in Mm, NEW i \in DOMAIN vs_list[m], NEW j \in DOMAIN vs_list[o],
               vs_list[m][i] = vs_list[o][j]
        PROVE  m = o /\ i = j
    <3>1. vs_list[m][i] \in On(m) /\ vs_list[o][j] \in On(o)
      BY DEF On, Elems
    <3>2. m = o
      BY <2>0, <2>3, <3>1 DEF AInv
    <3>3. vs_list[m] \in Seq(Kmvd) /\ kva \in KvaType /\ Ordered(vs_list[m], kva)
      BY <2>0 DEF AInv, TypeOK, KvaType
    <3> QED BY <2>3, <3>2, <3>3, OrderedOnce
  <2>4. ASSUME NEW m \in Mm, vs_currkmvdsc[m] # NULL
        PROVE  \E i \in DOMAIN vs_list[m] : vs_list[m][i] = vs_currkmvdsc[m]
    BY <2>0, <2>4 DEF AInv, On, Elems
  <2> QED BY <2>1, <2>2, <2>3, <2>4 DEF AreasOrdered
<1> QED BY <1>1, Inductive, PTL

(* The count of a box is the number of its areas: cutting an area in two   *)
(* and giving up either half, in any order, frees the box once.            *)
THEOREM BoxesAlwaysCounted == Spec => []BoxesCounted
<1>1. IInv => BoxesCounted
  BY DEF IInv
<1> QED BY <1>1, Inductive, PTL

(* No frame is behind two pages of one program or of two, and the frame    *)
(* behind a page is in the box of its area.                                *)
THEOREM FramesAlwaysApart == Spec => []FramesApart
<1>1. ASSUME IInv PROVE FramesApart
  <2>0. TypeOK /\ AInv /\ Boxed /\ Unshared /\ Kept
    BY <1>1 DEF IInv, FInv
  <2>1. ASSUME NEW m \in Mm, NEW v \in Page, mapped[m][v] # NULL
        PROVE  \E d \in Kmvd \ Unused :
                 /\ HasPage(m, d, v)
                 /\ kva[d].kva_kvmbox # NULL
                 /\ mapped[m][v] \in kmb_msalist[kva[d].kva_kvmbox]
    <3>1. PICK b \in Box : BoxAt(m, v, b) /\ mapped[m][v] \in kmb_msalist[b]
      BY <2>0, <2>1 DEF Kept
    <3>2. PICK d \in On(m) : v \in PagesOf(kva[d]) /\ kva[d].kva_kvmbox = b
      BY <3>1 DEF BoxAt
    <3>3. d \in Kmvd \ Unused
      BY <2>0, OnArea DEF Unused
    <3>4. HasPage(m, d, v)
      BY <3>2 DEF HasPage, PagesOf, On, Elems
    <3> QED BY <3>1, <3>2, <3>3, <3>4, VirMemAssumption
  <2> QED BY <2>0, <2>1 DEF FramesApart, Boxed, Unshared
<1> QED BY <1>1, Inductive, PTL

(* Each block that a program was granted and has not given up is within    *)
(* one area, apart from the others, and areas hold nothing else.           *)
THEOREM BlocksAlwaysCovered == Spec => []BlocksCovered
<1>1. ASSUME IInv PROVE BlocksCovered
  <2>0. TypeOK /\ AInv /\ BInv
    BY <1>1 DEF IInv
  <2>1. ASSUME NEW m \in Mm, NEW b \in blocks[m]
        PROVE  b[1] < b[2] /\ \E i \in DOMAIN vs_list[m] : /\ kva[vs_list[m][i]].kva_start <= b[1]
                                                           /\ b[2] <= kva[vs_list[m][i]].kva_end
    BY <2>0 DEF BInv, BlocksOK, Within, On, Elems
  <2>2. ASSUME NEW m \in Mm, NEW b \in blocks[m], NEW c \in blocks[m]
        PROVE  b = c \/ b[2] <= c[1] \/ c[2] <= b[1]
    BY <2>0 DEF BInv, BlocksOK
  <2>3. ASSUME NEW m \in Mm, NEW i \in DOMAIN vs_list[m],
               NEW v \in kva[vs_list[m][i]].kva_start .. kva[vs_list[m][i]].kva_end - 1
        PROVE  \E b \in blocks[m] : v \in b[1] .. b[2] - 1
    <3>1. vs_list[m][i] \in On(m)
      BY DEF On, Elems
    <3>2. kva[vs_list[m][i]].kva_start \in Int /\ kva[vs_list[m][i]].kva_end \in Int
      BY <2>0, <3>1, OnArea
    <3>3. v \in Int /\ InArea(m, v)
      BY <3>1, <3>2 DEF InArea, PagesOf
    <3> QED BY <2>0, <3>3 DEF BInv, BlocksOK, Granted
  <2> QED BY <2>1, <2>2, <2>3 DEF BlocksCovered
<1> QED BY <1>1, Inductive, PTL

-----------------------------------------------------------------------------
(* Until a handler reads the wrong address. *)

(* History variables: has a handler read an address in CR2 that its thread *)
(* has not faulted at, and has a thread run before its program was there?  *)
VARIABLES missed, early

MissesFault == \E m \in Mm : /\ cr2 # fault[m]
                             /\ FaultNoArea(m) \/ FaultNoBox(m) \/ FaultMapped(m) \/ FaultNoMem(m)
StartsEarly == \E m \in Mm : TouchEarly(m)

varsH == <<vars, missed, early>>
InitH == Init /\ missed = FALSE /\ early = FALSE
NextH == Next /\ missed' = (missed \/ MissesFault) /\ early' = (early \/ StartsEarly)
SpecH == InitH /\ [][NextH]_varsH

(* A page that a thread has faulted at and that no handler has served has  *)
(* no frame, whatever other threads do meanwhile.                          *)
GInv == \A m \in Mm : fault[m] # 0 => mapped[m][fault[m]] = NULL
KInv == IInv /\ GInv /\ FramesKept

LEMMA HandlerEnds ==
  ASSUME TypeOK, GInv, NEW m \in Mm, EndFault(m), \A o \in Mm \ {m} : mapped'[o] = mapped[o]
  PROVE  GInv'
<1>1. fault'[m] = 0 /\ \A o \in Mm \ {m} : fault'[o] = fault[o]
  BY DEF EndFault, TypeOK
<1> QED BY <1>1 DEF GInv

(* Nothing about faults changes, and pages only go. *)
LEMMA NoHandler ==
  ASSUME TypeOK, GInv, UNCHANGED fault,
         \A o \in Mm, v \in Page : mapped'[o][v] \in {NULL, mapped[o][v]}
  PROVE  GInv'
<1>1. ASSUME NEW m \in Mm, fault[m] # 0 PROVE fault[m] \in Page
  BY <1>1, VirMemAssumption DEF TypeOK, Page
<1> QED BY <1>1 DEF GInv

LEMMA FramesStay ==
  ASSUME FramesKept, UNCHANGED <<free, mapped>>
  PROVE  FramesKept'
BY DEF FramesKept

LEMMA FaultTaken ==
  ASSUME TypeOK, GInv, NEW m \in Mm, NEW v \in Page, mapped[m][v] = NULL,
         fault' = [fault EXCEPT ![m] = v], UNCHANGED mapped
  PROVE  GInv'
<1>1. fault'[m] = v /\ \A o \in Mm \ {m} : fault'[o] = fault[o]
  BY DEF TypeOK
<1> QED BY <1>1 DEF GInv

LEMMA FreedKeeps ==
  ASSUME TypeOK, AInv, Kept, FramesKept, NEW m \in Mm, NEW s \in Page, NEW e \in 2 .. End,
         NEW i \in VmaFindArea(m, s, e), Freed(m, i, s, e)
  PROVE  FramesKept'
<1>1. PICK d \in On(m) : d = vs_list[m][i] /\ kva[d].kva_start <= s /\ e <= kva[d].kva_end
  BY FreedArea
<1>2. PICK b : b = kva[d].kva_kvmbox
  OBVIOUS
<1>3. /\ mapped' = [mapped EXCEPT ![m] = MappedWithout(m, s, e)]
      /\ free' = free \cup FramesOf(m, b, s, e)
  BY <1>1, <1>2 DEF Freed, Unmapping
<1>4. \A o \in Mm, v \in Page : mapped'[o][v] = IF o = m /\ v \in s .. e - 1 THEN NULL ELSE mapped[o][v]
  BY <1>3 DEF MappedWithout, TypeOK
<1>5. s \in Int /\ e \in Int /\ kva[d].kva_start \in Int /\ kva[d].kva_end \in Int /\ Page \subseteq Int
  BY OnArea, VirMemAssumption DEF Page
<1>6. ASSUME NEW f \in Frame \ free' PROVE \E o \in Mm, v \in Page : mapped'[o][v] = f
  <2>1. PICK o \in Mm, v \in Page : mapped[o][v] = f
    BY <1>3, <1>6 DEF FramesKept
  <2>2. CASE o = m /\ v \in s .. e - 1
    <3>1. f # NULL
      BY VirMemAssumption
    <3>2. PICK c \in Box : BoxAt(m, v, c) /\ f \in kmb_msalist[c]
      BY <2>1, <2>2, <3>1 DEF Kept
    <3>3. PICK x \in On(m) : v \in PagesOf(kva[x]) /\ kva[x].kva_kvmbox = c
      BY <3>2 DEF BoxAt
    <3>4. v \in PagesOf(kva[d])
      BY <1>1, <1>5, <2>2 DEF PagesOf
    <3>5. x = d
      BY <3>3, <3>4, OneArea
    <3>6. b = c /\ b # NULL
      BY <1>2, <3>3, <3>5, VirMemAssumption
    <3>7. f \in FramesOf(m, b, s, e)
      BY <2>1, <2>2, <3>2, <3>6 DEF FramesOf
    <3> QED BY <1>3, <1>6, <3>7
  <2>3. CASE ~(o = m /\ v \in s .. e - 1)
    BY <1>4, <2>1, <2>3
  <2> QED BY <2>2, <2>3
<1> QED BY <1>6 DEF FramesKept

(* The block given up, found and freed, as in StepMfreeblk *)
LEMMA BlockFreed ==
  ASSUME TypeOK, NEW m \in Mm, NEW b \in blocks[m], NEW s \in b[1] .. b[2] - 1, NEW e \in s + 1 .. b[2],
         Mfreeblk(m, b, s, e)
  PROVE  /\ s \in Int /\ e \in Int /\ b[1] <= s /\ s < e /\ e <= b[2] /\ s \in Page /\ e \in 2 .. End
         /\ \E i \in VmaFindArea(m, s, e) : Freed(m, i, s, e)
         /\ blocks' = [blocks EXCEPT ![m] = (@ \ {b}) \cup Rest(b, s, e)]
         /\ UNCHANGED <<stus, cr2, fault>> /\ CpuFree
<1>1. b[1] \in Page /\ b[2] \in 2 .. End /\ b[1] \in Int /\ b[2] \in Int /\ End \in Int
  BY BlockType, VirMemAssumption
<1>2. s \in Int /\ e \in Int /\ b[1] <= s /\ s < e /\ e <= b[2] /\ s \in Page /\ e \in 2 .. End
  BY <1>1 DEF Page
<1> QED BY <1>2 DEF Mfreeblk, VmaDelVadrs, Freed, Runs

LEMMA FaultFilled ==
  ASSUME KInv, NEW m \in Mm, FaultMapped(m), ~MissesFault
  PROVE  /\ cr2 \in Page /\ InArea(m, cr2) /\ mapped[m][cr2] = NULL
         /\ \E f \in free : free' = free \ {f} /\ mapped' = [mapped EXCEPT ![m][cr2] = f]
<1>1. PICK i \in VmaFindArea(m, cr2, cr2 + 1), f \in free :
        free' = free \ {f} /\ mapped' = [mapped EXCEPT ![m][cr2] = f]
  BY DEF FaultMapped
<1>2. cr2 \in Page /\ InArea(m, cr2)
  BY FoundForFault DEF KInv, InArea
<1>3. mapped[m][cr2] = NULL
  BY DEF FaultMapped, KInv, GInv, MissesFault
<1> QED BY <1>1, <1>2, <1>3

LEMMA FilledKeeps ==
  ASSUME TypeOK, FramesKept, NEW m \in Mm, NEW p \in Page, mapped[m][p] = NULL, NEW f \in free,
         free' = free \ {f}, mapped' = [mapped EXCEPT ![m][p] = f]
  PROVE  FramesKept'
<1>1. /\ mapped'[m][p] = f
      /\ \A o \in Mm, v \in Page : ~(o = m /\ v = p) => mapped'[o][v] = mapped[o][v]
  BY DEF TypeOK
<1>2. ASSUME NEW g \in Frame \ free' PROVE \E o \in Mm, v \in Page : mapped'[o][v] = g
  <2>1. CASE g = f
    BY <1>1, <2>1
  <2>2. CASE g # f
    <3>1. PICK o \in Mm, v \in Page : mapped[o][v] = g
      BY <1>2, <2>2 DEF FramesKept
    <3>2. ~(o = m /\ v = p)
      BY <3>1, VirMemAssumption
    <3> QED BY <1>1, <3>1, <3>2
  <2> QED BY <2>1, <2>2
<1> QED BY <1>2 DEF FramesKept

LEMMA NextKInv ==
  ASSUME KInv, [Next]_vars, ~MissesFault \/ UNCHANGED vars
  PROVE  KInv'
<1>0. IInv /\ GInv /\ FramesKept /\ TypeOK /\ AInv /\ FInv /\ BInv /\ NInv
  BY DEF KInv, IInv
<1>1. IInv'
  BY <1>0, NextIInv
<1>2. CASE UNCHANGED vars
  BY <1>0, <1>1, <1>2, FramesStay DEF KInv, vars, GInv
<1>3. ASSUME NEW m \in Mm, NewMmadrsdsc(m) PROVE GInv' /\ FramesKept'
  BY <1>0, <1>3, NoHandler, FramesStay DEF NewMmadrsdsc
<1>4. ASSUME NEW m \in Mm, TouchEarly(m) PROVE GInv' /\ FramesKept'
  <2>1. /\ stus[m] = "new" /\ fault' = [fault EXCEPT ![m] = AppStart]
        /\ UNCHANGED <<free, mapped>>
    BY <1>4 DEF TouchEarly
  <2>2. AppStart \in Page
    BY VirMemAssumption DEF Page
  <2>3. mapped[m][AppStart] = NULL
    <3>1. ~InArea(m, AppStart)
      BY <1>0, <2>1 DEF NInv
    <3> QED BY <1>0, <2>2, <3>1 DEF FInv, Kept, BoxAt, InArea
  <2> QED BY <1>0, <2>1, <2>2, <2>3, FaultTaken, FramesStay
<1>5. ASSUME NEW m \in Mm, NEW n \in 1 .. MaxSize, Execvl(m, n) PROVE GInv' /\ FramesKept'
  BY <1>0, <1>5, NoHandler, FramesStay DEF Execvl, VmaNewVadrs
<1>6. ASSUME NEW m \in Mm, NEW n \in 1 .. MaxSize, Mallocblk(m, n) PROVE GInv' /\ FramesKept'
  BY <1>0, <1>6, NoHandler, FramesStay DEF Mallocblk, VmaNewVadrs
<1>7. ASSUME NEW m \in Mm, NEW b \in blocks[m], NEW v \in b[1] .. b[2] - 1, Touch(m, v)
      PROVE GInv' /\ FramesKept'
  <2>1. v \in Page
    <3>1. b[1] \in Page /\ b[2] \in 2 .. End /\ b[1] \in Int /\ b[2] \in Int /\ End \in Int
      BY <1>0, BlockType, VirMemAssumption
    <3> QED BY <3>1 DEF Page
  <2>2. /\ mapped[m][v] = NULL /\ fault' = [fault EXCEPT ![m] = v]
        /\ UNCHANGED <<free, mapped>>
    BY <1>7 DEF Touch
  <2> QED BY <1>0, <2>1, <2>2, FaultTaken, FramesStay
<1>8. ASSUME NEW m \in Mm, NEW b \in blocks[m], NEW s \in b[1] .. b[2] - 1, NEW e \in s + 1 .. b[2],
             Mfreeblk(m, b, s, e)
      PROVE GInv' /\ FramesKept'
  <2>1. /\ s \in Page /\ e \in 2 .. End /\ (\E i \in VmaFindArea(m, s, e) : Freed(m, i, s, e))
        /\ UNCHANGED fault
    BY <1>0, <1>8, BlockFreed
  <2>2. GInv'
    <3>1. mapped' = [mapped EXCEPT ![m] = MappedWithout(m, s, e)]
      BY <2>1 DEF Freed, Unmapping
    <3>2. \A o \in Mm, v \in Page : mapped'[o][v] \in {NULL, mapped[o][v]}
      BY <1>0, <3>1 DEF TypeOK, MappedWithout
    <3> QED BY <1>0, <2>1, <3>2, NoHandler
  <2>3. FramesKept'
    BY <1>0, <2>1, FreedKeeps DEF FInv
  <2> QED BY <2>2, <2>3
<1>9. ASSUME NEW m \in Mm, FaultNoArea(m) \/ FaultNoBox(m) \/ FaultNoMem(m) PROVE GInv' /\ FramesKept'
  <2>1. fault[m] # 0 /\ EndFault(m) /\ mapped' = mapped /\ free' = free
    BY <1>9 DEF FaultNoArea, FaultNoBox, FaultNoMem, FramesAfterFailure
  <2> QED BY <1>0, <2>1, HandlerEnds, FramesStay
<1>10. ASSUME NEW m \in Mm, FaultMapped(m), ~MissesFault PROVE GInv' /\ FramesKept'
  <2>1. PICK p \in Page, f \in free : /\ p = cr2 /\ mapped[m][p] = NULL /\ free' = free \ {f}
                                      /\ mapped' = [mapped EXCEPT ![m][p] = f]
    BY <1>10, FaultFilled
  <2>2. fault[m] # 0 /\ EndFault(m)
    BY <1>10 DEF FaultMapped
  <2>3. GInv'
    <3>1. \A o \in Mm \ {m} : mapped'[o] = mapped[o]
      BY <1>0, <2>1 DEF TypeOK
    <3> QED BY <1>0, <2>2, <3>1, HandlerEnds
  <2>4. FramesKept'
    BY <1>0, <2>1, FilledKeeps
  <2> QED BY <2>3, <2>4
<1>11. ASSUME Next, ~MissesFault PROVE KInv'
  <2>1. ASSUME NEW m \in Mm, FaultMapped(m) PROVE GInv' /\ FramesKept'
    BY <1>10, <1>11, <2>1
  <2>2. GInv' /\ FramesKept'
    BY <1>3, <1>4, <1>5, <1>6, <1>7, <1>8, <1>9, <1>11, <2>1 DEF Next
  <2> QED BY <1>1, <2>2 DEF KInv
<1> QED BY <1>2, <1>11

LEMMA InitKInv == Init => KInv
<1>1. Init => GInv /\ FramesKept
  BY DEF Init, GInv, FramesKept
<1> QED BY <1>1, InitIInv DEF KInv

LEMMA KeptUntilMissed ==
  SpecH => /\ Spec
           /\ [](missed \/ KInv)
<1>1. InitH => Init /\ KInv
  BY InitKInv DEF InitH
<1>2. [NextH]_varsH => [Next]_vars
  BY DEF NextH, varsH
<1>3. (missed \/ KInv) /\ [NextH]_varsH => (missed \/ KInv)'
  <2> SUFFICES ASSUME missed \/ KInv, [NextH]_varsH, ~missed' PROVE KInv'
    OBVIOUS
  <2>1. ~missed
    BY DEF NextH, varsH
  <2>2. CASE NextH
    <3>1. Next /\ ~MissesFault
      BY <2>2 DEF NextH
    <3> QED BY <2>1, <3>1, NextKInv
  <2>3. CASE UNCHANGED varsH
    <3>1. UNCHANGED vars
      BY <2>3 DEF varsH
    <3> QED BY <2>1, <3>1, NextKInv
  <2> QED BY <2>2, <2>3
<1> QED BY <1>1, <1>2, <1>3, PTL DEF SpecH, Spec

(* Handlers may be preempted before they read CR2, and threads may run     *)
(* early: until a handler has read an address that its thread has not      *)
(* faulted at (halintupt.c:187), no frame is lost; each frame that the     *)
(* allocator does not have is behind a page.                               *)
THEOREM FramesAlwaysKept ==
  SpecH => [](missed \/ FramesKept)
<1>1. KInv => FramesKept
  BY DEF KInv
<1> QED BY <1>1, KeptUntilMissed, PTL

-----------------------------------------------------------------------------
(* A program that touches what it was granted is answered. *)

(* The address that a thread has faulted at is in one of its areas. *)
AInArea == \A m \in Mm : /\ fault[m] # 0 => stus[m] = "run" /\ InArea(m, fault[m])
                         /\ stus[m] # "EFAULT"

LEMMA AreaFound ==
  ASSUME TypeOK, AInv, NEW m \in Mm, NEW v \in Int, InArea(m, v)
  PROVE  VmaFindArea(m, v, v + 1) # {}
<1> DEFINE q    == vs_list[m]
           has  == {i \in DOMAIN q : kva[q[i]].kva_start <= v /\ v + 1 <= kva[q[i]].kva_end}
           curr == {i \in has : q[i] = vs_currkmvdsc[m]}
<1>1. q \in Seq(Kmvd) /\ kva \in KvaType /\ Ordered(q, kva) /\ DOMAIN q \subseteq Int
  BY LenProperties DEF TypeOK, AInv, KvaType
<1>2. \A i \in DOMAIN q : kva[q[i]].kva_start \in Int /\ kva[q[i]].kva_end \in Int /\ q[i] \in On(m)
  BY OnArea DEF On, Elems
<1>3. PICK i \in DOMAIN q : v \in PagesOf(kva[q[i]])
  BY DEF InArea, On, Elems
<1>4. i \in has
  BY <1>2, <1>3 DEF PagesOf
<1>5. \A j \in has : j = i
  <2>1. ASSUME NEW j \in has PROVE j = i
    <3>1. v \in PagesOf(kva[q[j]])
      BY <1>2 DEF PagesOf
    <3>2. q[i] = q[j]
      BY <1>2, <1>3, <3>1, OneArea
    <3> QED BY <1>1, <3>2, OrderedOnce
  <2> QED BY <2>1
<1>6. VmaFindArea(m, v, v + 1) = First(IF curr # {} THEN curr ELSE has)
  BY DEF VmaFindArea
<1> HIDE DEF has
<1>7. i \in First(IF curr # {} THEN curr ELSE has)
  <2>1. i <= i
    BY <1>1
  <2>2. CASE curr # {}
    <3>1. i \in curr /\ \A j \in curr : j = i
      BY <1>5, <2>2
    <3> QED BY <2>1, <2>2, <3>1 DEF First
  <2>3. CASE curr = {}
    BY <1>4, <1>5, <2>1, <2>3 DEF First
  <2> QED BY <2>2, <2>3
<1> QED BY <1>6, <1>7

(* A fault stays in an area of its thread while others run. *)
LEMMA OthersRun ==
  ASSUME TypeOK, AInArea, NEW m \in Mm, stus[m] # "run" \/ fault[m] = 0,
         UNCHANGED fault, stus'[m] # "EFAULT",
         \A o \in Mm \ {m} : stus'[o] = stus[o] /\ Same(o)
  PROVE  AInArea'
<1>1. ASSUME NEW o \in Mm PROVE stus'[o] # "EFAULT"
  BY DEF AInArea
<1>2. ASSUME NEW o \in Mm, fault[o] # 0 PROVE stus'[o] = "run" /\ InArea(o, fault[o])'
  <2>1. stus[o] = "run" /\ InArea(o, fault[o]) /\ o # m
    BY <1>2 DEF AInArea
  <2>2. PICK v : v = fault[o]
    OBVIOUS
  <2>3. InArea(o, v)' /\ fault'[o] = v
    BY <2>1, <2>2, SameAreas
  <2>4. InArea(o, fault[o])'
    BY <2>3 DEF InArea
  <2> QED BY <2>1, <2>4
<1> QED BY <1>1, <1>2 DEF AInArea

(* ... and while a handler of m serves m. *)
LEMMA HandlerRuns ==
  ASSUME TypeOK, AInArea, NEW m \in Mm, EndFault(m), stus'[m] # "EFAULT",
         \A o \in Mm \ {m} : stus'[o] = stus[o],
         \A o \in Mm : \A v \in Int : InArea(o, v)' <=> InArea(o, v)
  PROVE  AInArea'
<1>1. fault'[m] = 0 /\ \A o \in Mm \ {m} : fault'[o] = fault[o]
  BY DEF EndFault, TypeOK
<1>2. ASSUME NEW o \in Mm, fault'[o] # 0 PROVE stus'[o] = "run" /\ InArea(o, fault[o])'
  <2>1. o # m /\ fault'[o] = fault[o] /\ stus[o] = "run" /\ InArea(o, fault[o]) /\ fault[o] \in Int
    BY <1>1, <1>2, VirMemAssumption DEF AInArea, TypeOK
  <2>2. PICK v \in Int : v = fault[o]
    BY <2>1
  <2>3. InArea(o, v)' /\ fault'[o] = v
    BY <2>1, <2>2
  <2>4. InArea(o, fault[o])'
    BY <2>3 DEF InArea
  <2> QED BY <2>1, <2>4
<1> QED BY <1>1, <1>2 DEF AInArea

LEMMA NextAnswered ==
  ASSUME KInv, AInArea, [Next]_vars, ~(MissesFault \/ StartsEarly) \/ UNCHANGED vars
  PROVE  AInArea'
<1>0. IInv /\ GInv /\ TypeOK /\ AInv /\ BInv /\ FInv /\ BoxesCounted
  BY DEF KInv, IInv
<1>01. IInv' /\ TypeOK'
  BY <1>0, NextIInv DEF IInv
<1>1. CASE UNCHANGED vars
  BY <1>1 DEF vars, areas, AInArea, InArea, On
<1>3. ASSUME NEW m \in Mm, NewMmadrsdsc(m) PROVE AInArea'
  <2>1. \A o \in Mm \ {m} : Same(o)
    BY <1>0, <1>3, StepNewMmadrsdsc
  <2> QED BY <1>0, <1>3, <2>1, OthersRun DEF NewMmadrsdsc, TypeOK
<1>4. ASSUME NEW m \in Mm, NEW n \in 1 .. MaxSize, Execvl(m, n) PROVE AInArea'
  <2>1. VmaNewVadrs(m, AppStart, n, "bin") /\ AppStart \in Page \cup {0} /\ "bin" \in Type
    BY <1>4, VirMemAssumption DEF Execvl, Page, Type
  <2>2. \A o \in Mm \ {m} : Same(o)
    BY <1>0, <1>01, <2>1, RoomMade DEF Added
  <2>3. UNCHANGED fault
    BY <1>4 DEF Execvl, VmaNewVadrs
  <2> QED BY <1>0, <1>4, <2>2, <2>3, OthersRun DEF Execvl, TypeOK
<1>5. ASSUME NEW m \in Mm, NEW n \in 1 .. MaxSize, Mallocblk(m, n) PROVE AInArea'
  <2>1. VmaNewVadrs(m, 0, n, "heap") /\ 0 \in Page \cup {0} /\ "heap" \in Type
    BY <1>5 DEF Mallocblk, Type
  <2>2. \A o \in Mm \ {m} : Same(o)
    BY <1>0, <1>01, <2>1, RoomMade DEF Added
  <2>3. UNCHANGED fault
    BY <1>5 DEF Mallocblk, VmaNewVadrs
  <2> QED BY <1>0, <1>5, <2>2, <2>3, OthersRun DEF Mallocblk, Runs, AInArea
<1>6. ASSUME NEW m \in Mm, NEW b \in blocks[m], NEW v \in b[1] .. b[2] - 1, Touch(m, v) PROVE AInArea'
  <2>1. b[1] \in Int /\ b[2] \in Int /\ Within(m, b[1], b[2])
    BY <1>0, BlockType DEF BInv, BlocksOK
  <2>2. InArea(m, v)
    BY <1>0, <2>1, WithinPages
  <2>3. /\ stus[m] = "run" /\ fault' = [fault EXCEPT ![m] = v] /\ UNCHANGED <<stus, vs_list, kva>>
    BY <1>6 DEF Touch, Runs, areas
  <2>4. \A o \in Mm, w \in Int : InArea(o, w)' <=> InArea(o, w)
    BY <2>3 DEF InArea, On
  <2>5. fault'[m] = v /\ \A o \in Mm \ {m} : fault'[o] = fault[o]
    BY <1>0, <2>3 DEF TypeOK
  <2>6. ASSUME NEW o \in Mm, fault'[o] # 0 PROVE stus'[o] = "run" /\ InArea(o, fault[o])'
    <3>1. PICK w : w = fault'[o]
      OBVIOUS
    <3>2. stus[o] = "run" /\ InArea(o, w)
      BY <2>2, <2>3, <2>5, <2>6, <3>1 DEF AInArea
    <3>3. PICK d \in On(o)' : w \in PagesOf(kva'[d])
      BY <2>3, <3>2 DEF InArea, On
    <3> QED BY <2>3, <3>1, <3>2, <3>3 DEF InArea
  <2> QED BY <2>3, <2>6 DEF AInArea
<1>7. ASSUME NEW m \in Mm, NEW b \in blocks[m], NEW s \in b[1] .. b[2] - 1, NEW e \in s + 1 .. b[2],
             Mfreeblk(m, b, s, e)
      PROVE AInArea'
  <2>1. /\ s \in Int /\ e \in Int /\ s < e /\ s \in Page /\ e \in 2 .. End
        /\ \E i \in VmaFindArea(m, s, e) : Freed(m, i, s, e)
        /\ UNCHANGED <<stus, cr2, fault>>
    BY <1>0, <1>7, BlockFreed
  <2>2. Removed(m, s, e)
    BY <1>0, <1>01, <2>1, FreedGone
  <2> QED BY <1>0, <1>7, <2>1, <2>2, OthersRun DEF Mfreeblk, Runs, Removed, AInArea
<1>9. ASSUME NEW m \in Mm, FaultNoArea(m), ~MissesFault PROVE FALSE
  <2>1. fault[m] # 0 /\ VmaFindArea(m, cr2, cr2 + 1) = {} /\ cr2 = fault[m]
    BY <1>9 DEF FaultNoArea, MissesFault
  <2>2. cr2 \in Int /\ InArea(m, cr2)
    BY <1>0, <2>1, VirMemAssumption DEF AInArea, TypeOK
  <2> QED BY <1>0, <2>1, <2>2, AreaFound
<1>10. ASSUME NEW m \in Mm, FaultNoBox(m) PROVE AInArea'
  <2>1. EndFault(m) /\ UNCHANGED <<vs_list, kva>> /\ stus' = [stus EXCEPT ![m] = "ENOOBJ"]
    BY <1>10 DEF FaultNoBox, EndFault
  <2>2. \A o \in Mm, w \in Int : InArea(o, w)' <=> InArea(o, w)
    BY <2>1 DEF InArea, On
  <2> QED BY <1>0, <2>1, <2>2, HandlerRuns DEF TypeOK
<1>11. ASSUME NEW m \in Mm, NEW F \in SUBSET Frame, EndFault(m), stus'[m] # "EFAULT",
              \E i \in VmaFindArea(m, cr2, cr2 + 1), b \in Box : RetnKvmemcbox(vs_list[m][i], b, F),
              \A o \in Mm \ {m} : stus'[o] = stus[o]
       PROVE AInArea'
  <2>1. PICK i \in VmaFindArea(m, cr2, cr2 + 1), b \in Box : RetnKvmemcbox(vs_list[m][i], b, F)
    BY <1>11
  <2>2. vs_list[m][i] \in On(m) /\ UNCHANGED <<vs_list, vs_currkmvdsc>>
    BY <1>0, <1>11, FoundForFault DEF EndFault
  <2>3. Placed
    BY <1>0, <2>1, <2>2, BoxReturned
  <2>4. \A o \in Mm : \A v \in Int : InArea(o, v)' <=> InArea(o, v)
    BY <1>0, <2>2, <2>3, PlacedAreas
  <2> QED BY <1>0, <1>11, <2>4, HandlerRuns
<1>12. ASSUME NEW m \in Mm, FaultMapped(m) PROVE AInArea'
  <2>1. PICK f \in free : \E i \in VmaFindArea(m, cr2, cr2 + 1), b \in Box :
                           RetnKvmemcbox(vs_list[m][i], b, {f})
    BY <1>12 DEF FaultMapped
  <2>2. {f} \in SUBSET Frame
    BY <1>0 DEF TypeOK
  <2>3. EndFault(m) /\ UNCHANGED stus /\ stus[m] # "EFAULT"
    BY <1>12 DEF FaultMapped, AInArea
  <2> QED BY <1>11, <2>1, <2>2, <2>3
<1>13. ASSUME NEW m \in Mm, FaultNoMem(m) PROVE AInArea'
  <2>1. /\ EndFault(m) /\ stus' = [stus EXCEPT ![m] = "ENOMEM"] /\ {} \in SUBSET Frame
        /\ \E i \in VmaFindArea(m, cr2, cr2 + 1), b \in Box : RetnKvmemcbox(vs_list[m][i], b, {})
    BY <1>13 DEF FaultNoMem
  <2>2. stus'[m] = "ENOMEM" /\ \A o \in Mm \ {m} : stus'[o] = stus[o]
    BY <1>0, <2>1 DEF TypeOK
  <2> QED BY <1>11, <2>1, <2>2
<1>14. CASE ~(MissesFault \/ StartsEarly)
  <2>1. ASSUME NEW m \in Mm, TouchEarly(m) PROVE FALSE
    BY <1>14, <2>1 DEF StartsEarly
  <2> QED BY <1>1, <1>3, <1>4, <1>5, <1>6, <1>7, <1>9, <1>10, <1>12, <1>13, <1>14, <2>1 DEF Next
<1> QED BY <1>1, <1>14

(* Until, besides, a thread has run before it had room for its program     *)
(* (krlsvethread.c:115), a fault is never answered with -EFAULT: the two   *)
(* windows of the code are all that can make it fail.                      *)
THEOREM FaultsAlwaysAnswered ==
  SpecH => [](missed \/ early \/ FaultsAnswered)
<1>1. InitH => AInArea
  BY DEF InitH, Init, AInArea
<1>2. (missed \/ KInv) /\ (missed \/ early \/ AInArea) /\ [NextH]_varsH => (missed \/ early \/ AInArea)'
  <2> SUFFICES ASSUME missed \/ KInv, missed \/ early \/ AInArea, [NextH]_varsH, ~missed', ~early'
               PROVE  AInArea'
    OBVIOUS
  <2>1. /\ ~missed
        /\ ~early
    <3>1. ~missed
      BY DEF NextH, varsH
    <3>2. ~early
      BY DEF NextH, varsH
    <3> QED BY <3>1, <3>2
  <2>2. CASE NextH
    <3>1. Next /\ ~MissesFault /\ ~StartsEarly
      BY <2>2 DEF NextH
    <3> QED BY <2>1, <3>1, NextAnswered
  <2>3. CASE UNCHANGED varsH
    <3>1. UNCHANGED vars
      BY <2>3 DEF varsH
    <3> QED BY <2>1, <3>1, NextAnswered
  <2> QED BY <2>2, <2>3
<1>3. AInArea => FaultsAnswered
  BY DEF AInArea, FaultsAnswered
<1> QED BY <1>1, <1>2, <1>3, KeptUntilMissed, PTL DEF SpecH

-----------------------------------------------------------------------------
(* Virtual memory implements PrivMem. *)

Own == [m \in Mm |-> UNION {b[1] .. b[2] - 1 : b \in blocks[m]}]

LEMMA OwnIs ==
  /\ \A m \in Mm : Own[m] = UNION {b[1] .. b[2] - 1 : b \in blocks[m]}
  /\ \A m \in Mm : \A v : v \in Own[m] <=> Granted(m, v)
BY DEF Own, Granted

LEMMA GrantedInArea ==
  ASSUME TypeOK, AInv, BInv, NEW m \in Mm, NEW v, Granted(m, v)
  PROVE  InArea(m, v) /\ v \in Page /\ v \in Int
<1>1. PICK b \in blocks[m] : v \in b[1] .. b[2] - 1
  BY DEF Granted
<1>2. /\ b[1] \in Page /\ b[2] \in 2 .. End /\ b[1] \in Int /\ b[2] \in Int /\ Within(m, b[1], b[2])
      /\ End \in Int
  BY BlockType, VirMemAssumption DEF BInv, BlocksOK
<1>3. v \in Int /\ v \in Page
  BY <1>1, <1>2 DEF Page
<1> QED BY <1>1, <1>2, <1>3, WithinPages

LEMMA OwnChange ==
  ASSUME NEW m \in Mm, NEW S, \A o \in Mm \ {m} : blocks'[o] = blocks[o],
         \A v : Granted(m, v)' <=> v \in S
  PROVE  Own' = [Own EXCEPT ![m] = S]
<1>1. \A o \in Mm \ {m} : Own'[o] = Own[o]
  BY DEF Own
<1>2. Own'[m] = S
  <2>1. \A v : v \in Own'[m] <=> Granted(m, v)'
    BY DEF Own, Granted
  <2> QED BY <2>1
<1> QED BY <1>1, <1>2 DEF Own

LEMMA RoomGranted ==
  ASSUME TypeOK, AInv, BInv, NEW m \in Mm, NEW s \in Page, NEW e \in 2 .. End, Added(m, s, e),
         blocks' = [blocks EXCEPT ![m] = @ \cup {<<s, e>>}], UNCHANGED mapped
  PROVE  Abstract!Next
<1>1. /\ blocks'[m] = blocks[m] \cup {<<s, e>>} /\ \A o \in Mm \ {m} : blocks'[o] = blocks[o]
  BY DEF TypeOK
<1>2. PICK S : S = s .. e - 1
  OBVIOUS
<1>3. S \in SUBSET Page
  <2>1. s \in Int /\ e \in Int /\ End \in Int
    BY VirMemAssumption DEF Page
  <2> QED BY <1>2, <2>1 DEF Page
<1>4. ASSUME NEW v PROVE Granted(m, v)' <=> v \in Own[m] \cup S
  <2>1. <<s, e>>[1] = s /\ <<s, e>>[2] = e
    OBVIOUS
  <2>2. Granted(m, v)' <=> (Granted(m, v) \/ v \in s .. e - 1)
    BY <1>1, <2>1 DEF Granted
  <2> QED BY <1>2, <2>2, OwnIs
<1>5. Own' = [Own EXCEPT ![m] = Own[m] \cup S]
  <2>1. PICK T : T = Own[m] \cup S
    OBVIOUS
  <2>2. \A v : Granted(m, v)' <=> v \in T
    BY <1>4, <2>1
  <2> QED BY <1>1, <2>1, <2>2, OwnChange
<1>6. S \cap Own[m] = {}
  BY <1>2, OwnIs, GrantedInArea DEF Added
<1>7. Abstract!Grant(m, S)
  BY <1>5, <1>6 DEF Abstract!Grant, Own
<1> QED BY <1>3, <1>7 DEF Abstract!Next

LEMMA NewGranted ==
  ASSUME IInv, NEW m \in Mm, NewMmadrsdsc(m)
  PROVE  Abstract!Next
<1>0. TypeOK /\ AInv /\ BInv /\ NInv
  BY DEF IInv
<1>1. /\ blocks' = [blocks EXCEPT ![m] =
                      {<<1, TextEnd>>, <<HeapStart, HeapStart + 1>>, <<StackStart, End>>}]
      /\ UNCHANGED mapped /\ stus[m] = "none"
  BY DEF NewMmadrsdsc
<1>2. PICK S : \A v : v \in S <=> Granted(m, v)'
  <2>1. \A v : v \in Own'[m] <=> Granted(m, v)'
    BY DEF Own, Granted
  <2> QED BY <2>1
<1>3. Own[m] = {}
  <2>1. On(m) = {}
    BY <1>0, <1>1 DEF NInv, On, Elems
  <2>2. ASSUME NEW v, Granted(m, v) PROVE FALSE
    BY <1>0, <2>1, <2>2, GrantedInArea DEF InArea
  <2> QED BY <2>2, OwnIs
<1>4. S \in SUBSET Page
  <2>1. IInv'
    BY StepNewMmadrsdsc
  <2>2. ASSUME NEW v, Granted(m, v)' PROVE v \in Page
    <3>1. PICK b \in blocks'[m] : v \in b[1] .. b[2] - 1
      BY <2>2 DEF Granted
    <3>2. blocks'[m] \in SUBSET (Page \X (2 .. End))
      BY <2>1 DEF IInv, TypeOK
    <3>3. b[1] \in Page /\ b[2] \in 2 .. End /\ b[1] \in Int /\ b[2] \in Int /\ End \in Int
      BY <3>1, <3>2, VirMemAssumption DEF Page
    <3> QED BY <3>1, <3>3 DEF Page
  <2> QED BY <1>2, <2>2
<1>5. Own' = [Own EXCEPT ![m] = S]
  <2>1. \A o \in Mm \ {m} : blocks'[o] = blocks[o]
    BY <1>0, <1>1 DEF TypeOK
  <2>2. \A v : Granted(m, v)' <=> v \in S
    BY <1>2
  <2> QED BY <2>1, <2>2, OwnChange
<1>6. Abstract!Grant(m, S)
  <2>1. Own' = [Own EXCEPT ![m] = Own[m] \cup S]
    BY <1>3, <1>5
  <2> QED BY <1>1, <1>3, <2>1 DEF Abstract!Grant, Own
<1> QED BY <1>4, <1>6 DEF Abstract!Next

LEMMA BlockRevoked ==
  ASSUME TypeOK, AInv, BInv, NEW m \in Mm, NEW k \in blocks[m],
         NEW s \in Page, NEW e \in 2 .. End, s \in Int, e \in Int, s < e, k[1] <= s, e <= k[2],
         blocks' = [blocks EXCEPT ![m] = (@ \ {k}) \cup Rest(k, s, e)],
         mapped' = [mapped EXCEPT ![m] = MappedWithout(m, s, e)]
  PROVE  Abstract!Next
<1>1. /\ blocks'[m] = (blocks[m] \ {k}) \cup Rest(k, s, e)
      /\ \A o \in Mm \ {m} : blocks'[o] = blocks[o]
  BY DEF TypeOK
<1>2. BlocksOK(m) /\ k[1] \in Int /\ k[2] \in Int /\ k[1] < k[2]
  BY BlockType DEF BInv, BlocksOK
<1>3. PICK S : S = s .. e - 1
  OBVIOUS
<1>4. \A v \in S : Granted(m, v)
  BY <1>2, <1>3 DEF Granted
<1>5. S \in SUBSET Page /\ S \subseteq Own[m]
  BY <1>4, OwnIs, GrantedInArea
<1>6. ASSUME NEW v PROVE Granted(m, v)' <=> v \in Own[m] \ S
  <2>1. ASSUME Granted(m, v)' PROVE Granted(m, v) /\ v \notin S
    <3>1. PICK b \in blocks'[m] : v \in b[1] .. b[2] - 1
      BY <2>1 DEF Granted
    <3>2. CASE b \in blocks[m] /\ b # k
      <4>1. b[1] \in Int /\ b[2] \in Int /\ (b[2] <= k[1] \/ k[2] <= b[1])
        BY <1>2, <3>2, BlockType DEF BlocksOK
      <4> QED BY <1>2, <1>3, <3>1, <3>2, <4>1 DEF Granted
    <3>3. CASE b = <<k[1], s>>
      <4>1. v \in k[1] .. k[2] - 1 /\ v \notin S
        BY <1>2, <1>3, <3>1, <3>3
      <4> QED BY <4>1 DEF Granted
    <3>4. CASE b = <<e, k[2]>>
      <4>1. v \in k[1] .. k[2] - 1 /\ v \notin S
        BY <1>2, <1>3, <3>1, <3>4
      <4> QED BY <4>1 DEF Granted
    <3> QED BY <1>1, <3>1, <3>2, <3>3, <3>4 DEF Rest
  <2>2. ASSUME Granted(m, v), v \notin S PROVE Granted(m, v)'
    <3>1. PICK c \in blocks[m] : v \in c[1] .. c[2] - 1
      BY <2>2 DEF Granted
    <3>2. CASE c # k
      BY <1>1, <3>1, <3>2 DEF Granted
    <3>3. CASE c = k /\ v < s
      <4>1. <<k[1], s>> \in Rest(k, s, e) /\ v \in <<k[1], s>>[1] .. <<k[1], s>>[2] - 1
        BY <1>2, <3>1, <3>3 DEF Rest
      <4> QED BY <1>1, <4>1 DEF Granted
    <3>4. CASE c = k /\ e <= v
      <4>1. <<e, k[2]>> \in Rest(k, s, e) /\ v \in <<e, k[2]>>[1] .. <<e, k[2]>>[2] - 1
        BY <1>2, <3>1, <3>4 DEF Rest
      <4> QED BY <1>1, <4>1 DEF Granted
    <3>5. c # k \/ (c = k /\ v < s) \/ (c = k /\ e <= v)
      BY <1>2, <1>3, <2>2, <3>1
    <3> QED BY <3>2, <3>3, <3>4, <3>5
  <2> QED BY <2>1, <2>2, OwnIs
<1>7. Own' = [Own EXCEPT ![m] = Own[m] \ S]
  <2>1. PICK T : T = Own[m] \ S
    OBVIOUS
  <2>2. \A v : Granted(m, v)' <=> v \in T
    BY <1>6, <2>1
  <2> QED BY <1>1, <2>1, <2>2, OwnChange
<1>8. mapped' = [mapped EXCEPT ![m] = [v \in Page |-> IF v \in S THEN NULL ELSE @[v]]]
  BY <1>3 DEF MappedWithout, TypeOK
<1>9. Abstract!Revoke(m, S)
  BY <1>5, <1>7, <1>8 DEF Abstract!Revoke, Own
<1> QED BY <1>5, <1>9 DEF Abstract!Next

LEMMA PageFilled ==
  ASSUME TypeOK, AInv, BInv, Boxed, Kept, NEW m \in Mm, NEW p \in Page, InArea(m, p), mapped[m][p] = NULL,
         NEW f \in free, mapped' = [mapped EXCEPT ![m][p] = f], UNCHANGED blocks
  PROVE  Abstract!Next
<1>1. f \in Frame /\ f # NULL /\ p \in Int
  BY VirMemAssumption DEF TypeOK, Page
<1>2. \A o \in Mm, w \in Page : mapped[o][w] # f
  <2>1. ASSUME NEW o \in Mm, NEW w \in Page, mapped[o][w] = f PROVE FALSE
    <3>1. \E c \in Box : f \in kmb_msalist[c]
      BY <1>1, <2>1 DEF Kept
    <3> QED BY <3>1 DEF Boxed
  <2> QED BY <2>1
<1>3. p \in Own[m]
  BY <1>1, OwnIs DEF BInv, BlocksOK
<1>4. Own' = Own
  BY DEF Own
<1>5. Abstract!Fill(m, p, f)
  BY <1>2, <1>3, <1>4 DEF Abstract!Fill, Own
<1> QED BY <1>1, <1>5 DEF Abstract!Next

LEMMA NextImplements ==
  ASSUME KInv, [Next]_vars, ~MissesFault \/ UNCHANGED vars
  PROVE  [Abstract!Next]_(Abstract!vars)
<1>0. IInv /\ GInv /\ FramesKept /\ TypeOK /\ AInv /\ FInv /\ BInv /\ NInv
  BY DEF KInv, IInv
<1>1. ASSUME UNCHANGED <<blocks, mapped>> PROVE UNCHANGED Abstract!vars
  BY <1>1 DEF Abstract!vars
<1>2. ASSUME NEW m \in Mm, NEW n \in 1 .. MaxSize, Execvl(m, n) PROVE Abstract!Next
  <2>1. VmaNewVadrs(m, AppStart, n, "bin") /\ AppStart \in Page \cup {0} /\ "bin" \in Type /\ UNCHANGED mapped
    <3>1. AppStart \in Page \cup {0} /\ "bin" \in Type
      BY VirMemAssumption DEF Page, Type
    <3>2. VmaNewVadrs(m, AppStart, n, "bin") /\ UNCHANGED mapped
      BY <1>2 DEF Execvl, VmaNewVadrs
    <3> QED BY <3>1, <3>2
  <2>2. TypeOK'
    BY <1>0, <1>2, StepExecvl DEF IInv
  <2>3. \E s \in Page, e \in 2 .. End :
          Added(m, s, e) /\ blocks' = [blocks EXCEPT ![m] = @ \cup {<<s, e>>}]
    BY <1>0, <2>1, <2>2, RoomMade
  <2> QED BY <1>0, <2>1, <2>3, RoomGranted
<1>3. ASSUME NEW m \in Mm, NEW n \in 1 .. MaxSize, Mallocblk(m, n) PROVE Abstract!Next
  <2>1. VmaNewVadrs(m, 0, n, "heap") /\ 0 \in Page \cup {0} /\ "heap" \in Type /\ UNCHANGED mapped
    BY <1>3 DEF Mallocblk, Type, VmaNewVadrs
  <2>2. TypeOK'
    BY <1>0, <1>3, StepMallocblk DEF IInv
  <2>3. \E s \in Page, e \in 2 .. End :
          Added(m, s, e) /\ blocks' = [blocks EXCEPT ![m] = @ \cup {<<s, e>>}]
    BY <1>0, <2>1, <2>2, RoomMade
  <2> QED BY <1>0, <2>1, <2>3, RoomGranted
<1>4. ASSUME NEW m \in Mm, NEW b \in blocks[m], NEW s \in b[1] .. b[2] - 1, NEW e \in s + 1 .. b[2],
             Mfreeblk(m, b, s, e)
      PROVE Abstract!Next
  <2>1. /\ s \in Int /\ e \in Int /\ b[1] <= s /\ s < e /\ e <= b[2] /\ s \in Page /\ e \in 2 .. End
        /\ \E i \in VmaFindArea(m, s, e) : Freed(m, i, s, e)
        /\ blocks' = [blocks EXCEPT ![m] = (@ \ {b}) \cup Rest(b, s, e)]
    BY <1>0, <1>4, BlockFreed
  <2>2. mapped' = [mapped EXCEPT ![m] = MappedWithout(m, s, e)]
    BY <2>1 DEF Freed, Unmapping
  <2> QED BY <1>0, <2>1, <2>2, BlockRevoked
<1>5. ASSUME NEW m \in Mm, FaultMapped(m), ~MissesFault PROVE Abstract!Next
  <2>1. PICK p \in Page, f \in free : InArea(m, p) /\ mapped[m][p] = NULL
                                      /\ mapped' = [mapped EXCEPT ![m][p] = f]
    BY <1>5, FaultFilled
  <2>2. UNCHANGED blocks
    BY <1>5 DEF FaultMapped, EndFault
  <2> QED BY <1>0, <2>1, <2>2, PageFilled DEF FInv
<1>6. CASE UNCHANGED vars
  BY <1>1, <1>6 DEF vars
<1>7. ASSUME NEW m \in Mm, NewMmadrsdsc(m) PROVE Abstract!Next
  BY <1>0, <1>7, NewGranted
<1>8. ASSUME NEW m \in Mm, TouchEarly(m) \/ FaultNoArea(m) \/ FaultNoBox(m) \/ FaultNoMem(m)
      PROVE UNCHANGED Abstract!vars
  BY <1>1, <1>8 DEF TouchEarly, FaultNoArea, FaultNoBox, FaultNoMem, EndFault
<1>9. ASSUME NEW m \in Mm, NEW b \in blocks[m], NEW v \in b[1] .. b[2] - 1, Touch(m, v)
      PROVE UNCHANGED Abstract!vars
  BY <1>1, <1>9 DEF Touch
<1>10. CASE ~MissesFault
  <2>1. ASSUME NEW m \in Mm, FaultMapped(m) PROVE Abstract!Next
    BY <1>5, <1>10, <2>1
  <2> QED BY <1>2, <1>3, <1>4, <1>6, <1>7, <1>8, <1>9, <1>10, <2>1 DEF Next
<1> QED BY <1>6, <1>10

(* A program has its pages to itself: grants do not overlap, a page keeps  *)
(* its frame until it is given up, and no other page has that frame; or a  *)
(* handler has read an address that its thread has not faulted at.         *)
THEOREM Implements ==
  SpecH => ImplementsPrivMem \/ <>missed
<1>1. Init => Abstract!Init
  BY DEF Init, Abstract!Init
<1>2. (missed \/ KInv) /\ [NextH]_varsH => missed' \/ [Abstract!Next]_(Abstract!vars)
  <2> SUFFICES ASSUME missed \/ KInv, [NextH]_varsH, ~missed'
               PROVE  [Abstract!Next]_(Abstract!vars)
    OBVIOUS
  <2>1. ~missed
    BY DEF NextH, varsH
  <2>2. CASE NextH
    <3>1. Next /\ ~MissesFault
      BY <2>2 DEF NextH
    <3> QED BY <2>1, <3>1, NextImplements
  <2>3. CASE UNCHANGED varsH
    <3>1. UNCHANGED vars
      BY <2>3 DEF varsH
    <3> QED BY <2>1, <3>1, NextImplements
  <2> QED BY <2>2, <2>3
<1> QED BY <1>1, <1>2, KeptUntilMissed, PTL DEF SpecH, InitH, Spec, ImplementsPrivMem, Abstract!Spec
=============================================================================
