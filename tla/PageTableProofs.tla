--------------------------- MODULE PageTableProofs ---------------------------
(***************************************************************************)
(* Proofs about PageTable, for any number of address spaces, pages and     *)
(* entries per table: the tables of an address space are a tree without    *)
(* empty tables whose pages belong to nobody else, and they implement      *)
(* PageMap.                                                                *)
(*                                                                         *)
(* An operation changes the tree of one address space in up to seven       *)
(* steps.  The lemmas follow a tree t through them: what holds of every    *)
(* tree on the way (TreeOK), which table may be empty in the meantime      *)
(* (EmptyOnly), and what a step leaves alone (Frame).                      *)
(***************************************************************************)
EXTENDS PageTable, TLAPS

(* The parts of TreeOK. *)
TreeType(t) ==
  /\ t = [dire |-> t.dire, head |-> t.head, free |-> t.free]
  /\ DOMAIN t.dire = Level
  /\ \A k \in Table : t.dire[k] \in [Obj[k] -> Page \cup {NoPage}]
  /\ t.dire[4] \in [Virt -> Msa \cup {NoPage}]
  /\ t.head \in [0 .. 3 -> SUBSET Page]
  /\ t.free \subseteq Page
TreeReach(t) ==
  \A k \in 2 .. 4 : \A n \in Obj[k] :
    t.dire[k][n] # NoPage => t.dire[k - 1][up[k][n]] # NoPage
TreeOnce(t) ==
  \A k, l \in Table : \A n \in Obj[k], q \in Obj[l] :
    t.dire[k][n] = t.dire[l][q] /\ t.dire[k][n] # NoPage => k = l /\ n = q
TreeFree(t) == \A k \in Table : \A n \in Obj[k] : t.dire[k][n] \notin t.free
TreeHead(t) ==
  \A k \in Table, p \in Page :
    p \in t.head[k] <=> \E n \in Obj[k] : t.dire[k][n] = p

(* A tree in the middle of an operation. *)
TreeOK(t) == TreeType(t) /\ TreeReach(t) /\ TreeOnce(t) /\ TreeFree(t) /\ TreeHead(t)

(* No table is empty but, perhaps, table n of level k. *)
EmptyOnly(t, k, n) ==
  \A l \in Table : \A q \in Obj[l] :
    t.dire[l][q] # NoPage /\ AllZero(t, l, q) => l = k /\ q = n

(* The pages a tree uses or may use. *)
Reserve(t) == t.free \cup {p \in Page : \E k \in Table : \E n \in Obj[k] : t.dire[k][n] = p}

(* From t to u: the list of the root, the pages, and what is mapped. *)
Frame(t, u) == /\ u.head[0] = t.head[0]
               /\ Reserve(u) = Reserve(t)
               /\ u.dire[4] = t.dire[4]

(* The table above n exists. *)
Parent(t, k, n) == k > 1 => t.dire[k - 1][up[k][n]] # NoPage

-----------------------------------------------------------------------------
(* The table above an entry is one of the level above. *)
LEMMA UpType == \A k \in Level : \A n \in Obj[k] : up[k][n] \in Obj[k - 1]
BY TreeAssumption

(* The tables on the way to a virtual page. *)
LEMMA AtFacts ==
  ASSUME NEW v \in Virt
  PROVE  /\ At(3, v) = up[4][v] /\ At(3, v) \in Obj[3]
         /\ At(2, v) = up[3][At(3, v)] /\ At(2, v) \in Obj[2]
         /\ At(1, v) = up[2][At(2, v)] /\ At(1, v) \in Obj[1]
<1>1. At(3, v) = up[4][v] /\ At(2, v) = up[3][up[4][v]] /\ At(1, v) = up[2][up[3][up[4][v]]]
  BY DEF At
<1>2. up[4][v] \in Obj[3]
  BY UpType DEF Virt, Level
<1>3. up[3][up[4][v]] \in Obj[2]
  BY <1>2, UpType DEF Level
<1>4. up[2][up[3][up[4][v]]] \in Obj[1]
  BY <1>3, UpType DEF Level
<1>5. QED
  BY <1>1, <1>2, <1>3, <1>4

(* What NewTable changes, entry by entry. *)
LEMMA NewEntries ==
  ASSUME NEW t, TreeType(t), t.free # {}, NEW k \in Table, NEW n \in Obj[k]
  PROVE  \E f \in t.free :
           /\ NewTable(t, k, n).free = t.free \ {f}
           /\ NewTable(t, k, n).head = [t.head EXCEPT ![k] = @ \cup {f}]
           /\ DOMAIN NewTable(t, k, n).dire = Level
           /\ NewTable(t, k, n).dire[k] = [t.dire[k] EXCEPT ![n] = f]
           /\ NewTable(t, k, n).dire[k + 1] =
                [c \in Obj[k + 1] |-> IF up[k + 1][c] = n THEN NoPage ELSE t.dire[k + 1][c]]
           /\ \A l \in Level \ {k, k + 1} : NewTable(t, k, n).dire[l] = t.dire[l]
           /\ NewTable(t, k, n) = [dire |-> NewTable(t, k, n).dire,
                                   head |-> NewTable(t, k, n).head,
                                   free |-> NewTable(t, k, n).free]
<1>1. PICK f \in t.free : f = CHOOSE p \in t.free : TRUE
  OBVIOUS
<1>2. DOMAIN t.dire = Level /\ k \in Level /\ k + 1 \in Level /\ k # k + 1
  BY DEF TreeType, Level, Table
<1>3. QED
  BY <1>1, <1>2 DEF NewTable

(* A new table: it is the only empty one. *)
LEMMA NewTableOK ==
  ASSUME NEW t, TreeOK(t), t.free # {},
         NEW k \in Table, NEW n \in Obj[k],
         t.dire[k][n] = NoPage, Parent(t, k, n), EmptyOnly(t, k - 1, up[k][n])
  PROVE  /\ TreeOK(NewTable(t, k, n))
         /\ EmptyOnly(NewTable(t, k, n), k, n)
         /\ Frame(t, NewTable(t, k, n))
         /\ Have(NewTable(t, k, n), k, n)
         /\ \A l \in Table : l < k => NewTable(t, k, n).dire[l] = t.dire[l]
<1> DEFINE u == NewTable(t, k, n)
<1>a. TreeType(t) /\ TreeReach(t) /\ TreeOnce(t) /\ TreeFree(t) /\ TreeHead(t)
  BY DEF TreeOK
<1>1. PICK f \in t.free :
        /\ u.free = t.free \ {f}
        /\ u.head = [t.head EXCEPT ![k] = @ \cup {f}]
        /\ DOMAIN u.dire = Level
        /\ u.dire[k] = [t.dire[k] EXCEPT ![n] = f]
        /\ u.dire[k + 1] =
             [c \in Obj[k + 1] |-> IF up[k + 1][c] = n THEN NoPage ELSE t.dire[k + 1][c]]
        /\ \A l \in Level \ {k, k + 1} : u.dire[l] = t.dire[l]
        /\ u = [dire |-> u.dire, head |-> u.head, free |-> u.free]
  BY <1>a, NewEntries
<1> HIDE DEF u
<1>b. f \in Page /\ f # NoPage
  BY <1>a, TreeAssumption DEF TreeType
<1>c. k \in 1 .. 3 /\ k + 1 \in 2 .. 4 /\ k + 1 \in Level /\ k \in Level /\ k # k + 1
  BY DEF Table, Level
(* No table was below the new one. *)
<1>2. u.dire[k + 1] = t.dire[k + 1]
  <2>1. \A c \in Obj[k + 1] : up[k + 1][c] = n => t.dire[k + 1][c] = NoPage
    BY <1>a, <1>c DEF TreeReach
  <2>2. t.dire[k + 1] = [c \in Obj[k + 1] |-> t.dire[k + 1][c]]
    <3>1. CASE k = 3
      BY <3>1, <1>a DEF TreeType, Virt
    <3>2. CASE k # 3
      <4>1. k + 1 \in Table
        BY <3>2 DEF Table
      <4>2. QED
        BY <4>1, <1>a DEF TreeType
    <3>3. QED
      BY <3>1, <3>2
  <2>3. QED
    BY <2>1, <2>2, <1>1
<1>3. \A l \in Level : l # k => u.dire[l] = t.dire[l]
  BY <1>1, <1>2
<1>4. /\ DOMAIN t.dire[k] = Obj[k]
      /\ u.dire[k][n] = f
      /\ \A q \in Obj[k] : q # n => u.dire[k][q] = t.dire[k][q]
  BY <1>1, <1>a DEF TreeType
<1>5. TreeType(u)
  <2>1. \A l \in Table : u.dire[l] \in [Obj[l] -> Page \cup {NoPage}]
    <3> TAKE l \in Table
    <3>1. t.dire[l] \in [Obj[l] -> Page \cup {NoPage}] /\ l \in Level
      BY <1>a DEF TreeType, Level, Table
    <3>2. QED
      BY <3>1, <1>1, <1>3, <1>b
  <2>2. u.dire[4] = t.dire[4]
    BY <1>3 DEF Table, Level
  <2>3. u.head \in [0 .. 3 -> SUBSET Page]
    <3>1. t.head[k] \cup {f} \in SUBSET Page
      BY <1>a, <1>b, <1>c DEF TreeType
    <3>2. QED
      BY <3>1, <1>1, <1>a DEF TreeType
  <2>4. QED
    BY <2>1, <2>2, <2>3, <1>1, <1>a DEF TreeType
<1>6. TreeReach(u)
  <2> SUFFICES ASSUME NEW l \in 2 .. 4, NEW q \in Obj[l], u.dire[l][q] # NoPage
               PROVE  u.dire[l - 1][up[l][q]] # NoPage
    BY DEF TreeReach
  <2>1. l \in Level /\ l - 1 \in Level /\ l - 1 \in Table /\ up[l][q] \in Obj[l - 1]
    BY UpType DEF Level, Table
  <2>2. CASE l = k /\ q = n
    BY <2>1, <2>2, <1>3 DEF Parent, Table
  <2>3. CASE ~(l = k /\ q = n)
    <3>1. t.dire[l][q] # NoPage
      BY <2>3, <2>1, <1>3, <1>4
    <3>2. t.dire[l - 1][up[l][q]] # NoPage
      BY <3>1, <1>a DEF TreeReach
    <3>3. QED
      BY <3>2, <2>1, <1>3, <1>4, <1>b
  <2>4. QED
    BY <2>2, <2>3
<1>7. \A l \in Table : \A q \in Obj[l] :
        \/ u.dire[l][q] = t.dire[l][q] /\ t.dire[l][q] # f
        \/ u.dire[l][q] = f /\ l = k /\ q = n
  <2> SUFFICES ASSUME NEW l \in Table, NEW q \in Obj[l]
               PROVE  \/ u.dire[l][q] = t.dire[l][q] /\ t.dire[l][q] # f
                      \/ u.dire[l][q] = f /\ l = k /\ q = n
    OBVIOUS
  <2>1. l \in Level /\ t.dire[l][q] # f
    BY <1>a DEF TreeFree, Level, Table
  <2>2. QED
    BY <2>1, <1>3, <1>4
<1>8. TreeOnce(u)
  BY <1>7, <1>a DEF TreeOnce
<1>9. TreeFree(u)
  BY <1>7, <1>1, <1>a DEF TreeFree
<1>10. TreeHead(u)
  <2> SUFFICES ASSUME NEW l \in Table, NEW p \in Page
               PROVE  p \in u.head[l] <=> \E q \in Obj[l] : u.dire[l][q] = p
    BY DEF TreeHead
  <2>1. l \in Level /\ (p \in t.head[l] <=> \E q \in Obj[l] : t.dire[l][q] = p)
    BY <1>a DEF TreeHead, Level, Table
  <2>2. CASE l # k
    <3>1. u.head[l] = t.head[l]
      BY <2>2, <1>1, <1>a DEF TreeType, Table
    <3>2. QED
      BY <3>1, <2>1, <2>2, <1>3
  <2>3. CASE l = k
    <3>1. u.head[k] = t.head[k] \cup {f}
      BY <1>1, <1>a DEF TreeType, Table
    <3>2. CASE p = f
      BY <3>1, <3>2, <2>3, <1>4
    <3>3. CASE p # f
      <4>1. (\E q \in Obj[k] : t.dire[k][q] = p) <=> (\E q \in Obj[k] : u.dire[k][q] = p)
        <5>1. p # NoPage
          BY TreeAssumption
        <5>2. QED
          BY <5>1, <1>4, <3>3
      <4>2. QED
        BY <4>1, <3>1, <3>3, <2>1, <2>3
    <3>4. QED
      BY <3>2, <3>3
  <2>4. QED
    BY <2>2, <2>3
<1>11. EmptyOnly(u, k, n)
  <2> SUFFICES ASSUME NEW l \in Table, NEW q \in Obj[l],
                      u.dire[l][q] # NoPage, AllZero(u, l, q), ~(l = k /\ q = n)
               PROVE  FALSE
    BY DEF EmptyOnly
  <2>1. l \in Level /\ l + 1 \in Level
    BY DEF Level, Table
  <2>2. t.dire[l][q] # NoPage
    BY <1>3, <1>4, <2>1
  <2>3. AllZero(t, l, q)
    <3> SUFFICES ASSUME NEW c \in Obj[l + 1], up[l + 1][c] = q
                 PROVE  t.dire[l + 1][c] = NoPage
      BY DEF AllZero
    <3>1. u.dire[l + 1][c] = NoPage
      BY DEF AllZero
    <3>2. QED
      BY <3>1, <2>1, <1>3, <1>4, <1>b
  <2>4. l = k - 1 /\ q = up[k][n]
    BY <2>2, <2>3 DEF EmptyOnly
  <2>5. l + 1 = k
    BY <2>4 DEF Table
  <2>6. u.dire[k][n] = NoPage
    BY <2>4, <2>5 DEF AllZero
  <2>7. QED
    BY <2>6, <1>4, <1>b
<1>12. Frame(t, u)
  <2>1. u.head[0] = t.head[0]
    BY <1>1, <1>a DEF TreeType, Table
  <2>2. u.dire[4] = t.dire[4]
    BY <1>3 DEF Table, Level
  <2>3. ASSUME NEW p
        PROVE  p \in Reserve(u) <=> p \in Reserve(t)
    <3>1. CASE p = f
      BY <3>1, <1>4, <1>b DEF Reserve
    <3>2. CASE p # f
      <4>1. p \in u.free <=> p \in t.free
        BY <3>2, <1>1
      <4>2. ASSUME p \in Page
            PROVE  (\E l \in Table : \E q \in Obj[l] : u.dire[l][q] = p)
                     <=> \E l \in Table : \E q \in Obj[l] : t.dire[l][q] = p
        <5>1. p # NoPage
          BY <4>2, TreeAssumption
        <5>2. QED
          BY <5>1, <3>2, <1>7
      <4>3. QED
        BY <4>1, <4>2 DEF Reserve
    <3>3. QED
      BY <3>1, <3>2
  <2>4. QED
    BY <2>1, <2>2, <2>3 DEF Frame
<1>13. Have(u, k, n)
  BY <1>4, <1>b DEF Have
<1>14. \A l \in Table : l < k => u.dire[l] = t.dire[l]
  BY <1>3, <1>c DEF Table, Level
<1>15. QED
  BY <1>5, <1>6, <1>8, <1>9, <1>10, <1>11, <1>12, <1>13, <1>14 DEF TreeOK, u

(* A table with an entry is not empty. *)
LEMMA ChildKeeps ==
  ASSUME NEW t, TreeOK(t), NEW k \in Table, NEW n \in Obj[k],
         t.dire[k][n] # NoPage, EmptyOnly(t, k - 1, up[k][n])
  PROVE  EmptyOnly(t, k, n)
<1> SUFFICES ASSUME NEW l \in Table, NEW q \in Obj[l],
                    t.dire[l][q] # NoPage, AllZero(t, l, q)
             PROVE  FALSE
  BY DEF EmptyOnly
<1>1. l = k - 1 /\ q = up[k][n]
  BY DEF EmptyOnly
<1>2. l + 1 = k
  BY <1>1 DEF Table
<1>3. QED
  BY <1>1, <1>2 DEF AllZero

(* One level down: the table is there and the only one that may be empty,  *)
(* or nothing has happened.                                                *)
LEMMA TransformOK ==
  ASSUME NEW t, TreeOK(t), NEW k \in Table, NEW n \in Obj[k],
         Parent(t, k, n), EmptyOnly(t, k - 1, up[k][n])
  PROVE  /\ TreeOK(Transform(t, k, n))
         /\ Frame(t, Transform(t, k, n))
         /\ \A l \in Table : l < k => Transform(t, k, n).dire[l] = t.dire[l]
         /\ IF Have(Transform(t, k, n), k, n)
              THEN EmptyOnly(Transform(t, k, n), k, n)
              ELSE Transform(t, k, n) = t
<1>1. CASE Have(t, k, n) \/ t.free = {}
  <2>1. Transform(t, k, n) = t
    BY <1>1 DEF Transform
  <2>2. Have(t, k, n) => EmptyOnly(t, k, n)
    BY ChildKeeps DEF Have
  <2>3. Frame(t, t)
    BY DEF Frame
  <2>4. QED
    BY <2>1, <2>2, <2>3
<1>2. CASE ~(Have(t, k, n) \/ t.free = {})
  <2>1. Transform(t, k, n) = NewTable(t, k, n)
    BY <1>2 DEF Transform
  <2>2. t.dire[k][n] = NoPage /\ t.free # {}
    BY <1>2 DEF Have
  <2>3. QED
    BY <2>1, <2>2, NewTableOK
<1>3. QED
  BY <1>1, <1>2

(* A table that goes: only the one above it can be empty now. *)
LEMMA DelTableOK ==
  ASSUME NEW t, TreeOK(t), NEW k \in Table, NEW n \in Obj[k],
         t.dire[k][n] # NoPage, AllZero(t, k, n), EmptyOnly(t, k, n)
  PROVE  /\ TreeOK(DelTable(t, k, n))
         /\ Frame(t, DelTable(t, k, n))
         /\ EmptyOnly(DelTable(t, k, n), k - 1, up[k][n])
<1> DEFINE u == DelTable(t, k, n)
           f == t.dire[k][n]
<1>a. TreeType(t) /\ TreeReach(t) /\ TreeOnce(t) /\ TreeFree(t) /\ TreeHead(t)
  BY DEF TreeOK
<1>b. f \in Page /\ f # NoPage /\ f \notin t.free
  BY <1>a DEF TreeType, TreeFree
<1>c. k \in Level /\ k \in 0 .. 3 /\ DOMAIN t.dire = Level /\ DOMAIN t.dire[k] = Obj[k]
  BY <1>a DEF TreeType, Table, Level
<1>1. /\ u = [dire |-> u.dire, head |-> u.head, free |-> u.free]
      /\ DOMAIN u.dire = Level
      /\ u.dire[k] = [t.dire[k] EXCEPT ![n] = NoPage]
      /\ \A l \in Level : l # k => u.dire[l] = t.dire[l]
      /\ u.head = [t.head EXCEPT ![k] = @ \ {f}]
      /\ u.free = t.free \cup {f}
  BY <1>c DEF DelTable
<1> HIDE DEF u, f
<1>2. /\ u.dire[k][n] = NoPage
      /\ \A q \in Obj[k] : q # n => u.dire[k][q] = t.dire[k][q]
  BY <1>1, <1>c
<1>3. f = t.dire[k][n]
  BY DEF f
<1>4. \A l \in Table : \A q \in Obj[l] :
        \/ u.dire[l][q] = t.dire[l][q] /\ t.dire[l][q] # f
        \/ u.dire[l][q] = NoPage /\ t.dire[l][q] = f /\ l = k /\ q = n
  <2> SUFFICES ASSUME NEW l \in Table, NEW q \in Obj[l]
               PROVE  \/ u.dire[l][q] = t.dire[l][q] /\ t.dire[l][q] # f
                      \/ u.dire[l][q] = NoPage /\ t.dire[l][q] = f /\ l = k /\ q = n
    OBVIOUS
  <2>1. l \in Level /\ (t.dire[l][q] = f => l = k /\ q = n)
    BY <1>a, <1>b, <1>3 DEF TreeOnce, Level, Table
  <2>2. QED
    BY <2>1, <1>1, <1>2, <1>3
<1>5. TreeType(u)
  <2>1. \A l \in Table : u.dire[l] \in [Obj[l] -> Page \cup {NoPage}]
    <3> TAKE l \in Table
    <3>1. t.dire[l] \in [Obj[l] -> Page \cup {NoPage}] /\ l \in Level
      BY <1>a DEF TreeType, Level, Table
    <3>2. QED
      BY <3>1, <1>1
  <2>2. u.dire[4] = t.dire[4]
    BY <1>1 DEF Table, Level
  <2>3. u.head \in [0 .. 3 -> SUBSET Page]
    BY <1>1, <1>c, <1>a DEF TreeType
  <2>4. QED
    BY <2>1, <2>2, <2>3, <1>1, <1>a, <1>b DEF TreeType
<1>6. TreeReach(u)
  <2> SUFFICES ASSUME NEW l \in 2 .. 4, NEW q \in Obj[l], u.dire[l][q] # NoPage
               PROVE  u.dire[l - 1][up[l][q]] # NoPage
    BY DEF TreeReach
  <2>1. l \in Level /\ l - 1 \in Level /\ l - 1 \in Table /\ up[l][q] \in Obj[l - 1]
    BY UpType DEF Level, Table
  <2>2. t.dire[l][q] # NoPage
    BY <2>1, <1>1, <1>2
  <2>3. t.dire[l - 1][up[l][q]] # NoPage
    BY <2>2, <1>a DEF TreeReach
  <2>4. ~(l - 1 = k /\ up[l][q] = n)
    <3> SUFFICES ASSUME l - 1 = k, up[l][q] = n
                 PROVE  FALSE
      OBVIOUS
    <3>1. k + 1 = l
      OBVIOUS
    <3>2. QED
      BY <3>1, <2>2 DEF AllZero
  <2>5. QED
    BY <2>1, <2>3, <2>4, <1>1, <1>2
<1>7. TreeOnce(u)
  BY <1>4, <1>a DEF TreeOnce
<1>8. TreeFree(u)
  <2>1. NoPage \notin u.free
    BY <1>1, <1>a, <1>b, TreeAssumption DEF TreeType
  <2>2. QED
    BY <2>1, <1>4, <1>1, <1>a DEF TreeFree
<1>9. TreeHead(u)
  <2> SUFFICES ASSUME NEW l \in Table, NEW p \in Page
               PROVE  p \in u.head[l] <=> \E q \in Obj[l] : u.dire[l][q] = p
    BY DEF TreeHead
  <2>1. l \in Level /\ (p \in t.head[l] <=> \E q \in Obj[l] : t.dire[l][q] = p)
    BY <1>a DEF TreeHead, Level, Table
  <2>2. p # NoPage
    BY TreeAssumption
  <2>3. u.head[l] = IF l = k THEN t.head[l] \ {f} ELSE t.head[l]
    <3>1. l \in DOMAIN t.head
      BY <1>a DEF TreeType, Table
    <3>2. CASE l = k
      BY <3>1, <3>2, <1>1
    <3>3. CASE l # k
      BY <3>1, <3>3, <1>1
    <3>4. QED
      BY <3>2, <3>3
  <2>4. (\E q \in Obj[l] : u.dire[l][q] = p)
          <=> (\E q \in Obj[l] : t.dire[l][q] = p) /\ ~(l = k /\ p = f)
    BY <2>2, <1>4
  <2>5. QED
    BY <2>1, <2>3, <2>4
<1>10. Frame(t, u)
  <2>1. u.head[0] = t.head[0]
    BY <1>1, <1>a DEF TreeType, Table
  <2>2. u.dire[4] = t.dire[4]
    BY <1>1 DEF Table, Level
  <2>3. ASSUME NEW p
        PROVE  p \in Reserve(u) <=> p \in Reserve(t)
    <3>1. CASE p = f
      BY <3>1, <1>1, <1>3, <1>b DEF Reserve
    <3>2. CASE p # f
      <4>1. p \in u.free <=> p \in t.free
        BY <3>2, <1>1
      <4>2. ASSUME p \in Page
            PROVE  (\E l \in Table : \E q \in Obj[l] : u.dire[l][q] = p)
                     <=> \E l \in Table : \E q \in Obj[l] : t.dire[l][q] = p
        <5>1. p # NoPage
          BY <4>2, TreeAssumption
        <5>2. QED
          BY <5>1, <3>2, <1>4
      <4>3. QED
        BY <4>1, <4>2 DEF Reserve
    <3>3. QED
      BY <3>1, <3>2
  <2>4. QED
    BY <2>1, <2>2, <2>3 DEF Frame
<1>11. EmptyOnly(u, k - 1, up[k][n])
  <2> SUFFICES ASSUME NEW l \in Table, NEW q \in Obj[l],
                      u.dire[l][q] # NoPage, AllZero(u, l, q),
                      ~(l = k - 1 /\ q = up[k][n])
               PROVE  FALSE
    BY DEF EmptyOnly
  <2>1. l \in Level /\ l + 1 \in Level
    BY DEF Level, Table
  <2>2. t.dire[l][q] # NoPage /\ ~(l = k /\ q = n)
    BY <1>1, <1>2, <2>1
  <2>3. AllZero(t, l, q)
    <3> SUFFICES ASSUME NEW c \in Obj[l + 1], up[l + 1][c] = q
                 PROVE  t.dire[l + 1][c] = NoPage
      BY DEF AllZero
    <3>1. u.dire[l + 1][c] = NoPage
      BY DEF AllZero
    <3>2. ~(l + 1 = k /\ c = n)
      BY DEF Table
    <3>3. QED
      BY <3>1, <3>2, <2>1, <1>1, <1>2
  <2>4. QED
    BY <2>2, <2>3 DEF EmptyOnly
<1>12. QED
  BY <1>5, <1>6, <1>7, <1>8, <1>9, <1>10, <1>11 DEF TreeOK, u

(* One level up. *)
LEMMA UntransformOK ==
  ASSUME NEW t, TreeOK(t), NEW k \in Table, NEW n \in Obj[k], EmptyOnly(t, k, n)
  PROVE  /\ TreeOK(Untransform(t, k, n))
         /\ Frame(t, Untransform(t, k, n))
         /\ EmptyOnly(Untransform(t, k, n), k - 1, up[k][n])
<1>1. CASE Have(t, k, n) /\ AllZero(t, k, n)
  BY <1>1, DelTableOK DEF Untransform, Have
<1>2. CASE ~(Have(t, k, n) /\ AllZero(t, k, n))
  <2>1. Untransform(t, k, n) = t
    BY <1>2 DEF Untransform
  <2>2. EmptyOnly(t, k - 1, up[k][n])
    BY <1>2 DEF EmptyOnly, Have
  <2>3. Frame(t, t)
    BY DEF Frame
  <2>4. QED
    BY <2>1, <2>2, <2>3
<1>3. QED
  BY <1>1, <1>2

-----------------------------------------------------------------------------
NoneEmpty(t) ==
  \A k \in Table : \A n \in Obj[k] : t.dire[k][n] # NoPage => ~AllZero(t, k, n)

(* NoneEmpty is EmptyOnly for a level that has no tables. *)
LEMMA NoneEmptyOnly == \A t, n : NoneEmpty(t) <=> EmptyOnly(t, 0, n)
BY DEF NoneEmpty, EmptyOnly, Table

(* Frame follows a tree through several steps. *)
LEMMA FrameTrans == \A t, u, w : Frame(t, u) /\ Frame(u, w) => Frame(t, w)
BY DEF Frame

(* The ways up from level 1, 2 and 3. *)
LEMMA UntfSdireOK ==
  ASSUME NEW t, TreeOK(t), NEW v \in Virt, EmptyOnly(t, 1, At(1, v))
  PROVE  /\ TreeOK(UntfSdire(t, v)) /\ NoneEmpty(UntfSdire(t, v))
         /\ Frame(t, UntfSdire(t, v))
<1>1. 1 \in Table /\ 1 - 1 = 0
  BY DEF Table
<1>2. QED
  BY <1>1, AtFacts, UntransformOK, NoneEmptyOnly DEF UntfSdire

(* From level 2: that of level 2 and then the way up from level 1. *)
LEMMA UntfIdireOK ==
  ASSUME NEW t, TreeOK(t), NEW v \in Virt, EmptyOnly(t, 2, At(2, v))
  PROVE  /\ TreeOK(UntfIdire(t, v)) /\ NoneEmpty(UntfIdire(t, v))
         /\ Frame(t, UntfIdire(t, v))
<1> DEFINE u == Untransform(t, 2, At(2, v))
<1>1. 2 \in Table /\ 2 - 1 = 1
  BY DEF Table
<1>2. TreeOK(u) /\ Frame(t, u) /\ EmptyOnly(u, 1, At(1, v))
  BY <1>1, AtFacts, UntransformOK
<1>3. UntfIdire(t, v) = UntfSdire(u, v)
  BY DEF UntfIdire
<1> HIDE DEF u
<1>4. QED
  BY <1>2, <1>3, UntfSdireOK, FrameTrans

(* From level 3: that of level 3 and then the way up from level 2. *)
LEMMA UntfMdireOK ==
  ASSUME NEW t, TreeOK(t), NEW v \in Virt, EmptyOnly(t, 3, At(3, v))
  PROVE  /\ TreeOK(UntfMdire(t, v)) /\ NoneEmpty(UntfMdire(t, v))
         /\ Frame(t, UntfMdire(t, v))
<1> DEFINE u == Untransform(t, 3, At(3, v))
<1>1. 3 \in Table /\ 3 - 1 = 2
  BY DEF Table
<1>2. TreeOK(u) /\ Frame(t, u) /\ EmptyOnly(u, 2, At(2, v))
  BY <1>1, AtFacts, UntransformOK
<1>3. UntfMdire(t, v) = UntfIdire(u, v)
  BY DEF UntfMdire
<1> HIDE DEF u
<1>4. QED
  BY <1>2, <1>3, UntfIdireOK, FrameTrans

(* What an operation as a whole leaves alone. *)
Keeps(t, u) == u.head[0] = t.head[0] /\ Reserve(u) = Reserve(t)

(* An entry of a table that exists. *)
LEMMA SetEntryOK ==
  ASSUME NEW t, TreeOK(t), NEW v \in Virt, NEW x \in Msa \cup {NoPage},
         Have(t, 3, At(3, v)), EmptyOnly(t, 3, At(3, v)),
         NEW u, u = SetMsa(t, v, x)
  PROVE  /\ TreeOK(u) /\ Keeps(t, u)
         /\ u.dire[4] = [t.dire[4] EXCEPT ![v] = x]
         /\ EmptyOnly(u, 3, At(3, v))
         /\ x # NoPage => NoneEmpty(u)
<1>a. TreeType(t) /\ TreeReach(t) /\ TreeOnce(t) /\ TreeFree(t) /\ TreeHead(t)
  BY DEF TreeOK
<1>b. 4 \in DOMAIN t.dire /\ DOMAIN t.dire[4] = Virt /\ Obj[4] = Virt
  BY <1>a DEF TreeType, Level, Virt
<1>1. /\ u = [dire |-> u.dire, head |-> t.head, free |-> t.free]
      /\ DOMAIN u.dire = DOMAIN t.dire
      /\ u.dire[4] = [t.dire[4] EXCEPT ![v] = x]
      /\ \A k \in Table : u.dire[k] = t.dire[k]
  <2>1. t = [dire |-> t.dire, head |-> t.head, free |-> t.free]
    BY <1>a DEF TreeType
  <2>2. u = [dire |-> [t.dire EXCEPT ![4][v] = x], head |-> t.head, free |-> t.free]
    BY <2>1 DEF SetMsa
  <2>3. \A k \in Table : k \in DOMAIN t.dire /\ k # 4
    BY <1>a DEF TreeType, Table, Level
  <2>4. QED
    BY <2>2, <2>3, <1>b
<1>2. u.head = t.head /\ u.free = t.free
  BY <1>1
<1>3. \A w \in Virt : u.dire[4][w] = IF w = v THEN x ELSE t.dire[4][w]
  BY <1>1, <1>b
<1>4. TreeType(u)
  BY <1>1, <1>2, <1>a DEF TreeType
<1>5. TreeReach(u)
  <2> SUFFICES ASSUME NEW l \in 2 .. 4, NEW q \in Obj[l], u.dire[l][q] # NoPage
               PROVE  u.dire[l - 1][up[l][q]] # NoPage
    BY DEF TreeReach
  <2>1. u.dire[l - 1] = t.dire[l - 1]
    BY <1>1 DEF Table
  <2>2. CASE l = 4 /\ q = v
    <3>1. l - 1 = 3 /\ up[l][q] = At(3, v)
      BY <2>2, AtFacts
    <3>2. QED
      BY <3>1, <2>1 DEF Have
  <2>3. CASE ~(l = 4 /\ q = v)
    <3>1. t.dire[l][q] # NoPage
      <4>1. CASE l = 4
        BY <4>1, <2>3, <1>3, <1>b
      <4>2. CASE l # 4
        BY <4>2, <1>1 DEF Table
      <4>3. QED
        BY <4>1, <4>2
    <3>2. QED
      BY <3>1, <2>1, <1>a DEF TreeReach
  <2>4. QED
    BY <2>2, <2>3
<1>6. TreeOnce(u) /\ TreeFree(u) /\ TreeHead(u)
  BY <1>1, <1>2, <1>a DEF TreeOnce, TreeFree, TreeHead
<1>7. Keeps(t, u)
  BY <1>1, <1>2 DEF Keeps, Reserve
<1>8. \A l \in Table : \A q \in Obj[l] :
        AllZero(u, l, q) => AllZero(t, l, q) \/ (l = 3 /\ q = At(3, v))
  <2> SUFFICES ASSUME NEW l \in Table, NEW q \in Obj[l], AllZero(u, l, q),
                      ~(l = 3 /\ q = At(3, v)), NEW c \in Obj[l + 1], up[l + 1][c] = q
               PROVE  t.dire[l + 1][c] = NoPage
    BY DEF AllZero
  <2>1. u.dire[l + 1][c] = NoPage
    BY DEF AllZero
  <2>2. CASE l = 3
    <3>1. l + 1 = 4 /\ c # v
      BY <2>2, AtFacts
    <3>2. QED
      BY <3>1, <2>1, <1>3, <1>b
  <2>3. CASE l # 3
    BY <2>3, <2>1, <1>1 DEF Table
  <2>4. QED
    BY <2>2, <2>3
<1>9. EmptyOnly(u, 3, At(3, v))
  BY <1>8, <1>1 DEF EmptyOnly
<1>10. ASSUME x # NoPage
       PROVE  NoneEmpty(u)
  <2>1. ~AllZero(u, 3, At(3, v))
    <3>1. 3 + 1 = 4 /\ u.dire[4][v] # NoPage /\ up[4][v] = At(3, v)
      BY <1>10, <1>3, AtFacts
    <3>2. QED
      BY <3>1, <1>b DEF AllZero
  <2>2. QED
    BY <2>1, <1>9 DEF EmptyOnly, NoneEmpty
<1>11. QED
  BY <1>1, <1>4, <1>5, <1>6, <1>7, <1>9, <1>10 DEF TreeOK

(* hal_mmu_transform_core: the page is mapped, or nothing is. *)
LEMMA TransformCoreOK ==
  ASSUME NEW t, TreeOK(t), NoneEmpty(t), NEW v \in Virt, NEW p \in Msa
  PROVE  /\ TreeOK(TransformCore(t, v, p)) /\ NoneEmpty(TransformCore(t, v, p))
         /\ Keeps(t, TransformCore(t, v, p))
         /\ \/ TransformCore(t, v, p).dire[4] = t.dire[4]
            \/ TransformCore(t, v, p).dire[4] = [t.dire[4] EXCEPT ![v] = p]
<1> DEFINE s == Transform(t, 1, At(1, v))
           i == Transform(s, 2, At(2, v))
           d == Transform(i, 3, At(3, v))
           e == SetMsa(d, v, p)
           u == TransformCore(t, v, p)
<1>0. /\ 1 \in Table /\ 2 \in Table /\ 3 \in Table
      /\ 1 - 1 = 0 /\ 2 - 1 = 1 /\ 3 - 1 = 2 /\ ~(1 > 1)
  BY DEF Table
<1>a. u = IF ~Have(s, 1, At(1, v)) THEN UntfSdire(s, v)
          ELSE IF ~Have(i, 2, At(2, v)) THEN UntfIdire(i, v)
          ELSE IF ~Have(d, 3, At(3, v)) THEN UntfMdire(d, v)
          ELSE e
  BY DEF TransformCore
<1>1. /\ TreeOK(s) /\ Frame(t, s)
      /\ IF Have(s, 1, At(1, v)) THEN EmptyOnly(s, 1, At(1, v)) ELSE s = t
  BY <1>0, AtFacts, TransformOK, NoneEmptyOnly DEF Parent
<1>b. ASSUME NEW w, TreeOK(w), NoneEmpty(w), Frame(t, w)
      PROVE  Keeps(t, w) /\ w.dire[4] = t.dire[4]
  BY <1>b DEF Frame, Keeps
<1>c. ASSUME NEW w, NoneEmpty(w), NEW k, NEW n
      PROVE  EmptyOnly(w, k, n)
  BY <1>c DEF NoneEmpty, EmptyOnly
<1> HIDE DEF s
<1>2. CASE ~Have(s, 1, At(1, v))
  <2>1. TreeOK(s) /\ EmptyOnly(s, 1, At(1, v)) /\ u = UntfSdire(s, v)
    BY <1>1, <1>2, <1>a, <1>c
  <2>2. TreeOK(u) /\ NoneEmpty(u) /\ Frame(t, u)
    BY <2>1, <1>1, UntfSdireOK, FrameTrans
  <2>3. QED
    BY <2>2, <1>b
<1>3. CASE Have(s, 1, At(1, v))
  <2>1. EmptyOnly(s, 1, At(1, v)) /\ Parent(s, 2, At(2, v))
    BY <1>1, <1>3, <1>0, AtFacts DEF Parent, Have
  <2>2. /\ TreeOK(i) /\ Frame(s, i)
        /\ IF Have(i, 2, At(2, v)) THEN EmptyOnly(i, 2, At(2, v)) ELSE i = s
    BY <2>1, <1>0, <1>1, AtFacts, TransformOK
  <2>3. Frame(t, i)
    BY <2>2, <1>1, FrameTrans
  <2> HIDE DEF i
  <2>4. CASE ~Have(i, 2, At(2, v))
    <3>1. i = s /\ u = UntfIdire(i, v)
      BY <2>2, <2>4, <1>3, <1>a
    <3>2. UntfIdire(i, v) = UntfSdire(i, v)
      BY <2>4 DEF UntfIdire, Untransform
    <3>3. EmptyOnly(i, 1, At(1, v))
      BY <3>1, <2>1
    <3> HIDE DEF u
    <3>4. TreeOK(u) /\ NoneEmpty(u) /\ Frame(t, u)
      BY <3>1, <3>2, <3>3, <2>2, <2>3, UntfSdireOK, FrameTrans
    <3>5. QED
      BY <3>4, <1>b DEF u
  <2>5. CASE Have(i, 2, At(2, v))
    <3>1. EmptyOnly(i, 2, At(2, v)) /\ Parent(i, 3, At(3, v))
      BY <2>2, <2>5, <1>0, AtFacts DEF Parent, Have
    <3>2. /\ TreeOK(d) /\ Frame(i, d)
          /\ IF Have(d, 3, At(3, v)) THEN EmptyOnly(d, 3, At(3, v)) ELSE d = i
      BY <3>1, <1>0, <2>2, AtFacts, TransformOK
    <3>3. Frame(t, d)
      BY <3>2, <2>3, FrameTrans
    <3> HIDE DEF d
    <3>4. CASE ~Have(d, 3, At(3, v))
      <4>1. d = i /\ u = UntfMdire(d, v)
        BY <3>2, <3>4, <2>5, <1>3, <1>a
      <4>2. UntfMdire(d, v) = UntfIdire(d, v)
        BY <3>4 DEF UntfMdire, Untransform
      <4>3. EmptyOnly(d, 2, At(2, v))
        BY <4>1, <3>1
      <4> HIDE DEF u
      <4>4. TreeOK(u) /\ NoneEmpty(u) /\ Frame(t, u)
        BY <4>1, <4>2, <4>3, <3>2, <3>3, UntfIdireOK, FrameTrans
      <4>5. QED
        BY <4>4, <1>b DEF u
    <3>5. CASE Have(d, 3, At(3, v))
      <4>1. u = e
        BY <3>5, <2>5, <1>3, <1>a
      <4>2. EmptyOnly(d, 3, At(3, v)) /\ p \in Msa \cup {NoPage} /\ p # NoPage
        BY <3>2, <3>5, TreeAssumption
      <4>3. e = SetMsa(d, v, p)
        OBVIOUS
      <4> HIDE DEF u, e
      <4>4. /\ TreeOK(e) /\ Keeps(d, e) /\ NoneEmpty(e)
            /\ e.dire[4] = [d.dire[4] EXCEPT ![v] = p]
        BY <4>2, <4>3, <3>2, <3>5, SetEntryOK
      <4>5. Keeps(t, e) /\ d.dire[4] = t.dire[4]
        BY <4>4, <3>3 DEF Keeps, Frame
      <4>6. QED
        BY <4>1, <4>4, <4>5 DEF u
    <3>6. QED
      BY <3>4, <3>5
  <2>6. QED
    BY <2>4, <2>5
<1>4. QED
  BY <1>2, <1>3

(* hal_mmu_untransform_core: nothing is mapped at v any more. *)
LEMMA UntransformCoreOK ==
  ASSUME NEW t, TreeOK(t), NoneEmpty(t), NEW v \in Virt
  PROVE  /\ TreeOK(UntransformCore(t, v)) /\ NoneEmpty(UntransformCore(t, v))
         /\ Keeps(t, UntransformCore(t, v))
         /\ UntransformCore(t, v).dire[4] = [t.dire[4] EXCEPT ![v] = NoPage]
<1> DEFINE d == SetMsa(t, v, NoPage)
           u == UntransformCore(t, v)
<1>0. \A k, n : EmptyOnly(t, k, n)
  BY DEF NoneEmpty, EmptyOnly
<1>1. TreeReach(t) /\ t.dire[4] \in [Virt -> Msa \cup {NoPage}]
  BY DEF TreeOK, TreeType
(* Without the tables on the way nothing is mapped. *)
<1>2. ASSUME t.dire[4][v] # NoPage
      PROVE  Have(t, 3, At(3, v)) /\ Have(t, 2, At(2, v)) /\ Have(t, 1, At(1, v))
  <2>1. 4 - 1 = 3 /\ 3 - 1 = 2 /\ 2 - 1 = 1
    OBVIOUS
  <2>2. t.dire[3][At(3, v)] # NoPage
    BY <1>1, <1>2, <2>1, AtFacts DEF TreeReach, Virt
  <2>3. t.dire[2][At(2, v)] # NoPage
    BY <1>1, <2>2, <2>1, AtFacts DEF TreeReach
  <2>4. t.dire[1][At(1, v)] # NoPage
    BY <1>1, <2>3, <2>1, AtFacts DEF TreeReach
  <2>5. QED
    BY <2>2, <2>3, <2>4 DEF Have
<1>3. ASSUME TreeOK(u), NoneEmpty(u), Frame(t, u), t.dire[4][v] = NoPage
      PROVE  Keeps(t, u) /\ u.dire[4] = [t.dire[4] EXCEPT ![v] = NoPage]
  BY <1>1, <1>3 DEF Frame, Keeps
<1>4. CASE ~Have(t, 1, At(1, v))
  <2>1. u = t /\ Frame(t, t)
    BY <1>4 DEF UntransformCore, Frame
  <2>2. QED
    BY <2>1, <1>2, <1>3, <1>4
<1>5. CASE Have(t, 1, At(1, v)) /\ ~Have(t, 2, At(2, v))
  <2>1. u = UntfSdire(t, v)
    BY <1>5 DEF UntransformCore
  <2> HIDE DEF u
  <2>2. TreeOK(u) /\ NoneEmpty(u) /\ Frame(t, u)
    BY <2>1, <1>0, UntfSdireOK
  <2>3. QED
    BY <2>2, <1>2, <1>3, <1>5 DEF u
<1>6. CASE Have(t, 1, At(1, v)) /\ Have(t, 2, At(2, v)) /\ ~Have(t, 3, At(3, v))
  <2>1. u = UntfIdire(t, v)
    BY <1>6 DEF UntransformCore
  <2> HIDE DEF u
  <2>2. TreeOK(u) /\ NoneEmpty(u) /\ Frame(t, u)
    BY <2>1, <1>0, UntfIdireOK
  <2>3. QED
    BY <2>2, <1>2, <1>3, <1>6 DEF u
<1>7. CASE Have(t, 1, At(1, v)) /\ Have(t, 2, At(2, v)) /\ Have(t, 3, At(3, v))
  <2>1. u = UntfMdire(d, v)
    BY <1>7 DEF UntransformCore
  <2>2. NoPage \in Msa \cup {NoPage} /\ d = SetMsa(t, v, NoPage)
    OBVIOUS
  <2> HIDE DEF u, d
  <2>3. /\ TreeOK(d) /\ Keeps(t, d) /\ EmptyOnly(d, 3, At(3, v))
        /\ d.dire[4] = [t.dire[4] EXCEPT ![v] = NoPage]
    BY <2>2, <1>0, <1>7, SetEntryOK
  <2>4. TreeOK(u) /\ NoneEmpty(u) /\ Frame(d, u)
    BY <2>1, <2>3, UntfMdireOK
  <2>5. Keeps(t, u) /\ u.dire[4] = d.dire[4]
    BY <2>3, <2>4 DEF Keeps, Frame
  <2>6. QED
    BY <2>3, <2>4, <2>5 DEF u
<1>8. QED
  BY <1>4, <1>5, <1>6, <1>7

-----------------------------------------------------------------------------
(* The inductive invariant is all of them together: that an operation      *)
(* keeps the tree of one address space in order takes from Reachable that  *)
(* a new table has nothing below it, and from PagesPartition that the      *)
(* other trees and the root are out of its reach.                          *)
IInv == TypeOK /\ Reachable /\ NoEmptyTable /\ PagesPartition /\ CpuHasTables

(* The pages below the root are the entries that name them. *)
LEMMA PageOfTable ==
  \A m, n : \A k \in Table : PageOf(m, k, n) = dire[m][k][n]
BY DEF PageOf, Table

(* What the invariant says of the tree of one address space. *)
LEMMA TreeOfInv ==
  ASSUME IInv, NEW m \in Mmu
  PROVE  TreeOK(Tree(m)) /\ NoneEmpty(Tree(m))
<1> DEFINE t == Tree(m)
<1>1. t.dire = dire[m] /\ t.head = mud_dirhead[m] /\ t.free = free
  BY DEF Tree
<1>2. t = [dire |-> t.dire, head |-> t.head, free |-> t.free]
  BY DEF Tree
<1> HIDE DEF t
<1>3. TreeType(t)
  BY <1>1, <1>2 DEF IInv, TypeOK, TreeType
<1>4. TreeReach(t)
  BY <1>1 DEF IInv, Reachable, TreeReach, Level
<1>5. TreeOnce(t)
  <2> SUFFICES ASSUME NEW k \in Table, NEW l \in Table, NEW n \in Obj[k], NEW q \in Obj[l],
                      dire[m][k][n] = dire[m][l][q], dire[m][k][n] # NoPage
               PROVE  k = l /\ n = q
    BY <1>1 DEF TreeOnce
  <2>1. k \in 0 .. 3 /\ l \in 0 .. 3
    BY DEF Table
  <2>2. PageOf(m, k, n) = PageOf(m, l, q) /\ PageOf(m, k, n) # NoPage
    BY PageOfTable
  <2>3. QED
    BY <2>1, <2>2 DEF IInv, PagesPartition
<1>6. TreeHead(t)
  <2> SUFFICES ASSUME NEW k \in Table, NEW p \in Page
               PROVE  p \in mud_dirhead[m][k] <=> \E n \in Obj[k] : dire[m][k][n] = p
    BY <1>1 DEF TreeHead
  <2>1. k \in 0 .. 3
    BY DEF Table
  <2>2. p \in mud_dirhead[m][k] <=> \E n \in Obj[k] : PageOf(m, k, n) = p
    BY <2>1 DEF IInv, PagesPartition
  <2>3. QED
    BY <2>2, PageOfTable
<1>7. TreeFree(t)
  <2> SUFFICES ASSUME NEW k \in Table, NEW n \in Obj[k], dire[m][k][n] \in free
               PROVE  FALSE
    BY <1>1 DEF TreeFree
  <2>1. k \in 0 .. 3 /\ dire[m][k][n] \in Page
    BY DEF Table, IInv, TypeOK
  <2>2. dire[m][k][n] \in mud_dirhead[m][k]
    BY <2>1, <1>1, <1>6 DEF TreeHead
  <2>3. QED
    BY <2>1, <2>2 DEF IInv, PagesPartition
<1>8. NoneEmpty(t)
  BY <1>1 DEF IInv, NoEmptyTable, NoneEmpty, t
<1>9. QED
  BY <1>3, <1>4, <1>5, <1>6, <1>7, <1>8 DEF TreeOK, t

(* What the tree of m does not reach: the root, the other address spaces. *)
LEMMA Foreign ==
  ASSUME IInv, NEW m \in Mmu, NEW o \in Mmu, NEW k \in 0 .. 3, NEW n \in Obj[k],
         PageOf(o, k, n) # NoPage, o # m \/ k = 0
  PROVE  PageOf(o, k, n) \notin Reserve(Tree(m))
<1> DEFINE p == PageOf(o, k, n)
<1>1. p \in Page
  BY DEF IInv, TypeOK, PageOf, Table
<1>2. p \notin free
  BY <1>1 DEF IInv, PagesPartition
<1>3. ASSUME NEW l \in Table, NEW q \in Obj[l], dire[m][l][q] = p
      PROVE  FALSE
  <2>1. l \in 0 .. 3 /\ l # 0 /\ PageOf(m, l, q) = p
    BY <1>3, PageOfTable DEF Table
  <2>2. m = o /\ l = k
    BY <2>1 DEF IInv, PagesPartition
  <2>3. QED
    BY <2>1, <2>2
<1>4. QED
  BY <1>2, <1>3 DEF Reserve, Tree

(* An operation on the tree of one address space keeps the invariant. *)
LEMMA SetTreeInv ==
  ASSUME IInv, NEW m \in Mmu, mud_tdirearr[m] # NoPage,
         NEW u, TreeOK(u), NoneEmpty(u), Keeps(Tree(m), u), SetTree(m, u)
  PROVE  IInv'
<1>a. TreeType(u) /\ TreeReach(u) /\ TreeOnce(u) /\ TreeFree(u) /\ TreeHead(u)
  BY DEF TreeOK
<1>b. TypeOK /\ Reachable /\ NoEmptyTable /\ PagesPartition /\ CpuHasTables
  BY DEF IInv
<1>1. /\ DOMAIN dire' = Mmu /\ DOMAIN mud_dirhead' = Mmu
      /\ dire'[m] = u.dire /\ mud_dirhead'[m] = u.head /\ free' = u.free
      /\ \A o \in Mmu : o # m => dire'[o] = dire[o] /\ mud_dirhead'[o] = mud_dirhead[o]
      /\ mud_tdirearr' = mud_tdirearr /\ cr3' = cr3
  BY <1>b DEF SetTree, TypeOK
<1>2. TypeOK'
  <2>1. mud_tdirearr' \in [Mmu -> Page \cup {NoPage}] /\ free' \subseteq Page /\ cr3' \in Mmu
    BY <1>1, <1>a, <1>b DEF TypeOK, TreeType
  <2>2. ASSUME NEW o \in Mmu
        PROVE  /\ DOMAIN dire'[o] = Level
               /\ \A k \in Table : dire'[o][k] \in [Obj[k] -> Page \cup {NoPage}]
               /\ dire'[o][4] \in [Virt -> Msa \cup {NoPage}]
               /\ mud_dirhead'[o] \in [0 .. 3 -> SUBSET Page]
    <3>1. CASE o = m
      BY <3>1, <1>1, <1>a DEF TreeType
    <3>2. CASE o # m
      BY <3>2, <1>1, <1>b DEF TypeOK
    <3>3. QED
      BY <3>1, <3>2
  <2>3. QED
    BY <2>1, <2>2, <1>1 DEF TypeOK
<1>3. Reachable'
  <2> SUFFICES ASSUME NEW o \in Mmu, NEW k \in Level, NEW n \in Obj[k], dire'[o][k][n] # NoPage
               PROVE  IF k = 1 THEN mud_tdirearr'[o] # NoPage
                      ELSE dire'[o][k - 1][up[k][n]] # NoPage
    BY DEF Reachable
  <2>1. CASE o = m
    <3>1. k # 1 => k \in 2 .. 4
      BY DEF Level
    <3>2. QED
      BY <3>1, <2>1, <1>1, <1>a DEF TreeReach
  <2>2. CASE o # m
    BY <2>2, <1>1, <1>b DEF Reachable
  <2>3. QED
    BY <2>1, <2>2
<1>4. NoEmptyTable'
  <2> SUFFICES ASSUME NEW o \in Mmu, NEW k \in Table, NEW n \in Obj[k],
                      dire'[o][k][n] # NoPage
               PROVE  ~AllZero(Tree(o), k, n)'
    BY DEF NoEmptyTable
  <2>1. AllZero(Tree(o), k, n)' <=>
          \A c \in Obj[k + 1] : up[k + 1][c] = n => dire'[o][k + 1][c] = NoPage
    BY DEF AllZero, Tree
  <2>2. CASE o = m
    BY <2>1, <2>2, <1>1 DEF NoneEmpty, AllZero
  <2>3. CASE o # m
    BY <2>1, <2>3, <1>1, <1>b DEF NoEmptyTable, AllZero, Tree
  <2>4. QED
    BY <2>2, <2>3
<1>5. CpuHasTables'
  BY <1>1, <1>b DEF CpuHasTables
(* The pages, old and new. *)
<1>6. \A o \in Mmu : \A k \in 0 .. 3 : \A n \in Obj[k] :
        PageOf(o, k, n)' = IF o = m /\ k # 0 THEN u.dire[k][n] ELSE PageOf(o, k, n)
  BY <1>1 DEF PageOf
<1>7. ASSUME NEW k \in 0 .. 3, NEW n \in Obj[k], k # 0, u.dire[k][n] # NoPage
      PROVE  u.dire[k][n] \in Reserve(Tree(m))
  <2>1. k \in Table
    BY <1>7 DEF Table
  <2>2. u.dire[k][n] \in Page
    BY <2>1, <1>7, <1>a DEF TreeType
  <2>3. QED
    BY <2>1, <2>2 DEF Keeps, Reserve
<1>8. \A o, s \in Mmu : \A k, l \in 0 .. 3 : \A n \in Obj[k], q \in Obj[l] :
        PageOf(o, k, n)' = PageOf(s, l, q)' /\ PageOf(o, k, n)' # NoPage
          => o = s /\ k = l /\ n = q
  <2> SUFFICES ASSUME NEW o \in Mmu, NEW s \in Mmu, NEW k \in 0 .. 3, NEW l \in 0 .. 3,
                      NEW n \in Obj[k], NEW q \in Obj[l],
                      PageOf(o, k, n)' = PageOf(s, l, q)', PageOf(o, k, n)' # NoPage
               PROVE  o = s /\ k = l /\ n = q
    OBVIOUS
  <2>1. CASE (o = m /\ k # 0) /\ (s = m /\ l # 0)
    <3>1. k \in Table /\ l \in Table
      BY <2>1 DEF Table
    <3>2. QED
      BY <2>1, <3>1, <1>6, <1>a DEF TreeOnce
  <2>2. CASE (o = m /\ k # 0) /\ ~(s = m /\ l # 0)
    BY <2>2, <1>6, <1>7, Foreign
  <2>3. CASE ~(o = m /\ k # 0) /\ (s = m /\ l # 0)
    BY <2>3, <1>6, <1>7, Foreign
  <2>4. CASE ~(o = m /\ k # 0) /\ ~(s = m /\ l # 0)
    BY <2>4, <1>6, <1>b DEF PagesPartition
  <2>5. QED
    BY <2>1, <2>2, <2>3, <2>4
<1>9. \A o \in Mmu : \A k \in 0 .. 3 : \A p \in Page :
        p \in mud_dirhead'[o][k] <=> \E n \in Obj[k] : PageOf(o, k, n)' = p
  <2> SUFFICES ASSUME NEW o \in Mmu, NEW k \in 0 .. 3, NEW p \in Page
               PROVE  p \in mud_dirhead'[o][k] <=> \E n \in Obj[k] : PageOf(o, k, n)' = p
    OBVIOUS
  <2>1. CASE o = m /\ k # 0
    <3>1. k \in Table
      BY <2>1 DEF Table
    <3>2. QED
      BY <2>1, <3>1, <1>1, <1>6, <1>a DEF TreeHead
  <2>2. CASE ~(o = m /\ k # 0)
    <3>1. mud_dirhead'[o][k] = mud_dirhead[o][k]
      <4>1. CASE o = m /\ k = 0
        BY <4>1, <1>1 DEF Keeps, Tree
      <4>2. CASE o # m
        BY <4>2, <1>1
      <4>3. QED
        BY <2>2, <4>1, <4>2
    <3>2. QED
      BY <2>2, <3>1, <1>6, <1>b DEF PagesPartition
  <2>3. QED
    BY <2>1, <2>2
<1>10. \A p \in Page : p \in free' <=>
         \A o \in Mmu : \A k \in 0 .. 3 : p \notin mud_dirhead'[o][k]
  <2> SUFFICES ASSUME NEW p \in Page
               PROVE  p \in free' <=> \A o \in Mmu : \A k \in 0 .. 3 : p \notin mud_dirhead'[o][k]
    OBVIOUS
  <2>1. ASSUME p \in free', NEW o \in Mmu, NEW k \in 0 .. 3, p \in mud_dirhead'[o][k]
        PROVE  FALSE
    <3>1. PICK n \in Obj[k] : PageOf(o, k, n)' = p
      BY <2>1, <1>9
    <3>2. p \in Reserve(Tree(m)) /\ p # NoPage
      BY <2>1, <1>1, TreeAssumption DEF Keeps, Reserve
    <3>3. CASE o = m /\ k # 0
      <4>1. k \in Table
        BY <3>3 DEF Table
      <4>2. QED
        BY <4>1, <3>1, <3>3, <2>1, <1>1, <1>6, <1>a DEF TreeFree
    <3>4. CASE ~(o = m /\ k # 0)
      BY <3>4, <3>1, <3>2, <1>6, Foreign
    <3>5. QED
      BY <3>3, <3>4
  <2>2. ASSUME p \notin free', \A o \in Mmu : \A k \in 0 .. 3 : p \notin mud_dirhead'[o][k]
        PROVE  FALSE
    <3>1. p \notin Reserve(u)
      <4> SUFFICES ASSUME NEW k \in Table, NEW n \in Obj[k], u.dire[k][n] = p
                   PROVE  FALSE
        BY <2>2, <1>1 DEF Reserve
      <4>1. p \in u.head[k] /\ k \in 0 .. 3
        BY <1>a DEF TreeHead, Table
      <4>2. QED
        BY <4>1, <2>2, <1>1
    <3>2. p \notin Reserve(Tree(m))
      BY <3>1 DEF Keeps
    <3>3. p \notin free
      BY <3>2 DEF Reserve, Tree
    <3>4. PICK o \in Mmu, k \in 0 .. 3 : p \in mud_dirhead[o][k]
      BY <3>3, <1>b DEF PagesPartition
    <3>5. PICK n \in Obj[k] : PageOf(o, k, n) = p
      BY <3>4, <1>b DEF PagesPartition
    <3>6. CASE o = m /\ k # 0
      <4>1. k \in Table /\ dire[m][k][n] = p
        BY <3>5, <3>6 DEF Table, PageOf
      <4>2. QED
        BY <4>1, <3>2 DEF Reserve, Tree
    <3>7. CASE ~(o = m /\ k # 0)
      BY <3>5, <3>7, <1>6, <1>9, <2>2
    <3>8. QED
      BY <3>6, <3>7
  <2>3. QED
    BY <2>1, <2>2
<1>11. PagesPartition'
  BY <1>8, <1>9, <1>10 DEF PagesPartition
<1>12. QED
  BY <1>2, <1>3, <1>4, <1>5, <1>11 DEF IInv

(* At boot there is one root, with no entry for programs. *)
LEMMA InitInv == Init => IInv
<1> SUFFICES ASSUME Init
             PROVE  IInv
  OBVIOUS
<1>1. PICK f \in Page :
        /\ mud_tdirearr = [m \in Mmu |-> IF m = Initmm THEN f ELSE NoPage]
        /\ mud_dirhead = [m \in Mmu |-> [NoPages EXCEPT ![0] = IF m = Initmm THEN {f} ELSE {}]]
        /\ free = Page \ {f}
  BY TreeAssumption DEF Init
<1>2. \A m \in Mmu, k \in 0 .. 3 :
        mud_dirhead[m][k] = IF m = Initmm /\ k = 0 THEN {f} ELSE {}
  BY <1>1 DEF NoPages
<1>3. \A m \in Mmu : \A k \in Level : \A n \in Obj[k] : dire[m][k][n] = NoPage
  BY DEF Init, NoEntries, NoEntry
<1>4. f # NoPage /\ Initmm \in Mmu /\ mud_tdirearr[Initmm] = f
  BY <1>1, TreeAssumption
<1>5. \A m \in Mmu : \A k \in 0 .. 3 : \A n \in Obj[k] :
        PageOf(m, k, n) = IF m = Initmm /\ k = 0 THEN f ELSE NoPage
  BY <1>1, <1>3 DEF PageOf, Level
<1>6. TypeOK
  <2>1. \A m \in Mmu : mud_dirhead[m] \in [0 .. 3 -> SUBSET Page]
    BY <1>1 DEF NoPages
  <2>2. \A m \in Mmu : DOMAIN dire[m] = Level /\ \A k \in Level : dire[m][k] = NoEntry(k)
    BY DEF Init, NoEntries
  <2>3. \A m \in Mmu : \A k \in Table : dire[m][k] \in [Obj[k] -> Page \cup {NoPage}]
    BY <2>2 DEF NoEntry, Table, Level
  <2>4. \A m \in Mmu : dire[m][4] \in [Virt -> Msa \cup {NoPage}]
    <3>1. NoEntry(4) = [n \in Virt |-> NoPage] /\ 4 \in Level
      BY DEF NoEntry, Virt, Level
    <3>2. \A m \in Mmu : dire[m][4] = [n \in Virt |-> NoPage]
      BY <2>2, <3>1
    <3>3. QED
      BY <3>2
  <2>5. DOMAIN dire = Mmu /\ DOMAIN mud_dirhead = Mmu /\ cr3 = Initmm
    BY DEF Init
  <2>6. QED
    BY <2>1, <2>2, <2>3, <2>4, <2>5, <1>1, <1>4 DEF TypeOK
<1>7. Reachable
  BY <1>3 DEF Reachable
<1>8. NoEmptyTable
  BY <1>3 DEF NoEmptyTable, Table, Level
<1>9. PagesPartition
  <2>1. \E r : Obj[0] = {r}
    BY TreeAssumption
  <2>2. \A p \in Page : p \in free <=> \A m \in Mmu, k \in 0 .. 3 : p \notin mud_dirhead[m][k]
    BY <1>1, <1>2, <1>4
  <2>3. \A m \in Mmu : \A k \in 0 .. 3 : \A p \in Page :
          p \in mud_dirhead[m][k] <=> \E n \in Obj[k] : PageOf(m, k, n) = p
    BY <1>2, <1>5, <2>1, TreeAssumption
  <2>4. \A m, o \in Mmu : \A k, l \in 0 .. 3 : \A n \in Obj[k], q \in Obj[l] :
          PageOf(m, k, n) = PageOf(o, l, q) /\ PageOf(m, k, n) # NoPage
            => m = o /\ k = l /\ n = q
    BY <1>4, <1>5, <2>1
  <2>5. QED
    BY <2>2, <2>3, <2>4 DEF PagesPartition
<1>10. CpuHasTables
  BY <1>4 DEF CpuHasTables, Init
<1>11. QED
  BY <1>6, <1>7, <1>8, <1>9, <1>10 DEF IInv

(* An address space that does not exist has no entries and no pages. *)
LEMMA Absent ==
  ASSUME IInv, NEW m \in Mmu, mud_tdirearr[m] = NoPage
  PROVE  /\ \A k \in Level : \A n \in Obj[k] : dire[m][k][n] = NoPage
         /\ \A k \in 0 .. 3 : mud_dirhead[m][k] = {}
<1>1. /\ 1 \in Level /\ 2 \in Level /\ 3 \in Level /\ 4 \in Level
      /\ 2 - 1 = 1 /\ 3 - 1 = 2 /\ 4 - 1 = 3
  BY DEF Level
<1>2. \A n \in Obj[1] : dire[m][1][n] = NoPage
  BY <1>1 DEF IInv, Reachable
<1>3. \A n \in Obj[2] : dire[m][2][n] = NoPage
  BY <1>1, <1>2, UpType DEF IInv, Reachable
<1>4. \A n \in Obj[3] : dire[m][3][n] = NoPage
  BY <1>1, <1>3, UpType DEF IInv, Reachable
<1>5. \A n \in Obj[4] : dire[m][4][n] = NoPage
  BY <1>1, <1>4, UpType DEF IInv, Reachable
<1>6. \A k \in Level : \A n \in Obj[k] : dire[m][k][n] = NoPage
  BY <1>2, <1>3, <1>4, <1>5 DEF Level
<1>7. \A k \in 0 .. 3 : mud_dirhead[m][k] = {}
  <2> SUFFICES ASSUME NEW k \in 0 .. 3, NEW p \in mud_dirhead[m][k]
               PROVE  FALSE
    OBVIOUS
  <2>1. p \in Page /\ p # NoPage
    BY TreeAssumption DEF IInv, TypeOK
  <2>2. PICK n \in Obj[k] : PageOf(m, k, n) = p
    BY <2>1 DEF IInv, PagesPartition
  <2>3. QED
    BY <2>1, <2>2, <1>6 DEF PageOf, Level
<1>8. QED
  BY <1>6, <1>7

(* hal_mmu_init: one page more in use, as the root of m. *)
LEMMA MmuInitInv ==
  ASSUME IInv, NEW m \in Mmu, MmuInit(m)
  PROVE  /\ IInv' /\ cr3' = cr3 /\ mud_tdirearr[m] = NoPage
         /\ \A o \in Mmu : \A k \in Level : dire'[o][k] = dire[o][k]
         /\ mud_tdirearr'[m] # NoPage
         /\ \A o \in Mmu : o # m => mud_tdirearr'[o] = mud_tdirearr[o]
<1>b. TypeOK /\ Reachable /\ NoEmptyTable /\ PagesPartition /\ CpuHasTables
  BY DEF IInv
<1>0. mud_tdirearr[m] = NoPage
  BY DEF MmuInit
<1>1. PICK f \in free :
        /\ mud_tdirearr' = [mud_tdirearr EXCEPT ![m] = f]
        /\ mud_dirhead' = [mud_dirhead EXCEPT ![m][0] = @ \cup {f}]
        /\ free' = free \ {f}
        /\ cr3' = cr3
        /\ dire' = [dire EXCEPT ![m][1] = NoEntry(1)]
  BY DEF MmuInit, RootEntries
<1>2. f \in Page /\ f # NoPage
  BY <1>b, TreeAssumption DEF TypeOK
<1>3. /\ mud_tdirearr'[m] = f
      /\ \A o \in Mmu : o # m => mud_tdirearr'[o] = mud_tdirearr[o]
  BY <1>1, <1>b DEF TypeOK
<1>4. \A o \in Mmu : DOMAIN dire'[o] = Level /\ \A k \in Level : dire'[o][k] = dire[o][k]
  <2>0. \A o \in Mmu : DOMAIN dire'[o] = Level
    BY <1>1, <1>b DEF TypeOK
  <2> SUFFICES ASSUME NEW o \in Mmu, NEW k \in Level
               PROVE  dire'[o][k] = dire[o][k]
    BY <2>0
  <2>1. CASE o = m /\ k = 1
    <3>1. \A n \in Obj[1] : dire[m][1][n] = NoPage
      BY <1>0, Absent DEF Level
    <3>2. dire[m][1] \in [Obj[1] -> Page \cup {NoPage}]
      BY <1>b DEF TypeOK, Table
    <3>3. dire[m][1] = NoEntry(1)
      BY <3>1, <3>2 DEF NoEntry
    <3>4. QED
      BY <2>1, <3>3, <1>1, <1>b DEF TypeOK
  <2>2. CASE ~(o = m /\ k = 1)
    BY <2>2, <1>1, <1>b DEF TypeOK
  <2>3. QED
    BY <2>1, <2>2
<1>5. /\ DOMAIN dire' = Mmu /\ DOMAIN mud_dirhead' = Mmu
      /\ \A o \in Mmu : \A k \in 0 .. 3 :
           mud_dirhead'[o][k] = IF o = m /\ k = 0 THEN {f} ELSE mud_dirhead[o][k]
  <2>1. mud_dirhead[m][0] = {}
    BY <1>0, Absent
  <2>2. QED
    BY <2>1, <1>1, <1>b DEF TypeOK
<1>6. TypeOK'
  <2>1. mud_tdirearr' \in [Mmu -> Page \cup {NoPage}] /\ free' \subseteq Page /\ cr3' \in Mmu
    BY <1>1, <1>2, <1>b DEF TypeOK
  <2>2. \A o \in Mmu : \A k \in Table : dire'[o][k] \in [Obj[k] -> Page \cup {NoPage}]
    BY <1>4, <1>b DEF TypeOK, Table, Level
  <2>3. \A o \in Mmu : dire'[o][4] \in [Virt -> Msa \cup {NoPage}]
    BY <1>4, <1>b DEF TypeOK, Level
  <2>4. \A o \in Mmu : mud_dirhead'[o] \in [0 .. 3 -> SUBSET Page]
    BY <1>1, <1>2, <1>b DEF TypeOK
  <2>5. QED
    BY <2>1, <2>2, <2>3, <2>4, <1>4, <1>5 DEF TypeOK
<1>7. Reachable'
  <2> SUFFICES ASSUME NEW o \in Mmu, NEW k \in Level, NEW n \in Obj[k], dire'[o][k][n] # NoPage
               PROVE  IF k = 1 THEN mud_tdirearr'[o] # NoPage
                      ELSE dire'[o][k - 1][up[k][n]] # NoPage
    BY DEF Reachable
  <2>1. k # 1 => k - 1 \in Level
    BY DEF Level
  <2>2. IF k = 1 THEN mud_tdirearr[o] # NoPage ELSE dire[o][k - 1][up[k][n]] # NoPage
    BY <1>4, <1>b DEF Reachable
  <2>3. QED
    BY <2>1, <2>2, <1>2, <1>3, <1>4
<1>8. NoEmptyTable'
  <2> SUFFICES ASSUME NEW o \in Mmu, NEW k \in Table, NEW n \in Obj[k],
                      dire'[o][k][n] # NoPage
               PROVE  ~AllZero(Tree(o), k, n)'
    BY DEF NoEmptyTable
  <2>1. k \in Level /\ k + 1 \in Level
    BY DEF Table, Level
  <2>2. ~AllZero(Tree(o), k, n)
    BY <2>1, <1>4, <1>b DEF NoEmptyTable
  <2>3. QED
    BY <2>1, <2>2, <1>4 DEF AllZero, Tree
<1>9. \A o \in Mmu : \A k \in 0 .. 3 : \A n \in Obj[k] :
        /\ PageOf(o, k, n)' = IF o = m /\ k = 0 THEN f ELSE PageOf(o, k, n)
        /\ PageOf(o, k, n) # f
  <2> SUFFICES ASSUME NEW o \in Mmu, NEW k \in 0 .. 3, NEW n \in Obj[k]
               PROVE  /\ PageOf(o, k, n)' = IF o = m /\ k = 0 THEN f ELSE PageOf(o, k, n)
                      /\ PageOf(o, k, n) # f
    OBVIOUS
  <2>1. PageOf(o, k, n) # f
    BY <1>2, <1>b DEF PagesPartition
  <2>2. k # 0 => k \in Level
    BY DEF Level
  <2>3. QED
    BY <2>1, <2>2, <1>3, <1>4 DEF PageOf
<1>10. PagesPartition'
  <2>0. \E r : Obj[0] = {r}
    BY TreeAssumption
  <2>1. \A p \in Page : p \in free' <=>
          \A o \in Mmu, k \in 0 .. 3 : p \notin mud_dirhead'[o][k]
    <3> SUFFICES ASSUME NEW p \in Page
                 PROVE  p \in free' <=> \A o \in Mmu, k \in 0 .. 3 : p \notin mud_dirhead'[o][k]
      OBVIOUS
    <3>1. p \in free <=> \A o \in Mmu, k \in 0 .. 3 : p \notin mud_dirhead[o][k]
      BY <1>b DEF PagesPartition
    <3>2. mud_dirhead[m][0] = {}
      BY <1>0, Absent
    <3>3. QED
      BY <3>1, <3>2, <1>1, <1>5
  <2>2. \A o \in Mmu : \A k \in 0 .. 3 : \A p \in Page :
          p \in mud_dirhead'[o][k] <=> \E n \in Obj[k] : PageOf(o, k, n)' = p
    <3> SUFFICES ASSUME NEW o \in Mmu, NEW k \in 0 .. 3, NEW p \in Page
                 PROVE  p \in mud_dirhead'[o][k] <=> \E n \in Obj[k] : PageOf(o, k, n)' = p
      OBVIOUS
    <3>1. CASE o = m /\ k = 0
      BY <3>1, <2>0, <1>5, <1>9
    <3>2. CASE ~(o = m /\ k = 0)
      BY <3>2, <1>5, <1>9, <1>b DEF PagesPartition
    <3>3. QED
      BY <3>1, <3>2
  <2>3. \A o, s \in Mmu : \A k, l \in 0 .. 3 : \A n \in Obj[k], q \in Obj[l] :
          PageOf(o, k, n)' = PageOf(s, l, q)' /\ PageOf(o, k, n)' # NoPage
            => o = s /\ k = l /\ n = q
    <3> SUFFICES ASSUME NEW o \in Mmu, NEW s \in Mmu, NEW k \in 0 .. 3, NEW l \in 0 .. 3,
                        NEW n \in Obj[k], NEW q \in Obj[l],
                        PageOf(o, k, n)' = PageOf(s, l, q)', PageOf(o, k, n)' # NoPage
                 PROVE  o = s /\ k = l /\ n = q
      OBVIOUS
    <3>1. CASE o = m /\ k = 0
      BY <3>1, <2>0, <1>9
    <3>2. CASE ~(o = m /\ k = 0)
      BY <3>2, <1>9, <1>b DEF PagesPartition
    <3>3. QED
      BY <3>1, <3>2
  <2>4. QED
    BY <2>1, <2>2, <2>3 DEF PagesPartition
<1>11. CpuHasTables'
  BY <1>1, <1>2, <1>3, <1>b DEF CpuHasTables, TypeOK
<1>12. QED
  BY <1>0, <1>1, <1>2, <1>3, <1>6, <1>7, <1>8, <1>10, <1>11, <1>4 DEF IInv

(* hal_mmu_clean: the pages of m are free, and m is as if it never was. *)
LEMMA MmuCleanInv ==
  ASSUME IInv, NEW m \in Mmu, MmuClean(m)
  PROVE  /\ IInv' /\ cr3' = cr3 /\ cr3 # m
         /\ \A v \in Virt : dire'[m][4][v] = NoPage
         /\ \A o \in Mmu : o # m => dire'[o] = dire[o]
         /\ mud_tdirearr[m] # NoPage /\ mud_tdirearr'[m] = NoPage
         /\ \A o \in Mmu : o # m => mud_tdirearr'[o] = mud_tdirearr[o]
<1>b. TypeOK /\ Reachable /\ NoEmptyTable /\ PagesPartition /\ CpuHasTables
  BY DEF IInv
<1>1. /\ mud_tdirearr[m] # NoPage /\ cr3 # m /\ cr3' = cr3
      /\ free' = free \cup UNION {mud_dirhead[m][k] : k \in 0 .. 3}
      /\ mud_tdirearr'[m] = NoPage
      /\ \A o \in Mmu : o # m => mud_tdirearr'[o] = mud_tdirearr[o]
      /\ mud_tdirearr' \in [Mmu -> Page \cup {NoPage}]
  BY <1>b DEF MmuClean, InUse, TypeOK
<1>2. /\ DOMAIN dire' = Mmu /\ dire'[m] = NoEntries
      /\ \A o \in Mmu : o # m => dire'[o] = dire[o]
      /\ DOMAIN mud_dirhead' = Mmu /\ mud_dirhead'[m] = NoPages
      /\ \A o \in Mmu : o # m => mud_dirhead'[o] = mud_dirhead[o]
  BY <1>b DEF MmuClean, TypeOK
<1>3. /\ DOMAIN NoEntries = Level
      /\ \A k \in Level : NoEntries[k] = [n \in Obj[k] |-> NoPage]
      /\ \A k \in Level : \A n \in Obj[k] : NoEntries[k][n] = NoPage
  BY DEF NoEntries, NoEntry
<1>4. \A k \in 0 .. 3 : mud_dirhead[m][k] \subseteq Page /\ NoPages[k] = {}
  BY <1>b DEF TypeOK, NoPages
<1>5. TypeOK'
  <2>1. free' \subseteq Page /\ cr3' \in Mmu
    BY <1>1, <1>4, <1>b DEF TypeOK
  <2>2. NoPages \in [0 .. 3 -> SUBSET Page]
    BY DEF NoPages
  <2>3. \A k \in Table : NoEntries[k] \in [Obj[k] -> Page \cup {NoPage}]
    BY <1>3 DEF Table, Level
  <2>4. NoEntries[4] \in [Virt -> Msa \cup {NoPage}]
    <3>1. 4 \in Level /\ Obj[4] = Virt
      BY DEF Level, Virt
    <3>2. NoEntries[4] = [v \in Virt |-> NoPage]
      BY <3>1, <1>3
    <3>3. QED
      BY <3>2
  <2>5. ASSUME NEW o \in Mmu
        PROVE  /\ DOMAIN dire'[o] = Level
               /\ \A k \in Table : dire'[o][k] \in [Obj[k] -> Page \cup {NoPage}]
               /\ dire'[o][4] \in [Virt -> Msa \cup {NoPage}]
               /\ mud_dirhead'[o] \in [0 .. 3 -> SUBSET Page]
    <3>1. CASE o = m
      BY <3>1, <1>2, <1>3, <2>2, <2>3, <2>4
    <3>2. CASE o # m
      BY <3>2, <1>2, <1>b DEF TypeOK
    <3>3. QED
      BY <3>1, <3>2
  <2>6. QED
    BY <2>1, <2>5, <1>1, <1>2 DEF TypeOK
<1>6. Reachable'
  BY <1>1, <1>2, <1>3, <1>b DEF Reachable
<1>7. NoEmptyTable'
  <2> SUFFICES ASSUME NEW o \in Mmu, NEW k \in Table, NEW n \in Obj[k],
                      dire'[o][k][n] # NoPage
               PROVE  ~AllZero(Tree(o), k, n)'
    BY DEF NoEmptyTable
  <2>1. o # m
    BY <1>2, <1>3 DEF Table, Level
  <2>2. QED
    BY <2>1, <1>2, <1>b DEF NoEmptyTable, AllZero, Tree
<1>8. \A o \in Mmu : \A k \in 0 .. 3 : \A n \in Obj[k] :
        PageOf(o, k, n)' = IF o = m THEN NoPage ELSE PageOf(o, k, n)
  BY <1>1, <1>2, <1>3 DEF PageOf, Level
<1>9. PagesPartition'
  <2>1. \A p \in Page : p \in free' <=>
          \A o \in Mmu, k \in 0 .. 3 : p \notin mud_dirhead'[o][k]
    <3> SUFFICES ASSUME NEW p \in Page
                 PROVE  p \in free' <=> \A o \in Mmu, k \in 0 .. 3 : p \notin mud_dirhead'[o][k]
      OBVIOUS
    <3>1. p \in free' <=> p \in free \/ \E k \in 0 .. 3 : p \in mud_dirhead[m][k]
      BY <1>1
    <3>2. p \in free <=> \A o \in Mmu, k \in 0 .. 3 : p \notin mud_dirhead[o][k]
      BY <1>b DEF PagesPartition
    <3>3. ASSUME NEW o \in Mmu, NEW k \in 0 .. 3, NEW l \in 0 .. 3, o # m,
                 p \in mud_dirhead[o][k], p \in mud_dirhead[m][l]
          PROVE  FALSE
      <4>1. p # NoPage
        BY TreeAssumption
      <4>2. PICK n \in Obj[k] : PageOf(o, k, n) = p
        BY <3>3, <1>b DEF PagesPartition
      <4>3. PICK q \in Obj[l] : PageOf(m, l, q) = p
        BY <3>3, <1>b DEF PagesPartition
      <4>4. QED
        BY <4>1, <4>2, <4>3, <3>3, <1>b DEF PagesPartition
    <3>4. QED
      BY <3>1, <3>2, <3>3, <1>2, <1>4
  <2>2. \A o \in Mmu : \A k \in 0 .. 3 : \A p \in Page :
          p \in mud_dirhead'[o][k] <=> \E n \in Obj[k] : PageOf(o, k, n)' = p
    <3> SUFFICES ASSUME NEW o \in Mmu, NEW k \in 0 .. 3, NEW p \in Page
                 PROVE  p \in mud_dirhead'[o][k] <=> \E n \in Obj[k] : PageOf(o, k, n)' = p
      OBVIOUS
    <3>1. p # NoPage
      BY TreeAssumption
    <3>2. CASE o = m
      BY <3>1, <3>2, <1>2, <1>4, <1>8
    <3>3. CASE o # m
      BY <3>3, <1>2, <1>8, <1>b DEF PagesPartition
    <3>4. QED
      BY <3>2, <3>3
  <2>3. \A o, s \in Mmu : \A k, l \in 0 .. 3 : \A n \in Obj[k], q \in Obj[l] :
          PageOf(o, k, n)' = PageOf(s, l, q)' /\ PageOf(o, k, n)' # NoPage
            => o = s /\ k = l /\ n = q
    BY <1>8, <1>b DEF PagesPartition
  <2>4. QED
    BY <2>1, <2>2, <2>3 DEF PagesPartition
<1>10. CpuHasTables'
  BY <1>1, <1>b DEF CpuHasTables, TypeOK
<1>11. \A v \in Virt : dire'[m][4][v] = NoPage
  BY <1>2, <1>3 DEF Virt, Level
<1>12. QED
  BY <1>1, <1>2, <1>5, <1>6, <1>7, <1>9, <1>10, <1>11 DEF IInv

(* hal_mmu_load *)
LEMMA MmuLoadInv ==
  ASSUME IInv, NEW m \in Mmu, MmuLoad(m)
  PROVE  IInv'
<1>1. UNCHANGED <<mud_tdirearr, dire, mud_dirhead, free>> /\ cr3' = m /\ mud_tdirearr[m] # NoPage
  BY DEF MmuLoad
<1>2. TypeOK'
  BY <1>1 DEF IInv, TypeOK
<1>3. Reachable' /\ PagesPartition'
  BY <1>1 DEF IInv, Reachable, PagesPartition, PageOf
<1>4. NoEmptyTable'
  BY <1>1 DEF IInv, NoEmptyTable, AllZero, Tree
<1>5. CpuHasTables'
  BY <1>1 DEF CpuHasTables
<1>6. QED
  BY <1>2, <1>3, <1>4, <1>5 DEF IInv

(* hal_mmu_transform and hal_mmu_untransform: one virtual page of one      *)
(* address space.                                                          *)
LEMMA MmuTransformInv ==
  ASSUME IInv, NEW m \in Mmu, NEW v \in Virt, NEW p \in Msa, MmuTransform(m, v, p)
  PROVE  /\ IInv' /\ mud_tdirearr' = mud_tdirearr /\ cr3' = cr3
         /\ mud_tdirearr[m] # NoPage
         /\ \A o \in Mmu : o # m => dire'[o] = dire[o]
         /\ \/ dire'[m][4] = dire[m][4]
            \/ dire'[m][4] = [dire[m][4] EXCEPT ![v] = p]
<1> DEFINE u == TransformCore(Tree(m), v, p)
<1>1. mud_tdirearr[m] # NoPage /\ SetTree(m, u)
  BY DEF MmuTransform
<1>2. TreeOK(Tree(m)) /\ NoneEmpty(Tree(m))
  BY TreeOfInv
<1>3. /\ TreeOK(u) /\ NoneEmpty(u) /\ Keeps(Tree(m), u)
      /\ u.dire[4] = Tree(m).dire[4] \/ u.dire[4] = [Tree(m).dire[4] EXCEPT ![v] = p]
  BY <1>2, TransformCoreOK
<1>4. Tree(m).dire = dire[m]
  BY DEF Tree
<1> HIDE DEF u
<1>5. IInv'
  BY <1>1, <1>3, SetTreeInv
<1>6. /\ mud_tdirearr' = mud_tdirearr /\ cr3' = cr3
      /\ dire'[m] = u.dire /\ \A o \in Mmu : o # m => dire'[o] = dire[o]
  BY <1>1 DEF SetTree, IInv, TypeOK
<1>7. QED
  BY <1>1, <1>3, <1>4, <1>5, <1>6

(* The same for the removal of an entry. *)
LEMMA MmuUntransformInv ==
  ASSUME IInv, NEW m \in Mmu, NEW v \in Virt, MmuUntransform(m, v)
  PROVE  /\ IInv' /\ mud_tdirearr' = mud_tdirearr /\ cr3' = cr3
         /\ mud_tdirearr[m] # NoPage
         /\ \A o \in Mmu : o # m => dire'[o] = dire[o]
         /\ dire'[m][4] = [dire[m][4] EXCEPT ![v] = NoPage]
<1> DEFINE u == UntransformCore(Tree(m), v)
<1>1. mud_tdirearr[m] # NoPage /\ SetTree(m, u)
  BY DEF MmuUntransform
<1>2. TreeOK(Tree(m)) /\ NoneEmpty(Tree(m))
  BY TreeOfInv
<1>3. /\ TreeOK(u) /\ NoneEmpty(u) /\ Keeps(Tree(m), u)
      /\ u.dire[4] = [Tree(m).dire[4] EXCEPT ![v] = NoPage]
  BY <1>2, UntransformCoreOK
<1>4. Tree(m).dire = dire[m]
  BY DEF Tree
<1> HIDE DEF u
<1>5. IInv'
  BY <1>1, <1>3, SetTreeInv
<1>6. /\ mud_tdirearr' = mud_tdirearr /\ cr3' = cr3
      /\ dire'[m] = u.dire /\ \A o \in Mmu : o # m => dire'[o] = dire[o]
  BY <1>1 DEF SetTree, IInv, TypeOK
<1>7. QED
  BY <1>1, <1>3, <1>4, <1>5, <1>6

(* Every operation keeps the invariant. *)
LEMMA NextInv == IInv /\ [Next]_vars => IInv'
<1> SUFFICES ASSUME IInv, [Next]_vars
             PROVE  IInv'
  OBVIOUS
<1>1. ASSUME NEW m \in Mmu, MmuInit(m)
      PROVE  IInv'
  BY <1>1, MmuInitInv
<1>2. ASSUME NEW m \in Mmu, NEW v \in Virt, NEW p \in Msa, MmuTransform(m, v, p)
      PROVE  IInv'
  BY <1>2, MmuTransformInv
<1>3. ASSUME NEW m \in Mmu, NEW v \in Virt, MmuUntransform(m, v)
      PROVE  IInv'
  BY <1>3, MmuUntransformInv
<1>4. ASSUME NEW m \in Mmu, MmuLoad(m)
      PROVE  IInv'
  BY <1>4, MmuLoadInv
<1>5. ASSUME NEW m \in Mmu, MmuClean(m)
      PROVE  IInv'
  BY <1>5, MmuCleanInv
<1>6. CASE UNCHANGED vars
  BY <1>6 DEF vars, IInv, TypeOK, Reachable, NoEmptyTable, AllZero, Tree,
              PagesPartition, PageOf, CpuHasTables
<1>7. QED
  BY <1>1, <1>2, <1>3, <1>4, <1>5, <1>6 DEF Next

-----------------------------------------------------------------------------
(* The invariant of every behaviour. *)
THEOREM IInvAlways == Spec => []IInv
<1>1. Init => IInv
  BY InitInv
<1>2. IInv /\ [Next]_vars => IInv'
  BY NextInv
<1>3. QED
  BY <1>1, <1>2, PTL DEF Spec

(* Every variable of PageTable has its type. *)
THEOREM TypeCorrect == Spec => []TypeOK
<1>1. IInv => TypeOK
  BY DEF IInv
<1>2. QED
  BY <1>1, IInvAlways, PTL

(* Above every entry there are its tables, up to the root. *)
THEOREM AlwaysReachable == Spec => []Reachable
<1>1. IInv => Reachable
  BY DEF IInv
<1>2. QED
  BY <1>1, IInvAlways, PTL

(* hal_mmu_transform and hal_mmu_untransform leave no empty table behind,  *)
(* also when there is no page for the next one.                            *)
THEOREM NeverEmptyTable == Spec => []NoEmptyTable
<1>1. IInv => NoEmptyTable
  BY DEF IInv
<1>2. QED
  BY <1>1, IInvAlways, PTL

(* Table pages are never shared, lost or left out of the lists by which    *)
(* hal_mmu_clean frees them.                                               *)
THEOREM PagesKept == Spec => []PagesPartition
<1>1. IInv => PagesPartition
  BY DEF IInv
<1>2. QED
  BY <1>1, IInvAlways, PTL

(* hal_mmu_clean never frees the tables that cr3 names. *)
THEOREM CpuSafe == Spec => []CpuHasTables
<1>1. IInv => CpuHasTables
  BY DEF IInv
<1>2. QED
  BY <1>1, IInvAlways, PTL

(* The walk of the processor ends at the last entry: either the tables     *)
(* above it exist or it is zero.                                           *)
LEMMA WalkIs ==
  ASSUME IInv, NEW m \in Mmu, NEW v \in Virt
  PROVE  Walk(m, v) = dire[m][4][v]
<1>1. /\ 1 \in Level /\ 2 \in Level /\ 3 \in Level /\ 4 \in Level
      /\ 2 - 1 = 1 /\ 3 - 1 = 2 /\ 4 - 1 = 3
  BY DEF Level
<1>2. CASE dire[m][4][v] = NoPage
  BY <1>2 DEF Walk
<1>3. CASE dire[m][4][v] # NoPage
  <2>1. dire[m][3][At(3, v)] # NoPage
    BY <1>1, <1>3, AtFacts DEF IInv, Reachable, Virt
  <2>2. dire[m][2][At(2, v)] # NoPage
    BY <1>1, <2>1, AtFacts DEF IInv, Reachable
  <2>3. dire[m][1][At(1, v)] # NoPage
    BY <1>1, <2>2, AtFacts DEF IInv, Reachable
  <2>4. mud_tdirearr[m] # NoPage
    BY <1>1, <2>3, AtFacts DEF IInv, Reachable
  <2>5. \A k \in Table : dire[m][k][At(k, v)] # NoPage
    BY <2>1, <2>2, <2>3 DEF Table
  <2>6. QED
    BY <2>4, <2>5 DEF Walk
<1>4. QED
  BY <1>2, <1>3

(* The two variables that PageMap sees through the tables. *)
MapOf  == [m \in Mmu |-> [v \in Virt |-> Walk(m, v)]]
LiveOf == {m \in Mmu : mud_tdirearr[m] # NoPage}

(* In a state of the invariant, the map is what the mdirearrs hold ... *)
LEMMA MapIs == IInv => MapOf = [m \in Mmu |-> [v \in Virt |-> dire[m][4][v]]]
BY WalkIs DEF MapOf
(* ... and so it is in the next one. *)
LEMMA MapIsNext == (IInv => MapOf = [m \in Mmu |-> [v \in Virt |-> dire[m][4][v]]])'
BY MapIs, PTL

(* The first state of PageTable is the first state of PageMap. *)
LEMMA AbstractInit == Init => AbstractMap!Init
<1> SUFFICES ASSUME Init
             PROVE  AbstractMap!Init
  OBVIOUS
<1>1. IInv
  BY InitInv
<1>2. \A m \in Mmu : \A v \in Virt : dire[m][4][v] = NoPage
  BY DEF Init, NoEntries, NoEntry, Virt, Level
<1>3. MapOf = [m \in Mmu |-> [v \in Virt |-> NoPage]]
  BY <1>1, <1>2, MapIs
<1>4. LiveOf = {Initmm}
  <2>1. PICK f \in Page : mud_tdirearr = [m \in Mmu |-> IF m = Initmm THEN f ELSE NoPage]
    BY TreeAssumption DEF Init
  <2>2. QED
    BY <2>1, TreeAssumption DEF LiveOf
<1>5. cr3 = Initmm
  BY DEF Init
<1>6. QED
  BY <1>3, <1>4, <1>5 DEF AbstractMap!Init, AbstractMap!Nowhere, MapOf, LiveOf

(* A step of PageTable is a step of PageMap or changes nothing it sees. *)
LEMMA AbstractStep == IInv /\ IInv' /\ [Next]_vars => [AbstractMap!Next]_(AbstractMap!vars)
<1> SUFFICES ASSUME IInv, IInv', [Next]_vars
             PROVE  AbstractMap!Next \/ UNCHANGED <<MapOf, LiveOf, cr3>>
  BY DEF AbstractMap!vars, MapOf, LiveOf
<1>a. /\ MapOf = [o \in Mmu |-> [v \in Virt |-> dire[o][4][v]]]
      /\ MapOf' = [o \in Mmu |-> [v \in Virt |-> dire'[o][4][v]]]
  <2>1. (IInv => MapOf = [o \in Mmu |-> [v \in Virt |-> dire[o][4][v]]])'
    BY MapIsNext
  <2>2. QED
    BY <2>1, MapIs
<1>b. LiveOf' = {o \in Mmu : mud_tdirearr'[o] # NoPage}
  BY DEF LiveOf
(* A change of one entry is a step Set. *)
<1>c. ASSUME NEW m \in Mmu, NEW v \in Virt, NEW x \in Msa \cup {NoPage},
             mud_tdirearr[m] # NoPage, mud_tdirearr' = mud_tdirearr, cr3' = cr3,
             \A o \in Mmu : o # m => dire'[o] = dire[o],
             dire'[m][4] = [dire[m][4] EXCEPT ![v] = x]
      PROVE  AbstractMap!Next
  <2>1. dire[m][4] \in [Virt -> Msa \cup {NoPage}]
    BY DEF IInv, TypeOK
  <2>2. \A w \in Virt : dire'[m][4][w] = IF w = v THEN x ELSE dire[m][4][w]
    BY <2>1, <1>c
  <2>3. MapOf' = [MapOf EXCEPT ![m][v] = x]
    <3>1. [w \in Virt |-> dire'[m][4][w]] = [[w \in Virt |-> dire[m][4][w]] EXCEPT ![v] = x]
      BY <2>2
    <3>2. MapOf' = [o \in Mmu |-> IF o = m THEN [MapOf[m] EXCEPT ![v] = x] ELSE MapOf[o]]
      BY <3>1, <1>a, <1>c
    <3>3. QED
      BY <3>2, <1>a
  <2>4. m \in LiveOf /\ LiveOf' = LiveOf
    BY <1>b, <1>c DEF LiveOf
  <2>5. AbstractMap!Set(m, v, x)
    BY <2>3, <2>4, <1>c DEF AbstractMap!Set, MapOf, LiveOf
  <2>6. QED
    BY <2>5 DEF AbstractMap!Next
<1>1. ASSUME NEW m \in Mmu, MmuInit(m)
      PROVE  AbstractMap!Next
  <2>1. /\ cr3' = cr3 /\ mud_tdirearr[m] = NoPage
        /\ \A o \in Mmu : \A k \in Level : dire'[o][k] = dire[o][k]
        /\ mud_tdirearr'[m] # NoPage
        /\ \A o \in Mmu : o # m => mud_tdirearr'[o] = mud_tdirearr[o]
    BY <1>1, MmuInitInv
  <2>2. MapOf' = MapOf
    BY <1>a, <2>1 DEF Level
  <2>3. m \notin LiveOf /\ LiveOf' = LiveOf \cup {m}
    BY <1>b, <2>1 DEF LiveOf
  <2>4. AbstractMap!New(m)
    BY <2>1, <2>2, <2>3 DEF AbstractMap!New, MapOf, LiveOf
  <2>5. QED
    BY <2>4 DEF AbstractMap!Next
<1>2. ASSUME NEW m \in Mmu, NEW v \in Virt, NEW p \in Msa, MmuTransform(m, v, p)
      PROVE  AbstractMap!Next \/ UNCHANGED <<MapOf, LiveOf, cr3>>
  <2>1. /\ mud_tdirearr' = mud_tdirearr /\ cr3' = cr3 /\ mud_tdirearr[m] # NoPage
        /\ \A o \in Mmu : o # m => dire'[o] = dire[o]
        /\ dire'[m][4] = dire[m][4] \/ dire'[m][4] = [dire[m][4] EXCEPT ![v] = p]
    BY <1>2, MmuTransformInv
  <2>2. CASE dire'[m][4] = dire[m][4]
    <3>1. MapOf' = MapOf
      BY <1>a, <2>1, <2>2
    <3>2. LiveOf' = LiveOf
      BY <1>b, <2>1 DEF LiveOf
    <3>3. QED
      BY <3>1, <3>2, <2>1
  <2>3. CASE dire'[m][4] = [dire[m][4] EXCEPT ![v] = p]
    BY <2>1, <2>3, <1>c
  <2>4. QED
    BY <2>1, <2>2, <2>3
<1>3. ASSUME NEW m \in Mmu, NEW v \in Virt, MmuUntransform(m, v)
      PROVE  AbstractMap!Next
  BY <1>3, <1>c, MmuUntransformInv
<1>4. ASSUME NEW m \in Mmu, MmuLoad(m)
      PROVE  AbstractMap!Next
  <2>1. /\ UNCHANGED <<mud_tdirearr, dire>> /\ cr3' = m /\ mud_tdirearr[m] # NoPage
    BY <1>4 DEF MmuLoad
  <2>2. MapOf' = MapOf /\ LiveOf' = LiveOf /\ m \in LiveOf
    BY <1>a, <1>b, <2>1 DEF LiveOf
  <2>3. AbstractMap!Load(m)
    BY <2>1, <2>2 DEF AbstractMap!Load, MapOf, LiveOf
  <2>4. QED
    BY <2>3 DEF AbstractMap!Next
<1>5. ASSUME NEW m \in Mmu, MmuClean(m)
      PROVE  AbstractMap!Next
  <2>1. /\ cr3' = cr3 /\ cr3 # m
        /\ \A v \in Virt : dire'[m][4][v] = NoPage
        /\ \A o \in Mmu : o # m => dire'[o] = dire[o]
        /\ mud_tdirearr[m] # NoPage /\ mud_tdirearr'[m] = NoPage
        /\ \A o \in Mmu : o # m => mud_tdirearr'[o] = mud_tdirearr[o]
    BY <1>5, MmuCleanInv
  <2>2. MapOf' = [MapOf EXCEPT ![m] = [v \in Virt |-> NoPage]]
    BY <1>a, <2>1
  <2>3. m \in LiveOf \ {cr3} /\ LiveOf' = LiveOf \ {m}
    BY <1>b, <2>1 DEF LiveOf
  <2>4. AbstractMap!Drop(m)
    BY <2>1, <2>2, <2>3 DEF AbstractMap!Drop, AbstractMap!Nowhere, MapOf, LiveOf
  <2>5. QED
    BY <2>4 DEF AbstractMap!Next
<1>6. CASE UNCHANGED vars
  BY <1>6, <1>a, <1>b DEF vars, LiveOf
<1>7. QED
  BY <1>1, <1>2, <1>3, <1>4, <1>5, <1>6 DEF Next

(* What the processor finds through the tables of hal/x86/halmmu.c is what *)
(* PageMap promises.                                                       *)
THEOREM PageTableImplements == Spec => ImplementsPageMap
<1>1. Init => AbstractMap!Init
  BY AbstractInit
<1>2. IInv /\ IInv' /\ [Next]_vars => [AbstractMap!Next]_(AbstractMap!vars)
  BY AbstractStep
<1>3. QED
  BY <1>1, <1>2, IInvAlways, PTL DEF Spec, ImplementsPageMap, AbstractMap!Spec
=============================================================================
