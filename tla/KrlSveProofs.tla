----------------------------- MODULE KrlSveProofs -----------------------------
(***************************************************************************)
(* Handles, object nodes and use counts agree, for every set of threads,   *)
(* devices and nodes, any size of the handle table, and every interleaving *)
(* of the steps of the services.                                           *)
(***************************************************************************)
EXTENDS KrlSve, FiniteSetTheorems, TLAPS

-----------------------------------------------------------------------------
(* The inductive invariant.                                                *)

TypeOK ==
  /\ td_handtbl \in [Thread -> [Hand -> Node \cup {NULL}]]
  /\ on_objadr \in [Node -> Device \cup {NULL}]
  /\ dev_count \in [Device -> Int]
  /\ kb_buff \in Nat /\ kb_sem \in Nat /\ keys \in Nat
  /\ pc \in [Thread -> Pcs]
  /\ ondp \in [Thread -> Node \cup {NULL}]
  /\ hand \in [Thread -> Hand]
  /\ buf \in [Thread -> Nat \X Nat]

Opening(t, n) == pc[t] = "op_hand" /\ ondp[t] = n
Holds(t, h, n) == td_handtbl[t][h] = n

(* A node that is in use is in one place, and a node in a place is in use. *)
PlaceInv ==
  /\ \A t \in Thread : pc[t] = "op_hand" => ondp[t] \in Node
  /\ \A t \in Thread, n \in Node : Opening(t, n) => on_objadr[n] # NULL
  /\ \A t, u \in Thread, n \in Node : Opening(t, n) /\ Opening(u, n) => t = u
  /\ \A t \in Thread, h \in Hand, n \in Node : Holds(t, h, n) =>
       /\ on_objadr[n] # NULL
       /\ \A u \in Thread : ~Opening(u, n)
       /\ \A u \in Thread, i \in Hand : Holds(u, i, n) => u = t /\ i = h
  /\ \A n \in Node : on_objadr[n] # NULL =>
       \/ \E t \in Thread : Opening(t, n)
       \/ \E t \in Thread, h \in Hand : Holds(t, h, n)

(* Between the steps of a service its thread has the node of its handle.   *)
HandInv ==
  \A t \in Thread : pc[t] \in {"op_dev", "cl_check", "cl_dec", "cl_del"} =>
    ondp[t] \in Node /\ Holds(t, hand[t], ondp[t])

(* Does the count of device d include this handle?                         *)
InCount(t, h, d) ==
  /\ td_handtbl[t][h] # NULL
  /\ on_objadr[td_handtbl[t][h]] = d
  /\ ~(pc[t] \in {"op_dev", "cl_del"} /\ hand[t] = h)

CountInv ==
  \A d \in Device : IsFiniteSet(Counted(d)) /\ dev_count[d] = Cardinality(Counted(d))

IInv == TypeOK /\ PlaceInv /\ HandInv /\ CountInv

-----------------------------------------------------------------------------
LEMMA CountedIs ==
  ASSUME NEW d
  PROVE  /\ Counted(d) = {s \in Thread \X Hand : InCount(s[1], s[2], d)}
         /\ Counted(d)' = {s \in Thread \X Hand : InCount(s[1], s[2], d)'}
BY DEF Counted, Slots, InCount

LEMMA HandFacts == Hand # {} /\ NULL \notin Node /\ NULL \notin Device /\ KBD \in Device
BY KrlSveAssumption DEF Hand

(* What the counts include is the same, then so are the counts.            *)
LEMMA CountKept ==
  ASSUME CountInv, UNCHANGED dev_count,
         \A t \in Thread, h \in Hand, d \in Device : InCount(t, h, d)' <=> InCount(t, h, d)
  PROVE  CountInv'
<1>1. ASSUME NEW d \in Device PROVE Counted(d)' = Counted(d)
  <2>1. \A s \in Thread \X Hand : InCount(s[1], s[2], d)' <=> InCount(s[1], s[2], d)
    OBVIOUS
  <2>2. Counted(d)' = {s \in Thread \X Hand : InCount(s[1], s[2], d)'}
    BY CountedIs
  <2> QED BY <2>1, <2>2, CountedIs
<1> QED BY <1>1 DEF CountInv

LEMMA OpenStep ==
  ASSUME IInv, NEW t \in Thread, NEW d \in Device, Open(t, d)
  PROVE  IInv'
<1>0. PICK n \in Node : /\ on_objadr[n] = NULL
                        /\ on_objadr' = [on_objadr EXCEPT ![n] = d]
                        /\ ondp' = [ondp EXCEPT ![t] = n]
  BY DEF Open
<1>1. /\ pc[t] = "user" /\ pc' = [pc EXCEPT ![t] = "op_hand"]
      /\ UNCHANGED <<td_handtbl, dev_count, kb, hand, buf>>
  BY DEF Open, Goto
<1>2. TypeOK'
  BY <1>0, <1>1 DEF IInv, TypeOK, Pcs, kb
<1>3. PlaceInv'
  <2>1. /\ \A u \in Thread : pc'[u] = IF u = t THEN "op_hand" ELSE pc[u]
        /\ \A u \in Thread : ondp'[u] = IF u = t THEN n ELSE ondp[u]
        /\ \A m \in Node : on_objadr'[m] = IF m = n THEN d ELSE on_objadr[m]
    BY <1>0, <1>1 DEF IInv, TypeOK
  <2> QED BY <1>0, <1>1, <2>1, HandFacts DEF IInv, PlaceInv, Opening, Holds
<1>4. HandInv'
  BY <1>0, <1>1 DEF IInv, TypeOK, HandInv, Holds
<1>5. CountInv'
  <2>1. ASSUME NEW u \in Thread, NEW h \in Hand, NEW e \in Device
        PROVE  InCount(u, h, e)' <=> InCount(u, h, e)
    <3>1. td_handtbl[u][h] # n
      BY <1>0 DEF IInv, PlaceInv, Holds
    <3> QED BY <1>0, <1>1, <3>1 DEF IInv, TypeOK, InCount
  <2> QED BY <1>1, <2>1, CountKept DEF IInv
<1> QED BY <1>2, <1>3, <1>4, <1>5 DEF IInv

LEMMA OpenHandStep ==
  ASSUME IInv, NEW t \in Thread, OpenHand(t)
  PROVE  IInv'
<1>0. /\ pc[t] = "op_hand" /\ ondp[t] \in Node /\ on_objadr[ondp[t]] # NULL
      /\ UNCHANGED <<dev_count, kb, buf>>
  BY DEF OpenHand, IInv, PlaceInv, Opening
<1> DEFINE n == ondp[t]
<1>1. CASE /\ on_objadr' = [on_objadr EXCEPT ![n] = NULL]
           /\ ondp' = [ondp EXCEPT ![t] = NULL]
           /\ Goto(t, "user")
           /\ UNCHANGED <<td_handtbl, hand>>
  <2>1. TypeOK'
    BY <1>0, <1>1 DEF IInv, TypeOK, Pcs, kb, Goto
  <2>2. PlaceInv'
    <3>1. /\ \A u \in Thread : pc'[u] = IF u = t THEN "user" ELSE pc[u]
          /\ \A u \in Thread : ondp'[u] = IF u = t THEN NULL ELSE ondp[u]
          /\ \A m \in Node : on_objadr'[m] = IF m = n THEN NULL ELSE on_objadr[m]
      BY <1>0, <1>1 DEF IInv, TypeOK, Goto
    <3> QED BY <1>0, <1>1, <3>1, HandFacts DEF IInv, PlaceInv, Opening, Holds
  <2>3. HandInv'
    BY <1>0, <1>1 DEF IInv, TypeOK, HandInv, Holds, Goto
  <2>4. CountInv'
    <3>1. ASSUME NEW u \in Thread, NEW h \in Hand, NEW e \in Device
          PROVE  InCount(u, h, e)' <=> InCount(u, h, e)
      <4>1. td_handtbl[u][h] # n
        BY <1>0 DEF IInv, PlaceInv, Holds, Opening
      <4> QED BY <1>0, <1>1, <4>1 DEF IInv, TypeOK, InCount, Goto
    <3> QED BY <1>0, <3>1, CountKept DEF IInv
  <2> QED BY <2>1, <2>2, <2>3, <2>4 DEF IInv
<1>2. ASSUME NEW h \in Unused(t),
             td_handtbl' = [td_handtbl EXCEPT ![t][h] = n],
             hand' = [hand EXCEPT ![t] = h],
             Goto(t, "op_dev"),
             UNCHANGED <<on_objadr, ondp>>
      PROVE  IInv'
  <2>0. h \in Hand /\ td_handtbl[t][h] = NULL
    BY DEF Unused
  <2>1. TypeOK'
    BY <1>0, <1>2, <2>0 DEF IInv, TypeOK, Pcs, kb, Goto
  <2>2. \A u \in Thread, i \in Hand : td_handtbl'[u][i] = IF u = t /\ i = h THEN n ELSE td_handtbl[u][i]
    BY <1>2, <2>0 DEF IInv, TypeOK
  <2>3. \A u \in Thread : pc'[u] = IF u = t THEN "op_dev" ELSE pc[u]
    BY <1>2 DEF IInv, TypeOK, Goto
  <2>4. PlaceInv'
    BY <1>0, <1>2, <2>0, <2>2, <2>3, HandFacts DEF IInv, PlaceInv, Opening, Holds
  <2>5. HandInv'
    BY <1>0, <1>2, <2>0, <2>2, <2>3 DEF IInv, TypeOK, HandInv, Holds
  <2>6. CountInv'
    <3>1. ASSUME NEW u \in Thread, NEW i \in Hand, NEW e \in Device
          PROVE  InCount(u, i, e)' <=> InCount(u, i, e)
      <4>1. hand'[u] = IF u = t THEN h ELSE hand[u]
        BY <1>2 DEF IInv, TypeOK
      <4> QED BY <1>0, <1>2, <2>0, <2>2, <2>3, <4>1 DEF InCount
    <3> QED BY <1>0, <3>1, CountKept DEF IInv
  <2> QED BY <2>1, <2>4, <2>5, <2>6 DEF IInv
<1> QED BY <1>1, <1>2 DEF OpenHand

(* A thread at a step of a service that works on the handle of its node. *)
LEMMA HandOf ==
  ASSUME IInv, NEW t \in Thread, pc[t] \in {"op_dev", "cl_check", "cl_dec", "cl_del"}
  PROVE  /\ ondp[t] \in Node /\ hand[t] \in Hand /\ td_handtbl[t][hand[t]] = ondp[t]
         /\ ondp[t] # NULL /\ on_objadr[ondp[t]] \in Device
BY HandFacts DEF IInv, HandInv, PlaceInv, TypeOK, Holds

LEMMA OpenDevStep ==
  ASSUME IInv, NEW t \in Thread, OpenDev(t)
  PROVE  IInv'
<1>0. /\ pc[t] = "op_dev" /\ pc' = [pc EXCEPT ![t] = "user"]
      /\ ondp' = [ondp EXCEPT ![t] = NULL]
      /\ dev_count' = [dev_count EXCEPT ![on_objadr[ondp[t]]] = @ + 1]
      /\ UNCHANGED <<td_handtbl, on_objadr, kb, hand, buf>>
  BY DEF OpenDev, Goto
<1>1. /\ ondp[t] \in Node /\ hand[t] \in Hand /\ td_handtbl[t][hand[t]] = ondp[t]
      /\ ondp[t] # NULL /\ on_objadr[ondp[t]] \in Device
  BY <1>0, HandOf
<1>2. TypeOK'
  BY <1>0, <1>1 DEF IInv, TypeOK, Pcs, kb
<1>3. PlaceInv'
  BY <1>0 DEF IInv, TypeOK, PlaceInv, Opening, Holds
<1>4. HandInv'
  BY <1>0 DEF IInv, TypeOK, HandInv, Holds
<1>5. CountInv'
  <2> SUFFICES ASSUME NEW d \in Device
               PROVE  (IsFiniteSet(Counted(d)) /\ dev_count[d] = Cardinality(Counted(d)))'
    BY DEF CountInv
  <2> DEFINE x == <<t, hand[t]>>
  <2>1. Counted(d)' = IF d = on_objadr[ondp[t]] THEN Counted(d) \cup {x} ELSE Counted(d)
    <3>1. \A s \in Thread \X Hand :
            InCount(s[1], s[2], d)' <=> InCount(s[1], s[2], d) \/ (s = x /\ d = on_objadr[ondp[t]])
      BY <1>0, <1>1 DEF IInv, TypeOK, InCount
    <3>2. Counted(d)' = {s \in Thread \X Hand : InCount(s[1], s[2], d)'}
      BY CountedIs
    <3> QED BY <1>1, <3>1, <3>2, CountedIs
  <2>2. x \notin Counted(d)
    BY <1>0, CountedIs DEF InCount
  <2>3. IsFiniteSet(Counted(d)) /\ dev_count[d] = Cardinality(Counted(d))
    BY DEF IInv, CountInv
  <2>4. dev_count'[d] = IF d = on_objadr[ondp[t]] THEN dev_count[d] + 1 ELSE dev_count[d]
    BY <1>0, <1>1 DEF IInv, TypeOK
  <2>5. /\ IsFiniteSet(Counted(d) \cup {x})
        /\ Cardinality(Counted(d) \cup {x}) = Cardinality(Counted(d)) + 1
    BY <2>2, <2>3, FS_AddElement
  <2> QED BY <2>1, <2>3, <2>4, <2>5
<1> QED BY <1>2, <1>3, <1>4, <1>5 DEF IInv

(* The first step of a close puts the node of the handle into its hands.   *)
LEMMA CloseStep ==
  ASSUME IInv, NEW t \in Thread, NEW h \in Hand, Close(t, h)
  PROVE  IInv'
<1>0. /\ pc[t] = "user" /\ pc' = [pc EXCEPT ![t] = "cl_check"]
      /\ td_handtbl[t][h] # NULL
      /\ ondp' = [ondp EXCEPT ![t] = td_handtbl[t][h]]
      /\ hand' = [hand EXCEPT ![t] = h]
      /\ UNCHANGED <<td_handtbl, on_objadr, dev_count, kb, buf>>
  BY DEF Close, Goto, sve
<1>1. td_handtbl[t][h] \in Node
  BY <1>0 DEF IInv, TypeOK
<1>2. TypeOK'
  BY <1>0, <1>1 DEF IInv, TypeOK, Pcs, kb
<1>3. PlaceInv'
  BY <1>0, <1>1 DEF IInv, TypeOK, PlaceInv, Opening, Holds
<1>4. HandInv'
  BY <1>0, <1>1 DEF IInv, TypeOK, HandInv, Holds
<1>5. CountInv'
  BY <1>0, CountKept DEF IInv, TypeOK, InCount
<1> QED BY <1>2, <1>3, <1>4, <1>5 DEF IInv

(* A handle that is being closed is still counted, so the count is not 0.  *)
LEMMA CountCovers ==
  ASSUME IInv, NEW t \in Thread, pc[t] \in {"cl_check", "cl_dec"}
  PROVE  /\ <<t, hand[t]>> \in Counted(on_objadr[ondp[t]])
         /\ dev_count[on_objadr[ondp[t]]] >= 1
<1>1. /\ hand[t] \in Hand /\ td_handtbl[t][hand[t]] = ondp[t]
      /\ ondp[t] # NULL /\ on_objadr[ondp[t]] \in Device
  BY HandOf
<1> DEFINE C == Counted(on_objadr[ondp[t]])
<1>2. <<t, hand[t]>> \in C
  BY <1>1, CountedIs DEF InCount
<1>3. IsFiniteSet(C) /\ dev_count[on_objadr[ondp[t]]] = Cardinality(C)
  BY <1>1 DEF IInv, CountInv
<1>4. Cardinality(C) \in Nat /\ Cardinality(C) # 0
  BY <1>2, <1>3, FS_EmptySet, FS_CardinalityType
<1> QED BY <1>2, <1>3, <1>4

LEMMA CloseCheckStep ==
  ASSUME IInv, NEW t \in Thread, CloseCheck(t)
  PROVE  IInv'
<1>0. /\ pc[t] = "cl_check" /\ pc' = [pc EXCEPT ![t] = "cl_dec"]
      /\ UNCHANGED <<td_handtbl, on_objadr, dev_count, kb, ondp, hand, buf>>
  <2>1. pc[t] = "cl_check" /\ dev_count[on_objadr[ondp[t]]] \in Int
    BY HandOf DEF CloseCheck, IInv, TypeOK
  <2>2. pc[t] \in {"cl_check", "cl_dec"}
    BY <2>1
  <2>3. dev_count[on_objadr[ondp[t]]] >= 1
    BY <2>2, CountCovers
  <2>4. ~(dev_count[on_objadr[ondp[t]]] < 1)
    BY <2>1, <2>3
  <2> QED BY <2>1, <2>4 DEF CloseCheck, Goto, sve
<1>1. TypeOK'
  BY <1>0 DEF IInv, TypeOK, Pcs, kb
<1>2. PlaceInv'
  BY <1>0 DEF IInv, TypeOK, PlaceInv, Opening, Holds
<1>3. HandInv'
  BY <1>0 DEF IInv, TypeOK, HandInv, Holds
<1>4. CountInv'
  BY <1>0, CountKept DEF IInv, TypeOK, InCount
<1> QED BY <1>1, <1>2, <1>3, <1>4 DEF IInv

LEMMA CloseDecStep ==
  ASSUME IInv, NEW t \in Thread, CloseDec(t)
  PROVE  IInv'
<1>0. /\ pc[t] = "cl_dec" /\ pc' = [pc EXCEPT ![t] = "cl_del"]
      /\ dev_count' = [dev_count EXCEPT ![on_objadr[ondp[t]]] = @ - 1]
      /\ UNCHANGED <<td_handtbl, on_objadr, kb, ondp, hand, buf>>
  BY DEF CloseDec, Goto
<1>1. /\ ondp[t] \in Node /\ hand[t] \in Hand /\ td_handtbl[t][hand[t]] = ondp[t]
      /\ ondp[t] # NULL /\ on_objadr[ondp[t]] \in Device
  BY <1>0, HandOf
<1>2. TypeOK'
  BY <1>0, <1>1 DEF IInv, TypeOK, Pcs, kb
<1>3. PlaceInv'
  <2>1. \A u \in Thread : pc'[u] = "op_hand" <=> pc[u] = "op_hand"
    BY <1>0 DEF IInv, TypeOK
  <2> QED BY <1>0, <2>1 DEF IInv, PlaceInv, Opening, Holds
<1>4. HandInv'
  BY <1>0 DEF IInv, TypeOK, HandInv, Holds
<1>5. CountInv'
  <2> SUFFICES ASSUME NEW d \in Device
               PROVE  (IsFiniteSet(Counted(d)) /\ dev_count[d] = Cardinality(Counted(d)))'
    BY DEF CountInv
  <2> DEFINE x == <<t, hand[t]>>
  <2>1. Counted(d)' = IF d = on_objadr[ondp[t]] THEN Counted(d) \ {x} ELSE Counted(d)
    <3>1. \A s \in Thread \X Hand :
            InCount(s[1], s[2], d)' <=> InCount(s[1], s[2], d) /\ (s # x \/ d # on_objadr[ondp[t]])
      BY <1>0, <1>1 DEF IInv, TypeOK, InCount
    <3> QED BY <1>1, <3>1, CountedIs
  <2>2. d = on_objadr[ondp[t]] => x \in Counted(d)
    BY <1>0, CountCovers
  <2>3. IsFiniteSet(Counted(d)) /\ dev_count[d] = Cardinality(Counted(d))
    BY DEF IInv, CountInv
  <2>4. dev_count'[d] = IF d = on_objadr[ondp[t]] THEN dev_count[d] - 1 ELSE dev_count[d]
    BY <1>0, <1>1 DEF IInv, TypeOK
  <2>5. /\ IsFiniteSet(Counted(d) \ {x})
        /\ x \in Counted(d) => Cardinality(Counted(d) \ {x}) = Cardinality(Counted(d)) - 1
    BY <2>3, FS_RemoveElement
  <2> QED BY <2>1, <2>2, <2>3, <2>4, <2>5
<1> QED BY <1>2, <1>3, <1>4, <1>5 DEF IInv

LEMMA CloseDelStep ==
  ASSUME IInv, NEW t \in Thread, CloseDel(t)
  PROVE  IInv'
<1>0. /\ pc[t] = "cl_del" /\ pc' = [pc EXCEPT ![t] = "user"]
      /\ td_handtbl' = [td_handtbl EXCEPT ![t][hand[t]] = NULL]
      /\ on_objadr' = [on_objadr EXCEPT ![ondp[t]] = NULL]
      /\ ondp' = [ondp EXCEPT ![t] = NULL]
      /\ UNCHANGED <<dev_count, kb, hand, buf>>
  BY DEF CloseDel, Goto, Released
<1>1. /\ ondp[t] \in Node /\ hand[t] \in Hand /\ td_handtbl[t][hand[t]] = ondp[t]
      /\ ondp[t] # NULL /\ on_objadr[ondp[t]] \in Device
  BY <1>0, HandOf
<1>2. TypeOK'
  BY <1>0, <1>1 DEF IInv, TypeOK, Pcs, kb
<1>3. /\ \A u \in Thread : pc'[u] = IF u = t THEN "user" ELSE pc[u]
      /\ \A u \in Thread : ondp'[u] = IF u = t THEN NULL ELSE ondp[u]
      /\ \A m \in Node : on_objadr'[m] = IF m = ondp[t] THEN NULL ELSE on_objadr[m]
      /\ \A u \in Thread, i \in Hand :
           td_handtbl'[u][i] = IF u = t /\ i = hand[t] THEN NULL ELSE td_handtbl[u][i]
  BY <1>0, <1>1 DEF IInv, TypeOK
<1>4. \A u \in Thread, i \in Hand : td_handtbl'[u][i] # ondp[t]
  BY <1>1, <1>3 DEF IInv, PlaceInv, Holds
<1>5. PlaceInv'
  BY <1>0, <1>1, <1>3, <1>4, HandFacts DEF IInv, PlaceInv, Opening, Holds
<1>6. HandInv'
  BY <1>0, <1>1, <1>3, <1>4 DEF IInv, PlaceInv, HandInv, Holds
<1>7. CountInv'
  BY <1>0, <1>1, <1>3, <1>4, CountKept DEF IInv, TypeOK, InCount
<1> QED BY <1>2, <1>5, <1>6, <1>7 DEF IInv

(* The steps that touch neither handles nor nodes nor counts.              *)
LEMMA OtherStep ==
  ASSUME IInv, NEW t \in Thread, UNCHANGED <<td_handtbl, on_objadr, dev_count, ondp, hand>>,
         TypeOK',
         \/ UNCHANGED pc
         \/ \E l \in Pcs \ {"op_hand", "op_dev", "cl_check", "cl_dec", "cl_del"} :
              Goto(t, l) /\ pc[t] \notin {"op_hand", "op_dev", "cl_check", "cl_dec", "cl_del"}
  PROVE  IInv'
<1>1. \A u \in Thread : pc'[u] = pc[u] \/ {pc'[u], pc[u]} \cap {"op_hand", "op_dev", "cl_check", "cl_dec", "cl_del"} = {}
  BY DEF IInv, TypeOK, Goto
<1>2. PlaceInv'
  <2>1. \A u \in Thread : pc'[u] = "op_hand" <=> pc[u] = "op_hand"
    BY <1>1
  <2> QED BY <2>1 DEF IInv, PlaceInv, Opening, Holds
<1>3. HandInv'
  BY <1>1 DEF IInv, HandInv, Holds
<1>4. CountInv'
  BY <1>1, CountKept DEF IInv, InCount
<1> QED BY <1>2, <1>3, <1>4 DEF IInv

LEMMA InitInv == Init => IInv
<1> SUFFICES ASSUME Init PROVE IInv
  OBVIOUS
<1>1. TypeOK
  BY KrlSveAssumption DEF Init, TypeOK, Pcs, Hand
<1>2. PlaceInv /\ HandInv
  BY HandFacts DEF Init, PlaceInv, HandInv, Opening, Holds
<1>3. \A d \in Device : Counted(d) = {}
  BY DEF Init, Counted, Slots
<1>4. CountInv
  BY <1>3, FS_EmptySet DEF Init, CountInv
<1> QED BY <1>1, <1>2, <1>4 DEF IInv

LEMMA Inductive == IInv /\ [Next]_vars => IInv'
<1> SUFFICES ASSUME IInv, [Next]_vars PROVE IInv'
  OBVIOUS
<1> USE DEF Goto
<1>1. ASSUME NEW t \in Thread, NEW d \in Device, Open(t, d) PROVE IInv'
  BY <1>1, OpenStep
<1>2. ASSUME NEW t \in Thread, NEW h \in Hand, Close(t, h) PROVE IInv'
  BY <1>2, CloseStep
<1>3. ASSUME NEW t \in Thread, NEW h \in Hand, Read(t, h) PROVE IInv'
  <2>1. TypeOK'
    BY <1>3 DEF Read, IInv, TypeOK, Pcs, sve, kb
  <2> QED BY <1>3, <2>1, OtherStep DEF Read, sve, Pcs
<1>4. ASSUME NEW t \in Thread, Exit(t) PROVE IInv'
  <2>1. TypeOK'
    BY <1>4 DEF Exit, IInv, TypeOK, Pcs, sve, kb
  <2> QED BY <1>4, <2>1, OtherStep DEF Exit, sve, Pcs
<1>5. ASSUME NEW t \in Thread, Step(t) PROVE IInv'
  <2>1. CASE ReadDown(t)
    <3>1. TypeOK'
      BY <2>1 DEF ReadDown, IInv, TypeOK, Pcs, sve
    <3> QED BY <2>1, <3>1, OtherStep DEF ReadDown, sve, Pcs
  <2>2. CASE ReadFirst(t)
    <3>1. TypeOK'
      BY <2>2 DEF ReadFirst, KeyRead, IInv, TypeOK, Pcs, sve, kb
    <3> QED BY <2>2, <3>1, OtherStep DEF ReadFirst, sve, Pcs
  <2>3. CASE ReadRest(t)
    <3>1. TypeOK'
      BY <2>3 DEF ReadRest, KeyRead, IInv, TypeOK, Pcs, sve, kb
    <3> QED BY <2>3, <3>1, OtherStep DEF ReadRest, sve, Pcs
  <2> QED BY <1>5, <2>1, <2>2, <2>3, OpenHandStep, OpenDevStep, CloseCheckStep,
             CloseDecStep, CloseDelStep DEF Step
<1>6. ASSUME KeyIrq PROVE IInv'
  <2>1. TypeOK'
    BY <1>6 DEF KeyIrq, KbdWriteScan, IInv, TypeOK, sve
  <2>2. PlaceInv' /\ HandInv'
    BY <1>6 DEF KeyIrq, IInv, PlaceInv, HandInv, Opening, Holds, sve
  <2>3. CountInv'
    BY <1>6, CountKept DEF KeyIrq, IInv, InCount, sve
  <2> QED BY <2>1, <2>2, <2>3 DEF IInv
<1>7. ASSUME UNCHANGED vars PROVE IInv'
  <2>1. TypeOK'
    BY <1>7 DEF vars, sve, kb, IInv, TypeOK
  <2>2. PlaceInv' /\ HandInv'
    BY <1>7 DEF vars, sve, IInv, PlaceInv, HandInv, Opening, Holds
  <2>3. CountInv'
    BY <1>7, CountKept DEF vars, sve, IInv, InCount
  <2> QED BY <2>1, <2>2, <2>3 DEF IInv
<1> QED BY <1>1, <1>2, <1>3, <1>4, <1>5, <1>6, <1>7 DEF Next

LEMMA AlwaysInv == Spec => []IInv
BY InitInv, Inductive, PTL DEF Spec

(* A node that is in use is in exactly one place, said with Cardinality.   *)
LEMMA OnePlace ==
  ASSUME IInv, NEW n \in Node, on_objadr[n] # NULL
  PROVE  Cardinality({s \in Slots : td_handtbl[s[1]][s[2]] = n}
           \cup {<<t, NULL>> : t \in {u \in Thread : pc[u] = "op_hand" /\ ondp[u] = n}}) = 1
<1> DEFINE S == {s \in Slots : td_handtbl[s[1]][s[2]] = n}
           O == {<<t, NULL>> : t \in {u \in Thread : pc[u] = "op_hand" /\ ondp[u] = n}}
<1>1. CASE \E t \in Thread : Opening(t, n)
  <2>1. PICK t \in Thread : Opening(t, n)
    BY <1>1
  <2>2. S = {}
    BY <2>1 DEF IInv, PlaceInv, Holds, Slots
  <2>3. \A u \in Thread : pc[u] = "op_hand" /\ ondp[u] = n <=> u = t
    BY <2>1 DEF IInv, PlaceInv, Opening
  <2>4. O = {<<t, NULL>>}
    BY <2>3
  <2>5. S \cup O = {<<t, NULL>>}
    BY <2>2, <2>4
  <2> QED BY <2>5, FS_Singleton
<1>2. CASE ~\E t \in Thread : Opening(t, n)
  <2>1. PICK t \in Thread, h \in Hand : Holds(t, h, n)
    BY <1>2 DEF IInv, PlaceInv
  <2>2. \A u \in Thread, i \in Hand : td_handtbl[u][i] = n <=> u = t /\ i = h
    BY <2>1 DEF IInv, PlaceInv, Holds
  <2>3. n # NULL
    BY HandFacts
  <2>4. S = {<<t, h>>}
    BY <2>2, <2>3 DEF Slots
  <2>5. O = {}
    BY <1>2 DEF Opening
  <2>6. S \cup O = {<<t, h>>}
    BY <2>4, <2>5
  <2> QED BY <2>6, FS_Singleton
<1> QED BY <1>1, <1>2

(* Handles, nodes and use counts agree at every step of every service.     *)
THEOREM HandlesAlwaysAccounted == Spec => []HandlesAccounted
<1>1. IInv => HandlesAccounted
  <2> SUFFICES ASSUME IInv PROVE HandlesAccounted
    OBVIOUS
  <2>1. \A s \in Slots : on_objadr[td_handtbl[s[1]][s[2]]] # NULL
    BY DEF Slots, IInv, TypeOK, PlaceInv, Holds
  <2>2. \A d \in Device : dev_count[d] = Cardinality(Counted(d))
    BY DEF IInv, CountInv
  <2> QED BY <2>1, <2>2, OnePlace DEF HandlesAccounted
<1> QED BY <1>1, AlwaysInv, PTL

(* However many threads close handles of one device at a time, each finds  *)
(* the count of the device at one or more, both when it tests the count    *)
(* and later when it decrements it (krldev_dec_devcount).                  *)
THEOREM CloseAlwaysCovered ==
  Spec => [](\A t \in Thread : pc[t] \in {"cl_check", "cl_dec"}
               => dev_count[on_objadr[ondp[t]]] >= 1)
<1>1. IInv => \A t \in Thread : pc[t] \in {"cl_check", "cl_dec"}
                => dev_count[on_objadr[ondp[t]]] >= 1
  BY CountCovers
<1> QED BY <1>1, AlwaysInv, PTL

-----------------------------------------------------------------------------
(* The keyboard.  The buffer has the last key; whoever was given a unit of *)
(* the semaphore finds a key there, and what it has copied is not newer.   *)

KeyInv ==
  /\ kb_buff = keys /\ kb_sem <= keys /\ keys <= KeyMax
  /\ \A t \in Thread : pc[t] \in {"rd_first", "rd_rest"} => keys >= 1
  /\ \A t \in Thread : pc[t] = "rd_rest" => 1 <= buf[t][1] /\ buf[t][1] <= keys

LEMMA KeyStep == IInv /\ KeyInv /\ [Next]_vars => KeyInv'
<1> SUFFICES ASSUME IInv, KeyInv, [Next]_vars PROVE KeyInv'
  OBVIOUS
<1>0. /\ TypeOK /\ keys \in Int /\ kb_sem \in Int /\ KeyMax \in Int
  BY KrlSveAssumption DEF IInv, TypeOK
<1>1. ASSUME UNCHANGED <<kb, buf>>,
             \A t \in Thread : pc'[t] \in {"rd_first", "rd_rest"} => pc'[t] = pc[t]
      PROVE  KeyInv'
  BY <1>1 DEF KeyInv, kb
<1>2. ASSUME NEW t \in Thread, NEW d \in Device, Open(t, d) PROVE KeyInv'
  BY <1>0, <1>1, <1>2 DEF Open, TypeOK, Goto
<1>3. ASSUME NEW t \in Thread, NEW h \in Hand, Close(t, h) \/ Read(t, h) PROVE KeyInv'
  BY <1>0, <1>1, <1>3 DEF Close, Read, TypeOK, Goto
<1>4. ASSUME NEW t \in Thread, Exit(t) PROVE KeyInv'
  BY <1>0, <1>1, <1>4 DEF Exit, TypeOK, Goto
<1>5. ASSUME NEW t \in Thread, OpenHand(t) \/ OpenDev(t) PROVE KeyInv'
  BY <1>0, <1>1, <1>5 DEF OpenHand, OpenDev, TypeOK, Goto
<1>6. ASSUME NEW t \in Thread, CloseCheck(t) \/ CloseDec(t) \/ CloseDel(t) PROVE KeyInv'
  BY <1>0, <1>1, <1>6 DEF CloseCheck, CloseDec, CloseDel, TypeOK, Goto
<1>7. ASSUME NEW t \in Thread, ReadDown(t) PROVE KeyInv'
  BY <1>0, <1>7 DEF ReadDown, KeyInv, TypeOK, Goto
<1>8. ASSUME NEW t \in Thread, ReadFirst(t) PROVE KeyInv'
  <2>1. /\ \A u \in Thread : buf'[u] = IF u = t THEN [buf[t] EXCEPT ![1] = kb_buff] ELSE buf[u]
        /\ buf[t] \in Nat \X Nat
    BY <1>0, <1>8 DEF ReadFirst, KeyRead, TypeOK
  <2>2. buf'[t][1] = kb_buff
    BY <2>1
  <2>3. /\ pc[t] = "rd_first" /\ UNCHANGED kb
        /\ \A u \in Thread : pc'[u] = IF u = t THEN "rd_rest" ELSE pc[u]
    BY <1>0, <1>8 DEF ReadFirst, TypeOK, Goto
  <2> QED BY <1>0, <2>1, <2>2, <2>3 DEF KeyInv, kb
<1>9. ASSUME NEW t \in Thread, ReadRest(t) PROVE KeyInv'
  <2>1. /\ pc[t] = "rd_rest" /\ UNCHANGED kb
        /\ \A u \in Thread : pc'[u] = IF u = t THEN "user" ELSE pc[u]
        /\ \A u \in Thread : u # t => buf'[u] = buf[u]
    BY <1>0, <1>9 DEF ReadRest, TypeOK, Goto
  <2> QED BY <1>0, <2>1 DEF KeyInv, kb
<1>10. ASSUME KeyIrq PROVE KeyInv'
  <2>1. \A t \in Thread : buf[t][1] \in Nat
    BY <1>0 DEF TypeOK
  <2> QED BY <1>0, <1>10, <2>1 DEF KeyIrq, KbdWriteScan, KeyInv
<1>11. ASSUME UNCHANGED vars PROVE KeyInv'
  BY <1>1, <1>11 DEF vars
<1> QED BY <1>2, <1>3, <1>4, <1>5, <1>6, <1>7, <1>8, <1>9, <1>10, <1>11 DEF Next, Step

(* A read of the keyboard returns keys: both parts of it were pressed, and *)
(* the rest is of the same key as the first word or of a later one, though *)
(* the keyboard may write the buffer between the two.  So one that started *)
(* on the last key returns that key whole.                                 *)
THEOREM ReadsReturnKeys ==
  Spec => [][\A t \in Thread : ReadRest(t) =>
               1 <= buf'[t][1] /\ buf'[t][1] <= buf'[t][2] /\ buf'[t][2] <= keys]_vars
<1>1. Init => KeyInv
  BY KrlSveAssumption DEF Init, KeyInv
<1>2. IInv /\ KeyInv => \A t \in Thread : ReadRest(t) =>
        1 <= buf'[t][1] /\ buf'[t][1] <= buf'[t][2] /\ buf'[t][2] <= keys
  <2> SUFFICES ASSUME IInv, KeyInv, NEW t \in Thread, ReadRest(t)
               PROVE  1 <= buf'[t][1] /\ buf'[t][1] <= buf'[t][2] /\ buf'[t][2] <= keys
    OBVIOUS
  <2>1. buf[t] \in Nat \X Nat /\ keys \in Nat /\ pc[t] = "rd_rest"
    BY DEF IInv, TypeOK, ReadRest
  <2>2. buf'[t] = [buf[t] EXCEPT ![2] = kb_buff]
    BY DEF ReadRest, KeyRead, IInv, TypeOK
  <2>3. buf'[t][1] = buf[t][1] /\ buf'[t][2] = kb_buff
    BY <2>1, <2>2
  <2> QED BY <2>1, <2>3 DEF KeyInv
<1>3. KeyInv /\ IInv /\ [Next]_vars => KeyInv'
  BY KeyStep
<1> QED BY <1>1, <1>2, <1>3, AlwaysInv, PTL DEF Spec
=============================================================================
