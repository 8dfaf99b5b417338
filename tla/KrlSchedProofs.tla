---------------------------- MODULE KrlSchedProofs ----------------------------
(* Theorems about the scheduler core, for every set of threads and         *)
(* semaphores and every number of priorities.                              *)
EXTENDS KrlSched, SequenceTheorems, FiniteSetTheorems, TLAPS

-----------------------------------------------------------------------------
(* Lists.  What the proofs need to know of a list: its length, which       *)
(* threads are on it, and that none is on it twice.                        *)

NoDup(q) == \A i, j \in 1 .. Len(q) : q[i] = q[j] => i = j

LEMMA WithoutIsSeq ==
  ASSUME NEW S, NEW q \in Seq(S), NEW i \in 1 .. Len(q)
  PROVE  /\ Without(q, i) \in Seq(S)
         /\ Len(Without(q, i)) = Len(q) - 1
         /\ \A j \in 1 .. Len(q) - 1 :
              Without(q, i)[j] = IF j < i THEN q[j] ELSE q[j + 1]
<1>0. Len(q) \in Nat /\ \A j \in 1 .. Len(q) : q[j] \in S
  BY ElementOfSeq, LenProperties
<1> DEFINE a == SubSeq(q, 1, i - 1)
           b == SubSeq(q, i + 1, Len(q))
<1>1. /\ a \in Seq(S)
      /\ Len(a) = i - 1
      /\ \A j \in 1 .. i - 1 : a[j] = q[j]
  <2>1. \A j \in 1 .. i - 1 : q[j] \in S
    BY <1>0
  <2>2. QED
    BY <2>1, <1>0, SubSeqProperties
<1>2. /\ b \in Seq(S)
      /\ Len(b) = Len(q) - i
      /\ \A j \in 1 .. Len(q) - i : b[j] = q[j + i]
  <2>1. \A j \in i + 1 .. Len(q) : q[j] \in S
    BY <1>0
  <2>2. QED
    BY <2>1, <1>0, SubSeqProperties
<1> HIDE DEF a, b
<1>3. /\ a \o b \in Seq(S)
      /\ Len(a \o b) = Len(q) - 1
      /\ \A j \in 1 .. Len(q) - 1 :
           (a \o b)[j] = IF j <= i - 1 THEN a[j] ELSE b[j - (i - 1)]
  <2>1. /\ a \o b \in Seq(S)
        /\ Len(a \o b) = Len(a) + Len(b)
        /\ \A j \in 1 .. Len(a) + Len(b) :
             (a \o b)[j] = IF j <= Len(a) THEN a[j] ELSE b[j - Len(a)]
    BY <1>1, <1>2, ConcatProperties
  <2>2. Len(a) + Len(b) = Len(q) - 1
    BY <1>0, <1>1, <1>2
  <2>3. QED
    BY <2>1, <2>2, <1>1
<1>4. ASSUME NEW j \in 1 .. Len(q) - 1
      PROVE  (a \o b)[j] = IF j < i THEN q[j] ELSE q[j + 1]
  <2>1. CASE j < i
    BY <2>1, <1>0, <1>1, <1>3
  <2>2. CASE j >= i
    <3>1. j - (i - 1) \in 1 .. Len(q) - i /\ (j - (i - 1)) + i = j + 1
      BY <2>2, <1>0
    <3>2. b[j - (i - 1)] = q[j + 1]
      BY <3>1, <1>2
    <3>3. ~(j <= i - 1) /\ ~(j < i)
      BY <2>2, <1>0
    <3>4. (a \o b)[j] = b[j - (i - 1)]
      BY <3>3, <1>3
    <3>5. QED
      BY <3>2, <3>3, <3>4
  <2>3. j < i \/ j >= i
    BY <1>0
  <2>4. QED
    BY <2>1, <2>2, <2>3
<1>5. Without(q, i) = a \o b
  BY DEF Without, a, b
<1>6. QED
  BY <1>3, <1>4, <1>5

(* list_del of the i-th node takes that node off and no other. *)
LEMMA WithoutOnList ==
  ASSUME NEW S, NEW q \in Seq(S), NEW i \in 1 .. Len(q), NoDup(q)
  PROVE  /\ NoDup(Without(q, i))
         /\ \A x : OnList(x, Without(q, i)) <=> OnList(x, q) /\ x # q[i]
<1> DEFINE w == Without(q, i)
<1>1. /\ Len(q) \in Nat
      /\ Len(w) = Len(q) - 1
      /\ \A j \in 1 .. Len(q) - 1 : w[j] = IF j < i THEN q[j] ELSE q[j + 1]
  BY WithoutIsSeq, LenProperties
<1> HIDE DEF w
<1>2. NoDup(w)
  BY <1>1 DEF NoDup
<1>3. ASSUME NEW x, OnList(x, w)
      PROVE  OnList(x, q) /\ x # q[i]
  <2>1. PICK j \in 1 .. Len(q) - 1 : w[j] = x
    BY <1>1, <1>3 DEF OnList
  <2>2. CASE j < i
    BY <1>1, <2>1, <2>2 DEF OnList, NoDup
  <2>3. CASE j >= i
    <3>1. x = q[j + 1] /\ j + 1 \in 1 .. Len(q) /\ j + 1 # i
      BY <1>1, <2>1, <2>3
    <3>2. QED
      BY <3>1 DEF OnList, NoDup
  <2>4. QED
    BY <2>1, <2>2, <2>3, <1>1
<1>4. ASSUME NEW x, OnList(x, q), x # q[i]
      PROVE  OnList(x, w)
  <2>1. PICK j \in 1 .. Len(q) : q[j] = x
    BY <1>4 DEF OnList
  <2>2. CASE j < i
    <3>1. j \in 1 .. Len(w) /\ w[j] = x
      BY <1>1, <2>1, <2>2
    <3>2. QED
      BY <3>1 DEF OnList
  <2>3. CASE j > i
    <3>1. j - 1 \in 1 .. Len(w) /\ w[j - 1] = q[(j - 1) + 1] /\ (j - 1) + 1 = j
      BY <1>1, <2>3
    <3>2. j - 1 \in 1 .. Len(w) /\ w[j - 1] = x
      BY <3>1, <2>1
    <3>3. QED
      BY <3>2 DEF OnList
  <2>4. QED
    BY <2>1, <2>2, <2>3, <1>1, <1>4
<1>5. QED
  BY <1>2, <1>3, <1>4 DEF w

LEMMA AddHeadIsSeq ==
  ASSUME NEW S, NEW q \in Seq(S), NEW t \in S
  PROVE  /\ AddHead(q, t) \in Seq(S)
         /\ Len(AddHead(q, t)) = Len(q) + 1
         /\ AddHead(q, t)[1] = t
         /\ \A j \in 2 .. Len(q) + 1 : AddHead(q, t)[j] = q[j - 1]
<1>1. <<t>> \in Seq(S) /\ Len(<<t>>) = 1 /\ <<t>>[1] = t
  OBVIOUS
<1>2. Len(q) \in Nat
  BY LenProperties
<1>3. /\ <<t>> \o q \in Seq(S)
      /\ Len(<<t>> \o q) = 1 + Len(q)
      /\ \A i \in 1 .. 1 + Len(q) :
           (<<t>> \o q)[i] = IF i <= 1 THEN <<t>>[i] ELSE q[i - 1]
  BY <1>1, ConcatProperties
<1>4. QED
  BY <1>1, <1>2, <1>3 DEF AddHead

(* list_add links its node and keeps those that were linked. *)
LEMMA AddHeadOnList ==
  ASSUME NEW S, NEW q \in Seq(S), NEW t \in S, NoDup(q), ~OnList(t, q)
  PROVE  /\ NoDup(AddHead(q, t))
         /\ \A x : OnList(x, AddHead(q, t)) <=> OnList(x, q) \/ x = t
<1> DEFINE a == AddHead(q, t)
<1>1. /\ Len(q) \in Nat
      /\ Len(a) = Len(q) + 1
      /\ a[1] = t
      /\ \A j \in 2 .. Len(q) + 1 : a[j] = q[j - 1]
  BY AddHeadIsSeq, LenProperties
<1> HIDE DEF a
<1>2. NoDup(a)
  <2> SUFFICES ASSUME NEW i \in 1 .. Len(a), NEW j \in 1 .. Len(a),
                      a[i] = a[j]
               PROVE  i = j
    BY DEF NoDup
  <2>1. CASE i = 1 /\ j # 1
    <3>1. j - 1 \in 1 .. Len(q) /\ q[j - 1] = t
      BY <1>1, <2>1
    <3>2. QED
      BY <3>1 DEF OnList
  <2>2. CASE i # 1 /\ j = 1
    <3>1. i - 1 \in 1 .. Len(q) /\ q[i - 1] = t
      BY <1>1, <2>2
    <3>2. QED
      BY <3>1 DEF OnList
  <2>3. CASE i # 1 /\ j # 1
    <3>1. /\ i - 1 \in 1 .. Len(q) /\ j - 1 \in 1 .. Len(q)
          /\ q[i - 1] = q[j - 1]
      BY <1>1, <2>3
    <3>2. i - 1 = j - 1
      BY <3>1 DEF NoDup
    <3>3. QED
      BY <3>2, <1>1
  <2>4. QED
    BY <2>1, <2>2, <2>3
<1>3. ASSUME NEW x, OnList(x, a)
      PROVE  OnList(x, q) \/ x = t
  <2>1. PICK j \in 1 .. Len(a) : a[j] = x
    BY <1>3 DEF OnList
  <2>2. CASE j = 1
    BY <2>1, <2>2, <1>1
  <2>3. CASE j # 1
    <3>1. j - 1 \in 1 .. Len(q) /\ q[j - 1] = x
      BY <1>1, <2>1, <2>3
    <3>2. QED
      BY <3>1 DEF OnList
  <2>4. QED
    BY <2>2, <2>3
<1>4. ASSUME NEW x, OnList(x, q) \/ x = t
      PROVE  OnList(x, a)
  <2>1. CASE x = t
    BY <1>1, <2>1 DEF OnList
  <2>2. CASE OnList(x, q)
    <3>1. PICK j \in 1 .. Len(q) : q[j] = x
      BY <2>2 DEF OnList
    <3>2. j + 1 \in 1 .. Len(a) /\ a[j + 1] = q[(j + 1) - 1] /\ (j + 1) - 1 = j
      BY <1>1
    <3>3. j + 1 \in 1 .. Len(a) /\ a[j + 1] = x
      BY <3>1, <3>2
    <3>4. QED
      BY <3>3 DEF OnList
  <2>3. QED
    BY <1>4, <2>1, <2>2
<1>5. QED
  BY <1>2, <1>3, <1>4 DEF a

(* list_add_tail does so too. *)
LEMMA AppendOnList ==
  ASSUME NEW S, NEW q \in Seq(S), NEW t \in S, NoDup(q), ~OnList(t, q)
  PROVE  /\ Append(q, t) \in Seq(S)
         /\ Len(Append(q, t)) = Len(q) + 1
         /\ NoDup(Append(q, t))
         /\ \A x : OnList(x, Append(q, t)) <=> OnList(x, q) \/ x = t
<1> DEFINE a == Append(q, t)
<1>1. /\ Len(q) \in Nat
      /\ a \in Seq(S)
      /\ Len(a) = Len(q) + 1
      /\ a[Len(q) + 1] = t
      /\ \A j \in 1 .. Len(q) : a[j] = q[j]
  BY AppendProperties, LenProperties
<1> HIDE DEF a
<1>2. NoDup(a)
  BY <1>1 DEF NoDup, OnList
<1>3. ASSUME NEW x
      PROVE  OnList(x, a) <=> OnList(x, q) \/ x = t
  BY <1>1 DEF OnList
<1>4. QED
  BY <1>1, <1>2, <1>3 DEF a

(* Taking the first node off a list. *)
LEMMA TailOnList ==
  ASSUME NEW S, NEW q \in Seq(S), q # <<>>, NoDup(q)
  PROVE  /\ Head(q) \in S
         /\ OnList(Head(q), q)
         /\ Tail(q) \in Seq(S)
         /\ Len(Tail(q)) = Len(q) - 1
         /\ NoDup(Tail(q))
         /\ \A x : OnList(x, Tail(q)) <=> OnList(x, q) /\ x # Head(q)
<1> DEFINE w == Tail(q)
           h == Head(q)
<1>1. /\ Len(q) \in Nat \ {0}
      /\ w \in Seq(S)
      /\ Len(w) = Len(q) - 1
      /\ \A j \in 1 .. Len(q) - 1 : w[j] = q[j + 1]
      /\ h \in S
      /\ h = q[1]
  BY HeadTailProperties, LenProperties, EmptySeq, ElementOfSeq
<1> HIDE DEF w, h
<1>2. NoDup(w)
  <2> SUFFICES ASSUME NEW i \in 1 .. Len(w), NEW j \in 1 .. Len(w),
                      w[i] = w[j]
               PROVE  i = j
    BY DEF NoDup
  <2>1. /\ i + 1 \in 1 .. Len(q) /\ j + 1 \in 1 .. Len(q)
        /\ q[i + 1] = q[j + 1]
    BY <1>1
  <2>2. i + 1 = j + 1
    BY <2>1 DEF NoDup
  <2>3. QED
    BY <2>2, <1>1
<1>3. OnList(h, q)
  BY <1>1 DEF OnList
<1>4. ASSUME NEW x, OnList(x, w)
      PROVE  OnList(x, q) /\ x # h
  <2>1. PICK j \in 1 .. Len(w) : w[j] = x
    BY <1>4 DEF OnList
  <2>2. j + 1 \in 1 .. Len(q) /\ q[j + 1] = x /\ j + 1 # 1 /\ 1 \in 1 .. Len(q)
    BY <1>1, <2>1
  <2>3. QED
    BY <1>1, <2>2 DEF OnList, NoDup
<1>5. ASSUME NEW x, OnList(x, q), x # h
      PROVE  OnList(x, w)
  <2>1. PICK j \in 1 .. Len(q) : q[j] = x
    BY <1>5 DEF OnList
  <2>2. j - 1 \in 1 .. Len(w) /\ w[j - 1] = q[(j - 1) + 1] /\ (j - 1) + 1 = j
    BY <1>1, <1>5, <2>1
  <2>3. j - 1 \in 1 .. Len(w) /\ w[j - 1] = x
    BY <2>1, <2>2
  <2>4. QED
    BY <2>3 DEF OnList
<1>6. QED
  BY <1>1, <1>2, <1>3, <1>4, <1>5 DEF w, h

(* list_del leaves alone a list its node is not on. *)
LEMMA UnlinkIsSeq ==
  ASSUME NEW S, NEW q \in Seq(S), NEW t
  PROVE  /\ Unlink(q, t) \in Seq(S)
         /\ ~OnList(t, q) => Unlink(q, t) = q
<1>1. CASE OnList(t, q)
  <2> DEFINE i == CHOOSE i \in 1 .. Len(q) : q[i] = t
  <2>1. i \in 1 .. Len(q)
    BY <1>1 DEF OnList
  <2> HIDE DEF i
  <2>2. Without(q, i) \in Seq(S)
    BY <2>1, WithoutIsSeq
  <2>3. QED
    BY <1>1, <2>2 DEF Unlink, i
<1>2. CASE ~OnList(t, q)
  BY <1>2 DEF Unlink
<1>3. QED
  BY <1>1, <1>2

LEMMA FrontIsSeq ==
  ASSUME NEW S, NEW q \in Seq(S), q # <<>>
  PROVE  /\ SubSeq(q, 1, Len(q) - 1) \in Seq(S)
         /\ Len(SubSeq(q, 1, Len(q) - 1)) = Len(q) - 1
         /\ \A i \in 1 .. Len(q) - 1 : SubSeq(q, 1, Len(q) - 1)[i] = q[i]
<1>1. /\ Len(q) \in Nat
      /\ Len(q) # 0
      /\ \A j \in 1 .. Len(q) : q[j] \in S
  BY ElementOfSeq, LenProperties, EmptySeq
<1>2. \A j \in 1 .. Len(q) - 1 : q[j] \in S
  BY <1>1
<1> DEFINE n == Len(q) - 1
<1>3. n \in Nat /\ n <= Len(q)
  BY <1>1
<1> HIDE DEF n
<1>4. \A j \in 1 .. n : q[j] \in S
  BY <1>2 DEF n
<1>5. /\ SubSeq(q, 1, n) \in Seq(S)
      /\ Len(SubSeq(q, 1, n)) = IF 1 <= n THEN n - 1 + 1 ELSE 0
      /\ \A i \in 1 .. n - 1 + 1 : SubSeq(q, 1, n)[i] = q[1 + i - 1]
  BY <1>3, <1>4, SubSeqProperties
<1>6. /\ SubSeq(q, 1, n) \in Seq(S)
      /\ Len(SubSeq(q, 1, n)) = n
      /\ \A i \in 1 .. n : SubSeq(q, 1, n)[i] = q[i]
  BY <1>3, <1>5
<1>7. QED
  BY <1>6 DEF n

LEMMA EmptyOnList ==
  /\ NoDup(<<>>)
  /\ Len(<<>>) = 0
  /\ \A x : ~OnList(x, <<>>)
BY DEF NoDup, OnList

-----------------------------------------------------------------------------
(* Kernel stacks.  krlsem_down and krlsched_exit are called by the code of *)
(* a thread only, never by an interrupt handler and never by the idle      *)
(* thread, so they are the first call pending on the stack of a thread.    *)

DownFirst ==
  \A t \in Runner : \A i \in 1 .. Len(td_kstk[t]) :
    td_kstk[t][i].op \in {"down", "exit"} => i = 1 /\ t # Idle

TInv == TypeOK /\ DownFirst

(* What makes a sequence of calls fit for the stack of the running thread. *)
Fits(s) == /\ s \in Seq(Call)
           /\ \A i \in 1 .. Len(s) :
                s[i].op \in {"down", "exit"} => i = 1 /\ sda_currtd # Idle

LEMMA CallTypes ==
  /\ \A op \in {"select", "chkneed", "setflgs", "exit"} :
       Pend(op, None) \in Call /\ Pend(op, None).op = op
  /\ \A s \in Sem, op \in {"down", "allup"} :
       Pend(op, s) \in Call /\ Pend(op, s).op = op /\ Pend(op, s).arg = s
  /\ \A t \in Runner :
       /\ Pend("switch", t) \in Call
       /\ Pend("switch", t).op = "switch"
       /\ Pend("switch", t).arg = t
  /\ \A c \in Call : /\ c.op \in {"down", "allup"} => c.arg \in Sem
                     /\ c.op = "switch" => c.arg \in Runner
BY DEF Call, Pend

LEMMA KstkFits ==
  ASSUME TInv
  PROVE  /\ Fits(Kstk)
         /\ Len(Kstk) \in Nat
         /\ Kstk # <<>> => /\ Len(Kstk) >= 1
                           /\ Top \in Call
                           /\ Fits(Caller)
                           /\ Len(Caller) = Len(Kstk) - 1
                           /\ \A i \in 1 .. Len(Caller) : Caller[i] = Kstk[i]
<1>1. Kstk \in Seq(Call) /\ sda_currtd \in Runner
  BY DEF TInv, TypeOK, Kstk
<1>2. Len(Kstk) \in Nat /\ \A i \in 1 .. Len(Kstk) : Kstk[i] \in Call
  BY <1>1, LenProperties, ElementOfSeq
<1>3. Fits(Kstk)
  BY <1>1 DEF Fits, TInv, DownFirst, Kstk
<1>4. ASSUME Kstk # <<>>
      PROVE  /\ Len(Kstk) >= 1
             /\ Top \in Call
             /\ Fits(Caller)
             /\ Len(Caller) = Len(Kstk) - 1
             /\ \A i \in 1 .. Len(Caller) : Caller[i] = Kstk[i]
  <2>1. Len(Kstk) # 0
    BY <1>1, <1>4, EmptySeq
  <2>2. /\ Caller \in Seq(Call)
        /\ Len(Caller) = Len(Kstk) - 1
        /\ \A i \in 1 .. Len(Kstk) - 1 : Caller[i] = Kstk[i]
    BY <1>1, <1>4, FrontIsSeq DEF Caller
  <2>3. Fits(Caller)
    BY <2>2, <1>2, <1>3 DEF Fits
  <2>4. QED
    BY <1>2, <2>1, <2>2, <2>3 DEF Top
<1>5. QED
  BY <1>2, <1>3, <1>4

LEMMA PushFits ==
  ASSUME NEW s, Fits(s), NEW c \in Call, c.op \notin {"down", "exit"}
  PROVE  Fits(Append(s, c))
<1>1. s \in Seq(Call)
  BY DEF Fits
<1>2. /\ Append(s, c) \in Seq(Call)
      /\ Len(s) \in Nat
      /\ Len(Append(s, c)) = Len(s) + 1
      /\ Append(s, c)[Len(s) + 1] = c
      /\ \A i \in 1 .. Len(s) : Append(s, c)[i] = s[i]
  BY <1>1, AppendProperties, LenProperties
<1>3. QED
  BY <1>2 DEF Fits

LEMMA OneFits ==
  ASSUME NEW c \in Call, c.op \in {"down", "exit"} => sda_currtd # Idle
  PROVE  Fits(<<c>>)
BY DEF Fits

LEMMA BecomesFits ==
  ASSUME TInv, NEW s, Fits(s), KstkBecomes(s)
  PROVE  /\ td_kstk' \in [Runner -> Seq(Call)]
         /\ DownFirst'
         /\ td_kstk'[sda_currtd] = s
         /\ \A t \in Runner : t # sda_currtd => td_kstk'[t] = td_kstk[t]
<1>1. /\ td_kstk \in [Runner -> Seq(Call)]
      /\ sda_currtd \in Runner
      /\ s \in Seq(Call)
  BY DEF TInv, TypeOK, Fits
<1>2. /\ td_kstk' \in [Runner -> Seq(Call)]
      /\ td_kstk'[sda_currtd] = s
      /\ \A t \in Runner : t # sda_currtd => td_kstk'[t] = td_kstk[t]
  BY <1>1 DEF KstkBecomes
<1>3. DownFirst'
  <2> SUFFICES ASSUME NEW t \in Runner, NEW i \in 1 .. Len(td_kstk'[t]),
                      td_kstk'[t][i].op \in {"down", "exit"}
               PROVE  i = 1 /\ t # Idle
    BY DEF DownFirst
  <2>1. CASE t = sda_currtd
    BY <1>2, <2>1 DEF Fits
  <2>2. CASE t # sda_currtd
    BY <1>2, <2>2 DEF TInv, DownFirst
  <2>3. QED
    BY <2>1, <2>2
<1>4. QED
  BY <1>2, <1>3

-----------------------------------------------------------------------------
(* Types. *)

LEMMA CountTypes ==
  /\ UINT_MAX >= 1
  /\ \A n \in 0 .. UINT_MAX : Incr(n) \in 0 .. UINT_MAX /\ Decr(n) \in 0 .. UINT_MAX
<1>1. Cardinality(Thread) \in Nat /\ Cardinality(Thread) # 0
  BY SchedAssumption, FS_CardinalityType, FS_EmptySet
<1>2. QED
  BY <1>1, SchedAssumption DEF Incr, Decr

LEMMA InitTypes == Init => TInv
<1> SUFFICES ASSUME Init
             PROVE  TInv
  OBVIOUS
<1> USE SchedAssumption
<1>1. <<FirstThread>> \in Seq(Thread) /\ <<>> \in Seq(Thread) /\ <<>> \in Seq(Call)
  OBVIOUS
<1>2. 0 \in Prio /\ 0 \in 0 .. TDRUN_TICK
  BY DEF Prio
<1>3. /\ tdl_lsth \in [Prio -> Seq(Thread)]
      /\ tdl_curruntd \in [Prio -> Thread \cup {None}]
      /\ tdl_nr \in [Prio -> 0 .. UINT_MAX]
  BY <1>1, CountTypes DEF Init
<1>4. /\ td_stus \in [Thread -> Status]
      /\ td_priority \in [Thread -> Prio]
      /\ td_tick \in [Runner -> 0 .. TDRUN_TICK]
      /\ td_kstk \in [Runner -> Seq(Call)]
  BY <1>1, <1>2 DEF Init, Status
<1>5. /\ wl_list \in [Sem -> Seq(Thread)]
      /\ wl_tdnr \in [Sem -> 0 .. UINT_MAX]
      /\ sem_count \in [Sem -> Nat]
  BY <1>1, CountTypes DEF Init
<1>6. /\ sda_threadnr \in 0 .. UINT_MAX
      /\ scls_threadnr \in Nat
      /\ sda_schdflgs \in Flags
      /\ sda_currtd \in Runner
      /\ sda_exitlist \subseteq Thread
  BY CountTypes DEF Init, Flags, Runner
<1>7. died \in BOOLEAN
  BY DEF Init
<1>8. TypeOK
  BY <1>3, <1>4, <1>5, <1>6, <1>7 DEF TypeOK
<1>9. DownFirst
  BY DEF Init, DownFirst
<1>10. QED
  BY <1>8, <1>9 DEF TInv

LEMMA NextTickType ==
  ASSUME NEW k \in 0 .. TDRUN_TICK
  PROVE  NextTick(k) \in 0 .. TDRUN_TICK
BY SchedAssumption DEF NextTick

(* A step that only works on the stack of the running thread, on the       *)
(* preemption flag, on the ticks and on the semaphore counts.              *)
LEMMA StackStepTypes ==
  ASSUME TInv, NEW s, Fits(s), KstkBecomes(s),
         UNCHANGED <<runVars, nrVars, sda_currtd, tdVars, wl_list, wl_tdnr>>,
         sda_schdflgs' \in Flags,
         td_tick' \in [Runner -> 0 .. TDRUN_TICK],
         sem_count' \in [Sem -> Nat],
         died' \in BOOLEAN
  PROVE  TInv'
<1>1. td_kstk' \in [Runner -> Seq(Call)] /\ DownFirst'
  BY BecomesFits
<1>2. TypeOK'
  BY <1>1 DEF TInv, TypeOK, runVars, nrVars, tdVars
<1>3. QED
  BY <1>1, <1>2 DEF TInv

LEMMA RaiseCountTypes ==
  ASSUME TInv, NEW s \in Sem, RaiseCount(s)
  PROVE  sem_count' \in [Sem -> Nat] /\ died' = FALSE /\ ~died'
<1>1. sem_count[s] \in Nat
  BY DEF TInv, TypeOK
<1>2. (sem_count[s] + 1 < 1) = FALSE
  BY <1>1
<1>3. died' = FALSE
  BY <1>2 DEF RaiseCount
<1>4. sem_count' \in [Sem -> Nat]
  BY <1>1 DEF TInv, TypeOK, RaiseCount
<1>5. QED
  BY <1>3, <1>4, Zenon

LEMMA TimerIrqTypes ==
  ASSUME TInv, TimerIrq
  PROVE  TInv'
<1>1. Fits(Append(Kstk, Pend("chkneed", None)))
  BY KstkFits, PushFits, CallTypes
<1>2. td_tick' \in [Runner -> 0 .. TDRUN_TICK]
  BY NextTickType DEF TInv, TypeOK, TimerIrq
<1>3. sda_schdflgs' \in Flags
  BY DEF TInv, TypeOK, TimerIrq, Flags
<1>4. QED
  BY <1>1, <1>2, <1>3, StackStepTypes
     DEF TimerIrq, semVars, TInv, TypeOK

LEMMA KeyIrqTypes ==
  ASSUME TInv, NEW s \in Sem, KeyIrq(s)
  PROVE  TInv'
<1>1. Fits(Append(Append(Append(Kstk, Pend("chkneed", None)),
                         Pend("setflgs", None)),
                  Pend("allup", s)))
  <2>1. /\ Pend("chkneed", None) \in Call /\ Pend("chkneed", None).op \notin {"down", "exit"}
        /\ Pend("setflgs", None) \in Call /\ Pend("setflgs", None).op \notin {"down", "exit"}
        /\ Pend("allup", s) \in Call /\ Pend("allup", s).op \notin {"down", "exit"}
    BY CallTypes
  <2>2. Fits(Append(Kstk, Pend("chkneed", None)))
    BY <2>1, KstkFits, PushFits
  <2>3. Fits(Append(Append(Kstk, Pend("chkneed", None)), Pend("setflgs", None)))
    BY <2>1, <2>2, PushFits
  <2>4. QED
    BY <2>1, <2>3, PushFits
<1>2. sem_count' \in [Sem -> Nat] /\ died' = FALSE
  BY RaiseCountTypes DEF KeyIrq
<1>3. QED
  BY <1>1, <1>2, StackStepTypes DEF KeyIrq, TInv, TypeOK

LEMMA ChkNeedTypes ==
  ASSUME TInv, ChkNeed
  PROVE  TInv'
<1>1. Fits(Caller)
  BY KstkFits DEF ChkNeed, At
<1>2. Fits(Append(Caller, Pend("select", None)))
  BY <1>1, PushFits, CallTypes
<1>3. PICK s : Fits(s) /\ KstkBecomes(s)
  BY <1>1, <1>2 DEF ChkNeed
<1>4. sda_schdflgs' \in Flags
  BY DEF ChkNeed, TInv, TypeOK, Flags
<1>5. QED
  BY <1>3, <1>4, StackStepTypes DEF ChkNeed, semVars, TInv, TypeOK

LEMMA SetFlgsTypes ==
  ASSUME TInv, SetFlgs
  PROVE  TInv'
<1>1. Fits(Caller)
  BY KstkFits DEF SetFlgs, At
<1>2. sda_schdflgs' \in Flags
  BY DEF SetFlgs, Flags
<1>3. QED
  BY <1>1, <1>2, StackStepTypes DEF SetFlgs, semVars, TInv, TypeOK

LEMMA WakeDoneTypes ==
  ASSUME TInv, WakeDone
  PROVE  TInv'
<1>1. Fits(Caller)
  BY KstkFits DEF WakeDone, At
<1>2. QED
  BY <1>1, StackStepTypes DEF WakeDone, semVars, TInv, TypeOK

LEMMA DownTakeTypes ==
  ASSUME TInv, DownTake
  PROVE  TInv'
<1>1. Fits(Caller) /\ Top \in Call /\ Top.op = "down"
  BY KstkFits DEF DownTake, At
<1>2. Top.arg \in Sem
  BY <1>1, CallTypes
<1>3. sem_count' \in [Sem -> Nat]
  BY <1>2 DEF DownTake, HasUnit, TInv, TypeOK
<1>4. QED
  BY <1>1, <1>3, StackStepTypes DEF DownTake, TInv, TypeOK

LEMMA CallDownTypes ==
  ASSUME TInv, NEW s \in Sem, CallDown(s)
  PROVE  TInv'
<1>1. Fits(<<Pend("down", s)>>)
  BY CallTypes, OneFits DEF CallDown
<1>2. QED
  BY <1>1, StackStepTypes DEF CallDown, semVars, TInv, TypeOK

LEMMA CallUpTypes ==
  ASSUME TInv, NEW s \in Sem, CallUp(s)
  PROVE  TInv'
<1>1. Fits(<<Pend("setflgs", None), Pend("allup", s)>>)
  <2>1. /\ Pend("setflgs", None) \in Call /\ Pend("setflgs", None).op \notin {"down", "exit"}
        /\ Pend("allup", s) \in Call /\ Pend("allup", s).op \notin {"down", "exit"}
    BY CallTypes
  <2>2. QED
    BY <2>1 DEF Fits
<1>2. sem_count' \in [Sem -> Nat] /\ died' = FALSE
  BY RaiseCountTypes DEF CallUp
<1>3. QED
  BY <1>1, <1>2, StackStepTypes DEF CallUp, TInv, TypeOK

LEMMA IdleLoopTypes ==
  ASSUME TInv, IdleLoop
  PROVE  TInv'
<1>1. Fits(<<Pend("select", None)>>)
  BY CallTypes, OneFits
<1>2. QED
  BY <1>1, StackStepTypes DEF IdleLoop, semVars, TInv, TypeOK

LEMMA SwitchTypes ==
  ASSUME TInv, Switch
  PROVE  TInv'
<1>1. Fits(Caller) /\ Top \in Call /\ Top.op = "switch"
  BY KstkFits DEF Switch, At
<1>2. Top.arg \in Runner
  BY <1>1, CallTypes
<1>3. td_kstk' \in [Runner -> Seq(Call)] /\ DownFirst'
  BY <1>1, BecomesFits DEF Switch
<1>4. td_stus' \in [Thread -> Status]
  BY DEF Switch, TInv, TypeOK, Status
<1>5. TypeOK'
  BY <1>2, <1>3, <1>4
     DEF Switch, TInv, TypeOK, runVars, nrVars, semVars
<1>6. QED
  BY <1>3, <1>5 DEF TInv

(* krlschedul takes a thread off one list at most and puts one back.       *)
LEMMA SelectTypes ==
  ASSUME TInv, Select
  PROVE  TInv'
<1>1. Fits(Caller)
  BY KstkFits DEF Select, At
<1>2. \A n \in Runner : Fits(Append(Caller, Pend("switch", n)))
  BY <1>1, PushFits, CallTypes
<1>3. Idle \in Runner /\ Thread \subseteq Runner
  BY DEF Runner
<1>4. /\ td_kstk' \in [Runner -> Seq(Call)] /\ DownFirst'
      /\ tdl_lsth' \in [Prio -> Seq(Thread)]
      /\ tdl_curruntd' \in [Prio -> Thread \cup {None}]
      /\ tdl_nr' \in [Prio -> 0 .. UINT_MAX]
  <2>1. CASE SelectIdle
    <3>1. td_kstk' \in [Runner -> Seq(Call)] /\ DownFirst'
      BY <1>2, <1>3, <2>1, BecomesFits DEF SelectIdle
    <3>2. QED
      BY <2>1, <3>1 DEF SelectIdle, runVars, TInv, TypeOK
  <2>2. ASSUME NEW p \in Prio, NEW i \in 1 .. Len(tdl_lsth[p]),
               SelectFromList(p, i)
        PROVE  <1>4
    <3> DEFINE q == tdl_lsth[p]
    <3>1. q \in Seq(Thread) /\ i \in 1 .. Len(q) /\ q[i] \in Thread
      BY ElementOfSeq DEF TInv, TypeOK
    <3>2. Without(q, i) \in Seq(Thread)
      BY <3>1, WithoutIsSeq
    <3>3. tdl_curruntd[p] \in Thread \cup {None}
      BY DEF TInv, TypeOK
    <3>4. Requeue(Without(q, i), tdl_curruntd[p]) \in Seq(Thread)
      BY <3>2, <3>3, AppendProperties DEF Requeue
    <3>5. KstkBecomes(Append(Caller, Pend("switch", q[i])))
      BY <2>2 DEF SelectFromList
    <3>6. td_kstk' \in [Runner -> Seq(Call)] /\ DownFirst'
      BY <1>2, <1>3, <3>1, <3>5, BecomesFits
    <3>7. QED
      BY <2>2, <3>1, <3>4, <3>6 DEF SelectFromList, TInv, TypeOK
  <2>3. ASSUME NEW p \in Prio, Least(p, Busy), SelectCurrent(p)
        PROVE  <1>4
    <3>1. tdl_curruntd[p] \in Runner
      BY <2>3, <1>3 DEF Least, Busy, SelectCurrent, TInv, TypeOK
    <3>2. td_kstk' \in [Runner -> Seq(Call)] /\ DownFirst'
      BY <1>2, <2>3, <3>1, BecomesFits DEF SelectCurrent
    <3>3. QED
      BY <2>3, <3>2 DEF SelectCurrent, runVars, TInv, TypeOK
  <2>4. QED
    BY <2>1, <2>2, <2>3 DEF Select
<1>5. TypeOK'
  BY <1>4 DEF Select, TInv, TypeOK, nrVars, tdVars, semVars
<1>6. QED
  BY <1>4, <1>5 DEF TInv

LEMMA WakeOneTypes ==
  ASSUME TInv, WakeOne
  PROVE  TInv'
<1> DEFINE s == Top.arg
           t == Head(wl_list[s])
<1>1. s \in Sem
  BY KstkFits, CallTypes DEF WakeOne, At
<1> HIDE DEF s
<1>2. wl_list[s] \in Seq(Thread) /\ wl_list[s] # <<>>
  BY <1>1 DEF WakeOne, TInv, TypeOK, s
<1>3. t \in Thread /\ Tail(wl_list[s]) \in Seq(Thread)
  BY <1>2, HeadTailProperties, ElementOfSeq, LenProperties, EmptySeq
<1> HIDE DEF t
<1>4. DownFirst'
  BY DEF WakeOne, TInv, DownFirst
<1>5. CASE /\ died' = TRUE
           /\ UNCHANGED <<runVars, td_stus, wl_list, wl_tdnr>>
  <2>1. TypeOK'
    BY <1>5 DEF WakeOne, TInv, TypeOK, runVars, nrVars
  <2>2. QED
    BY <1>4, <2>1 DEF TInv
<1>6. CASE /\ wl_tdnr[s] >= 1
           /\ wl_list' = [wl_list EXCEPT ![s] = Tail(@)]
           /\ wl_tdnr' = [wl_tdnr EXCEPT ![s] = Decr(@)]
           /\ td_stus' = [td_stus EXCEPT ![t] = "run"]
           /\ Enlist(t, td_priority[t])
           /\ UNCHANGED died
  <2>1. td_priority[t] \in Prio
    BY <1>3 DEF TInv, TypeOK
  <2>2. /\ tdl_lsth' \in [Prio -> Seq(Thread)]
        /\ tdl_nr' \in [Prio -> 0 .. UINT_MAX]
        /\ tdl_curruntd' \in [Prio -> Thread \cup {None}]
    <3>1. Append(tdl_lsth[td_priority[t]], t) \in Seq(Thread)
      BY <1>3, <2>1, AppendProperties DEF TInv, TypeOK
    <3>2. QED
      BY <1>6, <2>1, <3>1, CountTypes DEF Enlist, TInv, TypeOK
  <2>3. wl_list' \in [Sem -> Seq(Thread)] /\ wl_tdnr' \in [Sem -> 0 .. UINT_MAX]
    <3>1. Decr(wl_tdnr[s]) \in 0 .. UINT_MAX
      BY <1>1, CountTypes DEF TInv, TypeOK
    <3>2. wl_tdnr' \in [Sem -> 0 .. UINT_MAX]
      BY <1>6, <3>1 DEF TInv, TypeOK
    <3>3. wl_list' \in [Sem -> Seq(Thread)]
      BY <1>3, <1>6 DEF TInv, TypeOK
    <3>4. QED
      BY <3>2, <3>3
  <2>4. td_stus' \in [Thread -> Status]
    BY <1>6 DEF TInv, TypeOK, Status
  <2>5. TypeOK'
    BY <1>6, <2>2, <2>3, <2>4 DEF WakeOne, TInv, TypeOK, nrVars
  <2>6. QED
    BY <1>4, <2>5 DEF TInv
<1>7. QED
  BY <1>5, <1>6 DEF WakeOne, s, t

LEMMA LeaveRunTypes ==
  ASSUME TInv, NEW t, NEW p \in Prio, LeaveRun(t, p)
  PROVE  /\ tdl_lsth' \in [Prio -> Seq(Thread)]
         /\ tdl_nr' \in [Prio -> 0 .. UINT_MAX]
         /\ tdl_curruntd' \in [Prio -> Thread \cup {None}]
<1>1. \A x \in Prio : Unlink(tdl_lsth[x], t) \in Seq(Thread)
  BY UnlinkIsSeq DEF TInv, TypeOK
<1>2. QED
  BY <1>1, CountTypes DEF LeaveRun, ClearCur, TInv, TypeOK

LEMMA DownWaitTypes ==
  ASSUME TInv, DownWait
  PROVE  TInv'
<1> DEFINE t == sda_currtd
           s == Top.arg
           p == td_priority[t]
<1>1. /\ Kstk \in Seq(Call) /\ Kstk # <<>> /\ Top.op = "down"
      /\ Fits(Kstk) /\ Len(Kstk) >= 1
  BY KstkFits DEF DownWait, At, Fits
<1>2. s \in Sem
  BY <1>1, KstkFits, CallTypes
<1>3. t \in Thread
  <2>1. Len(Kstk) \in 1 .. Len(Kstk)
    BY <1>1, KstkFits
  <2>2. sda_currtd # Idle
    BY <1>1, <2>1 DEF Fits, Top
  <2>3. QED
    BY <2>2 DEF TInv, TypeOK, Runner
<1>4. p \in Prio
  BY <1>3 DEF TInv, TypeOK
<1> HIDE DEF t, s, p
<1>5. CASE /\ died' = TRUE
           /\ UNCHANGED <<runVars, td_stus, td_kstk, wl_list, wl_tdnr, sda_exitlist>>
  BY <1>5 DEF DownWait, TInv, TypeOK, DownFirst, runVars
<1>6. CASE /\ tdl_nr[p] >= 1
           /\ td_stus' = [td_stus EXCEPT ![t] = "wait"]
           /\ LeaveRun(t, p)
           /\ wl_list' = [x \in Sem |-> IF x = s
                                        THEN AddHead(Unlink(wl_list[x], t), t)
                                        ELSE Unlink(wl_list[x], t)]
           /\ wl_tdnr' = [wl_tdnr EXCEPT ![s] = Incr(@)]
           /\ sda_exitlist' = sda_exitlist \ {t}
           /\ KstkBecomes(Append(Kstk, Pend("select", None)))
           /\ UNCHANGED died
  <2>1. td_kstk' \in [Runner -> Seq(Call)] /\ DownFirst'
    BY <1>1, <1>6, PushFits, CallTypes, BecomesFits
  <2>2. /\ tdl_lsth' \in [Prio -> Seq(Thread)]
        /\ tdl_nr' \in [Prio -> 0 .. UINT_MAX]
        /\ tdl_curruntd' \in [Prio -> Thread \cup {None}]
    BY <1>4, <1>6, LeaveRunTypes
  <2>3. wl_list' \in [Sem -> Seq(Thread)]
    <3>1. \A x \in Sem : Unlink(wl_list[x], t) \in Seq(Thread)
      BY UnlinkIsSeq DEF TInv, TypeOK
    <3>2. \A x \in Sem : AddHead(Unlink(wl_list[x], t), t) \in Seq(Thread)
      BY <1>3, <3>1, AddHeadIsSeq
    <3>3. QED
      BY <1>6, <3>1, <3>2
  <2>4. /\ wl_tdnr' \in [Sem -> 0 .. UINT_MAX]
        /\ td_stus' \in [Thread -> Status]
        /\ sda_exitlist' \subseteq Thread
    <3>1. wl_tdnr' \in [Sem -> 0 .. UINT_MAX]
      <4>1. Incr(wl_tdnr[s]) \in 0 .. UINT_MAX
        BY <1>2, CountTypes DEF TInv, TypeOK
      <4>2. QED
        BY <1>6, <4>1 DEF TInv, TypeOK
    <3>2. td_stus' \in [Thread -> Status]
      BY <1>6 DEF TInv, TypeOK, Status
    <3>3. sda_exitlist' \subseteq Thread
      BY <1>6 DEF TInv, TypeOK
    <3>4. QED
      BY <3>1, <3>2, <3>3
  <2>5. TypeOK'
    BY <1>6, <2>1, <2>2, <2>3, <2>4 DEF DownWait, TInv, TypeOK
  <2>6. QED
    BY <2>1, <2>5 DEF TInv
<1>7. QED
  BY <1>5, <1>6 DEF DownWait, t, s, p

LEMMA CallExitTypes ==
  ASSUME TInv, CallExit
  PROVE  TInv'
<1>1. CASE died' = TRUE /\ UNCHANGED td_kstk
  BY <1>1 DEF CallExit, TInv, TypeOK, DownFirst, runVars, nrVars, tdVars, semVars
<1>2. CASE KstkBecomes(<<Pend("exit", None)>>) /\ UNCHANGED died
  <2>1. Fits(<<Pend("exit", None)>>)
    BY CallTypes, OneFits DEF CallExit
  <2>2. QED
    BY <1>2, <2>1, StackStepTypes DEF CallExit, semVars, TInv, TypeOK
<1>3. QED
  BY <1>1, <1>2 DEF CallExit

(* krlschdclass_del_thread_addexit finds the thread that called it on the  *)
(* CPU: krlsched_exit was called by the code of that thread.               *)
LEMMA ExitDelThread ==
  ASSUME TInv, ExitDel
  PROVE  sda_currtd \in Thread /\ Kstk # <<>> /\ Top.op = "exit" /\ Len(Kstk) = 1
<1>1. Kstk # <<>> /\ Top.op = "exit"
  BY DEF ExitDel, At
<1>2. Fits(Kstk) /\ Len(Kstk) \in Nat /\ Len(Kstk) \in 1 .. Len(Kstk)
  BY <1>1, KstkFits
<1>3. Len(Kstk) = 1 /\ sda_currtd # Idle
  BY <1>1, <1>2 DEF Fits, Top
<1>4. QED
  BY <1>1, <1>3 DEF TInv, TypeOK, Runner

LEMMA ExitDelTypes ==
  ASSUME TInv, ExitDel
  PROVE  TInv'
<1> DEFINE t == sda_currtd
           p == td_priority[t]
<1>1. t \in Thread /\ p \in Prio
  BY ExitDelThread DEF TInv, TypeOK
<1> HIDE DEF t, p
<1>2. /\ LeaveRun(t, p)
      /\ wl_list' = [x \in Sem |-> Unlink(wl_list[x], t)]
      /\ td_stus' = [td_stus EXCEPT ![t] = "exit"]
      /\ sda_exitlist' = sda_exitlist \cup {t}
      /\ sda_threadnr' = Decr(sda_threadnr)
      /\ KstkBecomes(Append(Caller, Pend("select", None)))
  BY DEF ExitDel, t, p
<1>3. td_kstk' \in [Runner -> Seq(Call)] /\ DownFirst'
  <2>1. Fits(Append(Caller, Pend("select", None)))
    BY ExitDelThread, KstkFits, PushFits, CallTypes
  <2>2. QED
    BY <1>2, <2>1, BecomesFits
<1>4. /\ tdl_lsth' \in [Prio -> Seq(Thread)]
      /\ tdl_nr' \in [Prio -> 0 .. UINT_MAX]
      /\ tdl_curruntd' \in [Prio -> Thread \cup {None}]
  BY <1>1, <1>2, LeaveRunTypes
<1>5. wl_list' \in [Sem -> Seq(Thread)]
  <2>1. \A x \in Sem : Unlink(wl_list[x], t) \in Seq(Thread)
    BY UnlinkIsSeq DEF TInv, TypeOK
  <2>2. QED
    BY <1>2, <2>1
<1>6. /\ td_stus' \in [Thread -> Status]
      /\ sda_exitlist' \subseteq Thread
      /\ sda_threadnr' \in 0 .. UINT_MAX
  BY <1>1, <1>2, CountTypes DEF TInv, TypeOK, Status
<1>7. TypeOK'
  BY <1>3, <1>4, <1>5, <1>6 DEF ExitDel, TInv, TypeOK
<1>8. QED
  BY <1>3, <1>7 DEF TInv

LEMMA CallNewThreadTypes ==
  ASSUME TInv, NEW t \in Thread, NEW p \in Prio, CallNewThread(t, p)
  PROVE  TInv'
<1>1. AddHead(tdl_lsth[p], t) \in Seq(Thread)
  BY AddHeadIsSeq DEF TInv, TypeOK
<1>2. /\ Incr(tdl_nr[p]) \in 0 .. UINT_MAX
      /\ Incr(sda_threadnr) \in 0 .. UINT_MAX
  BY CountTypes DEF TInv, TypeOK
<1>3. /\ tdl_lsth' \in [Prio -> Seq(Thread)]
      /\ tdl_nr' \in [Prio -> 0 .. UINT_MAX]
      /\ td_stus' \in [Thread -> Status]
      /\ td_priority' \in [Thread -> Prio]
      /\ sda_threadnr' \in 0 .. UINT_MAX
      /\ scls_threadnr' \in Nat
  BY <1>1, <1>2 DEF CallNewThread, TInv, TypeOK, Status
<1>4. TypeOK'
  BY <1>3 DEF CallNewThread, TInv, TypeOK, semVars
<1>5. QED
  BY <1>4 DEF CallNewThread, TInv, DownFirst

LEMMA StutterTypes ==
  ASSUME TInv, UNCHANGED vars
  PROVE  TInv'
BY DEF vars, runVars, nrVars, tdVars, semVars, TInv, TypeOK, DownFirst

LEMMA NextTypes ==
  ASSUME TInv, [Next]_vars
  PROVE  TInv'
<1>1. CASE KernelStep
  BY <1>1, ChkNeedTypes, SelectTypes, SwitchTypes, WakeOneTypes, WakeDoneTypes,
     SetFlgsTypes, DownTakeTypes, DownWaitTypes, ExitDelTypes, IdleLoopTypes
     DEF KernelStep
<1>2. CASE ThreadCall
  BY <1>2, CallDownTypes, CallUpTypes, CallExitTypes, CallNewThreadTypes
     DEF ThreadCall
<1>3. CASE Irq
  BY <1>3, TimerIrqTypes, KeyIrqTypes DEF Irq
<1>4. QED
  BY <1>1, <1>2, <1>3, StutterTypes DEF Next

(* The kernel executes what is on its stacks in the order it was called,   *)
(* and every variable keeps its type.                                      *)
THEOREM TypesHold == Spec => []TInv
<1>1. Init => TInv
  BY InitTypes
<1>2. TInv /\ [Next]_vars => TInv'
  BY NextTypes
<1>3. QED
  BY <1>1, <1>2, PTL DEF Spec

(* Every variable keeps its type, wherever interrupts arrive: the tick of  *)
(* a thread never exceeds its slice, lists and current threads hold threads*)
(* only, and no call is pending on a stack that the kernel could not       *)
(* execute.  The counters are unsigned: that none of them passes zero is   *)
(* not said here.                                                          *)
THEOREM TypeCorrect == Spec => []TypeOK
<1>1. TInv => TypeOK
  BY DEF TInv
<1>2. QED
  BY <1>1, TypesHold, PTL

-----------------------------------------------------------------------------
(* No lost wake-up.  The invariant is inductive by itself once the types   *)
(* are known: krlsem_up walks the wait list with interrupts off, so that   *)
(* nothing comes between it and the count it has raised.                   *)

(* A step that leaves the wait lists alone and raises no count, taken when *)
(* no krlsem_up is under way.                                              *)
LEMMA WakeupKept ==
  ASSUME TInv, NoLostWakeup, Kstk = <<>> \/ Top.op # "allup",
         \A s \in Sem : wl_list'[s] # <<>> =>
           \/ wl_list[s] # <<>> /\ sem_count'[s] = sem_count[s]
           \/ sem_count'[s] < 1
  PROVE  NoLostWakeup'
<1>1. \A s \in Sem : Pend("allup", s).op = "allup"
  BY CallTypes
<1>2. \A s \in Sem : wl_list[s] # <<>> => sem_count[s] < 1
  BY <1>1 DEF NoLostWakeup
<1>3. QED
  BY <1>2 DEF NoLostWakeup

(* krlsem_up raises the count and is about to walk the list.               *)
LEMMA WakeupRaised ==
  ASSUME TInv, NoLostWakeup, Kstk = <<>> \/ Top.op # "allup",
         NEW s \in Sem, RaiseCount(s), NEW k, Fits(k),
         KstkBecomes(Append(k, Pend("allup", s))),
         UNCHANGED <<wl_list, sda_currtd>>
  PROVE  NoLostWakeup'
<1> SUFFICES ASSUME NEW x \in Sem, wl_list[x] # <<>>
             PROVE  sem_count'[x] < 1 \/ (Kstk' # <<>> /\ Top' = Pend("allup", x))
  BY DEF NoLostWakeup
<1>1. Pend("allup", s) \in Call /\ Pend("allup", s).op \notin {"down", "exit"}
  BY CallTypes
<1>2. Kstk' = Append(k, Pend("allup", s))
  <2>1. Fits(Append(k, Pend("allup", s)))
    BY <1>1, PushFits
  <2>2. QED
    BY <2>1, BecomesFits DEF Kstk
<1>3. CASE x = s
  <2>1. Kstk' # <<>> /\ Kstk'[Len(Kstk')] = Pend("allup", s)
    <3>1. k \in Seq(Call)
      BY DEF Fits
    <3>2. QED
      BY <1>1, <1>2, <3>1, AppendProperties, LenProperties, EmptySeq
  <2>2. QED
    BY <1>3, <2>1 DEF Top
<1>4. CASE x # s
  <2>1. Pend("allup", x).op = "allup"
    BY CallTypes
  <2>2. sem_count[x] < 1
    BY <2>1 DEF NoLostWakeup
  <2>3. sem_count'[x] = sem_count[x]
    BY <1>4 DEF RaiseCount, TInv, TypeOK
  <2>4. QED
    BY <2>2, <2>3
<1>5. QED
  BY <1>3, <1>4

LEMMA UnlinkEmpty ==
  \A s \in Sem, t \in Thread : TInv /\ Unlink(wl_list[s], t) # <<>> => wl_list[s] # <<>>
BY EmptyOnList DEF Unlink

LEMMA NoLostWakeupStep ==
  ASSUME TInv, NoLostWakeup, [Next]_vars
  PROVE  NoLostWakeup'
<1>1. ASSUME ChkNeed \/ Select \/ SetFlgs \/ IdleLoop \/ Switch \/ CallExit
      PROVE  NoLostWakeup'
  BY <1>1, WakeupKept
     DEF ChkNeed, Select, SetFlgs, IdleLoop, Switch, CallExit, At, AtCode, semVars
<1>2. ASSUME TimerIrq
      PROVE  NoLostWakeup'
  BY <1>2, WakeupKept DEF TimerIrq, IrqEnabled, semVars
<1>3. ASSUME NEW s \in Sem, CallDown(s)
      PROVE  NoLostWakeup'
  BY <1>3, WakeupKept DEF CallDown, AtCode, semVars
<1>4. ASSUME NEW t \in Thread, NEW p \in Prio, CallNewThread(t, p)
      PROVE  NoLostWakeup'
  BY <1>4, WakeupKept DEF CallNewThread, AtCode, semVars
<1>5. ASSUME NEW s \in Sem, KeyIrq(s)
      PROVE  NoLostWakeup'
  <2>1. /\ Pend("chkneed", None) \in Call /\ Pend("chkneed", None).op \notin {"down", "exit"}
        /\ Pend("setflgs", None) \in Call /\ Pend("setflgs", None).op \notin {"down", "exit"}
    BY CallTypes
  <2>2. Fits(Append(Append(Kstk, Pend("chkneed", None)), Pend("setflgs", None)))
    BY <2>1, KstkFits, PushFits
  <2>3. QED
    BY <1>5, <2>2, WakeupRaised DEF KeyIrq, IrqEnabled
<1>6. ASSUME NEW s \in Sem, CallUp(s)
      PROVE  NoLostWakeup'
  <2>1. Pend("setflgs", None) \in Call /\ Pend("setflgs", None).op \notin {"down", "exit"}
    BY CallTypes
  <2>2. Fits(<<Pend("setflgs", None)>>)
    BY <2>1, OneFits
  <2>3. <<Pend("setflgs", None), Pend("allup", s)>>
          = Append(<<Pend("setflgs", None)>>, Pend("allup", s))
    OBVIOUS
  <2>4. QED
    BY <1>6, <2>2, <2>3, WakeupRaised DEF CallUp, AtCode
<1>7. ASSUME DownTake
      PROVE  NoLostWakeup'
  <2>1. Top.arg \in Sem /\ Top.op = "down" /\ UNCHANGED wl_list
    BY <1>7, KstkFits, CallTypes DEF DownTake, At
  <2>2. \A s \in Sem : sem_count'[s] = IF s = Top.arg THEN sem_count[s] - 1
                                      ELSE sem_count[s]
    BY <1>7 DEF DownTake, TInv, TypeOK
  <2>3. \A s \in Sem : wl_list[s] # <<>> => sem_count[s] < 1
    BY <2>1, CallTypes DEF NoLostWakeup
  <2>4. \A s \in Sem : wl_list'[s] # <<>> => sem_count'[s] < 1
    <3>1. \A s \in Sem : sem_count[s] \in Nat
      BY DEF TInv, TypeOK
    <3>2. \A s \in Sem : sem_count[s] < 1 => sem_count'[s] < 1
      BY <2>2, <3>1
    <3>3. QED
      BY <2>1, <2>3, <3>2
  <2>5. QED
    BY <2>4 DEF NoLostWakeup
<1>8. ASSUME ExitDel
      PROVE  NoLostWakeup'
  <2>1. sda_currtd \in Thread /\ Top.op # "allup"
    BY <1>8, ExitDelThread
  <2>2. \A s \in Sem : wl_list'[s] # <<>> => wl_list[s] # <<>>
    BY <1>8, <2>1, UnlinkEmpty DEF ExitDel
  <2>3. QED
    BY <1>8, <2>1, <2>2, WakeupKept DEF ExitDel
<1>9. ASSUME DownWait
      PROVE  NoLostWakeup'
  <2>1. ~HasUnit(Top.arg) /\ Top.arg \in Sem /\ Top.op = "down"
    BY <1>9, KstkFits, CallTypes DEF DownWait, At
  <2>2. sda_currtd \in Thread
    <3>1. Fits(Kstk) /\ Len(Kstk) \in 1 .. Len(Kstk)
      BY <1>9, KstkFits DEF DownWait, At
    <3>2. QED
      BY <2>1, <3>1 DEF Fits, Top, TInv, TypeOK, Runner
  <2>3. \A s \in Sem : wl_list'[s] # <<>> => s = Top.arg \/ wl_list[s] # <<>>
    BY <1>9, <2>2, UnlinkEmpty DEF DownWait
  <2>4. sem_count[Top.arg] < 1
    BY <2>1 DEF HasUnit, TInv, TypeOK
  <2>5. QED
    BY <1>9, <2>1, <2>3, <2>4, WakeupKept DEF DownWait
<1>10. ASSUME WakeDone
       PROVE  NoLostWakeup'
  <2>1. Top.arg \in Sem /\ wl_list[Top.arg] = <<>>
    BY <1>10, KstkFits, CallTypes DEF WakeDone, At, WokenAll
  <2>2. \A s \in Sem : wl_list[s] # <<>> => sem_count[s] < 1
    BY <2>1, CallTypes DEF NoLostWakeup
  <2>3. QED
    BY <1>10, <2>2 DEF WakeDone, semVars, NoLostWakeup
<1>11. ASSUME WakeOne
       PROVE  NoLostWakeup'
  <2>1. Top \in Call /\ Top.op = "allup" /\ Top.arg \in Sem /\ Kstk # <<>>
    BY <1>11, KstkFits, CallTypes DEF WakeOne, At
  <2>2. Top = Pend("allup", Top.arg)
    BY <2>1 DEF Call, Pend
  <2>3. Kstk' = Kstk /\ Top' = Top
    BY <1>11 DEF WakeOne, Kstk, Top
  <2>4. \A s \in Sem : s # Top.arg => wl_list'[s] = wl_list[s]
    BY <1>11 DEF WakeOne, TInv, TypeOK
  <2>5. UNCHANGED sem_count
    BY <1>11 DEF WakeOne
  <2>6. QED
    BY <2>1, <2>2, <2>3, <2>4, <2>5 DEF NoLostWakeup
<1>12. ASSUME UNCHANGED vars
       PROVE  NoLostWakeup'
  BY <1>12 DEF vars, semVars, NoLostWakeup, Kstk, Top
<1>13. QED
  BY <1>1, <1>2, <1>3, <1>4, <1>5, <1>6, <1>7, <1>8, <1>9, <1>10, <1>11, <1>12
     DEF Next, KernelStep, ThreadCall, Irq

(* No wake-up is lost, with interrupts anywhere, in the window of          *)
(* krlschedul too: krlsem_down tests the count and joins the wait list     *)
(* with interrupts off, and krlsem_up empties that list.                   *)
THEOREM NoWakeupLost == Spec => []NoLostWakeup
<1>1. Init => NoLostWakeup
  BY DEF Init, NoLostWakeup
<1>2. TInv /\ NoLostWakeup /\ [Next]_vars => NoLostWakeup'
  BY NoLostWakeupStep
<1>3. QED
  BY <1>1, <1>2, TypesHold, PTL DEF Spec

-----------------------------------------------------------------------------
(* The semaphores of the kernel implement CountingSem, with interrupts     *)
(* anywhere.                                                               *)

(* Does a stack hold a krlsem_down of this semaphore? *)
Asks(k, x) == \E i \in 1 .. Len(k) : k[i] = Pend("down", x)

LEMMA DownCalls ==
  /\ \A x, y \in Sem : Pend("down", x) = Pend("down", y) => x = y
  /\ \A c \in Call : c.op = "down" => c.arg \in Sem /\ c = Pend("down", c.arg)
  /\ \A c \in Call, x \in Sem : c.op # "down" => c # Pend("down", x)
BY DEF Call, Pend

LEMMA PushAsks ==
  ASSUME NEW k, Fits(k), NEW c \in Call, c.op # "down", NEW x \in Sem
  PROVE  Asks(Append(k, c), x) <=> Asks(k, x)
<1>1. k \in Seq(Call)
  BY DEF Fits
<1>2. /\ Len(k) \in Nat
      /\ Len(Append(k, c)) = Len(k) + 1
      /\ Append(k, c)[Len(k) + 1] = c
      /\ \A i \in 1 .. Len(k) : Append(k, c)[i] = k[i]
  BY <1>1, AppendProperties, LenProperties
<1>3. c # Pend("down", x)
  BY DownCalls
<1>4. QED
  BY <1>2, <1>3 DEF Asks

LEMMA PopAsks ==
  ASSUME TInv, Kstk # <<>>, Top.op # "down", NEW x \in Sem
  PROVE  Asks(Caller, x) <=> Asks(Kstk, x)
<1>1. /\ Len(Kstk) \in Nat
      /\ Len(Caller) = Len(Kstk) - 1
      /\ \A i \in 1 .. Len(Caller) : Caller[i] = Kstk[i]
      /\ Kstk[Len(Kstk)] # Pend("down", x)
  BY KstkFits, DownCalls DEF Top
<1>2. QED
  BY <1>1 DEF Asks

(* What a step makes of the stack of the running thread decides who asks.  *)
LEMMA AskingBecomes ==
  ASSUME TInv, NEW k, Fits(k), KstkBecomes(k), NEW x \in Sem, NEW t \in Thread
  PROVE  /\ t # sda_currtd => (t \in Asking'[x] <=> t \in Asking[x])
         /\ t = sda_currtd => (t \in Asking'[x] <=> Asks(k, x))
         /\ t = sda_currtd => (t \in Asking[x] <=> Asks(Kstk, x))
<1>1. /\ td_kstk'[sda_currtd] = k
      /\ \A y \in Runner : y # sda_currtd => td_kstk'[y] = td_kstk[y]
  BY BecomesFits
<1>2. t \in Runner
  BY DEF Runner
<1>3. /\ Asking[x] = {y \in Thread : Asks(td_kstk[y], x)}
      /\ Asking'[x] = {y \in Thread : Asks(td_kstk'[y], x)}
  BY DEF Asking, Asks
<1>4. QED
  BY <1>1, <1>2, <1>3 DEF Kstk

LEMMA AskingFunction ==
  /\ Asking = [x \in Sem |-> Asking[x]]
  /\ \A x \in Sem : Asking[x] \subseteq Thread
BY DEF Asking

LEMMA AskingPrimeFunction ==
  /\ Asking' = [x \in Sem |-> Asking'[x]]
  /\ \A x \in Sem : Asking'[x] \subseteq Thread
BY DEF Asking

LEMMA AskingKept ==
  ASSUME TInv, NEW k, Fits(k), KstkBecomes(k),
         \A x \in Sem : Asks(k, x) <=> Asks(Kstk, x)
  PROVE  Asking' = Asking
<1>1. \A x \in Sem, t \in Thread : t \in Asking'[x] <=> t \in Asking[x]
  BY AskingBecomes
<1>2. \A x \in Sem : Asking'[x] = Asking[x]
  BY <1>1, AskingFunction, AskingPrimeFunction
<1>3. QED
  BY <1>2, AskingFunction, AskingPrimeFunction

(* An empty stack asks for nothing, nor does one that waits for nothing.   *)
LEMMA AsksNothing ==
  /\ \A x \in Sem : ~Asks(<<>>, x)
  /\ \A c \in Call, x \in Sem : c.op # "down" => ~Asks(<<c>>, x)
  /\ \A c, d \in Call, x \in Sem :
       c.op # "down" /\ d.op # "down" => ~Asks(<<c, d>>, x)
  /\ \A x, y \in Sem : Asks(<<Pend("down", y)>>, x) <=> x = y
<1>1. \A x \in Sem : ~Asks(<<>>, x)
  BY DEF Asks
<1>2. \A c \in Call, x \in Sem : c.op # "down" => ~Asks(<<c>>, x)
  BY DownCalls DEF Asks
<1>3. \A c, d \in Call, x \in Sem :
        c.op # "down" /\ d.op # "down" => ~Asks(<<c, d>>, x)
  BY DownCalls DEF Asks
<1>4. \A x, y \in Sem : Asks(<<Pend("down", y)>>, x) <=> x = y
  BY DownCalls DEF Asks
<1>5. QED
  BY <1>1, <1>2, <1>3, <1>4

-----------------------------------------------------------------------------
(* Steps that the abstract semaphores do not see. *)

LEMMA PopStutters ==
  ASSUME TInv, Kstk # <<>>, Top.op # "down", KstkBecomes(Caller)
  PROVE  Asking' = Asking
<1>1. Fits(Caller)
  BY KstkFits
<1>2. QED
  BY <1>1, PopAsks, AskingKept

LEMMA PopPushStutters ==
  ASSUME TInv, Kstk # <<>>, Top.op # "down", NEW c \in Call,
         c.op \notin {"down", "exit"},
         KstkBecomes(Append(Caller, c))
  PROVE  Asking' = Asking
<1>1. Fits(Caller) /\ Fits(Append(Caller, c))
  BY KstkFits, PushFits
<1>2. \A x \in Sem : Asks(Append(Caller, c), x) <=> Asks(Kstk, x)
  BY <1>1, PushAsks, PopAsks
<1>3. QED
  BY <1>1, <1>2, AskingKept

LEMMA PushStutters ==
  ASSUME TInv, NEW c \in Call, c.op \notin {"down", "exit"}, KstkBecomes(Append(Kstk, c))
  PROVE  Asking' = Asking
<1>1. Fits(Kstk) /\ Fits(Append(Kstk, c))
  BY KstkFits, PushFits
<1>2. QED
  BY <1>1, PushAsks, AskingKept

LEMMA StartStutters ==
  ASSUME TInv, Kstk = <<>>, NEW c \in Call, KstkBecomes(<<c>>),
         c.op # "down", c.op = "exit" => sda_currtd # Idle
  PROVE  Asking' = Asking
<1>1. Fits(<<c>>)
  BY OneFits
<1>2. \A x \in Sem : Asks(<<c>>, x) <=> Asks(Kstk, x)
  BY AsksNothing
<1>3. QED
  BY <1>1, <1>2, AskingKept

LEMMA UntouchedStutters ==
  ASSUME UNCHANGED td_kstk
  PROVE  Asking' = Asking
BY DEF Asking

LEMMA StutterSteps ==
  ASSUME TInv,
         \/ ChkNeed \/ Select \/ Switch \/ WakeOne \/ WakeDone \/ SetFlgs
         \/ DownWait \/ ExitDel \/ IdleLoop \/ CallExit \/ TimerIrq
         \/ \E t \in Thread, p \in Prio : CallNewThread(t, p)
         \/ UNCHANGED vars
  PROVE  Asking' = Asking /\ sem_count' = sem_count
<1>1. /\ Pend("select", None) \in Call /\ Pend("select", None).op \notin {"down", "exit"}
      /\ Pend("chkneed", None) \in Call /\ Pend("chkneed", None).op \notin {"down", "exit"}
  BY CallTypes
<1>2. ASSUME ChkNeed
      PROVE  Asking' = Asking
  BY <1>1, <1>2, PopStutters, PopPushStutters DEF ChkNeed, At
<1>3. ASSUME Select
      PROVE  Asking' = Asking
  <2>1. \A n \in Runner : Pend("switch", n) \in Call /\ Pend("switch", n).op \notin {"down", "exit"}
    BY CallTypes
  <2>2. \A p \in Prio : \A i \in 1 .. Len(tdl_lsth[p]) : tdl_lsth[p][i] \in Runner
    BY ElementOfSeq DEF TInv, TypeOK, Runner
  <2>3. \A p \in Prio : Least(p, Busy) /\ SelectCurrent(p) => tdl_curruntd[p] \in Runner
    BY DEF Least, Busy, SelectCurrent, TInv, TypeOK, Runner
  <2>4. Idle \in Runner
    BY DEF Runner
  <2>5. PICK n \in Runner : KstkBecomes(Append(Caller, Pend("switch", n)))
    BY <1>3, <2>2, <2>3, <2>4 DEF Select, SelectIdle, SelectFromList, SelectCurrent
  <2>6. QED
    BY <1>3, <2>1, <2>5, PopPushStutters DEF Select, At
<1>4. ASSUME Switch \/ WakeDone \/ SetFlgs
      PROVE  Asking' = Asking
  BY <1>4, PopStutters DEF Switch, WakeDone, SetFlgs, At
<1>5. ASSUME WakeOne \/ (\E t \in Thread, p \in Prio : CallNewThread(t, p))
               \/ UNCHANGED vars
      PROVE  Asking' = Asking
  BY <1>5, UntouchedStutters DEF WakeOne, CallNewThread, vars
<1>6. ASSUME DownWait
      PROVE  Asking' = Asking
  BY <1>1, <1>6, PushStutters, UntouchedStutters DEF DownWait
<1>7. ASSUME IdleLoop
      PROVE  Asking' = Asking
  BY <1>1, <1>7, StartStutters DEF IdleLoop, AtCode
<1>8. ASSUME CallExit \/ ExitDel
      PROVE  Asking' = Asking
  <2>1. CASE CallExit
    <3>1. Pend("exit", None) \in Call /\ Pend("exit", None).op = "exit"
      BY CallTypes
    <3>2. QED
      BY <2>1, <3>1, StartStutters, UntouchedStutters DEF CallExit, AtCode
  <2>2. CASE ExitDel
    BY <1>1, <2>2, ExitDelThread, PopPushStutters DEF ExitDel
  <2>3. QED
    BY <1>8, <2>1, <2>2
<1>9. ASSUME TimerIrq
      PROVE  Asking' = Asking
  BY <1>1, <1>9, PushStutters DEF TimerIrq
<1>10. sem_count' = sem_count
  BY DEF ChkNeed, Select, Switch, WakeOne, WakeDone, SetFlgs, DownWait, IdleLoop,
         CallExit, ExitDel, TimerIrq, CallNewThread, vars, semVars
<1>11. QED
  BY <1>2, <1>3, <1>4, <1>5, <1>6, <1>7, <1>8, <1>9, <1>10

-----------------------------------------------------------------------------
(* Steps that they see. *)

LEMMA CallDownAsks ==
  ASSUME TInv, NEW s \in Sem, CallDown(s)
  PROVE  Abstract!Ask(sda_currtd, s) /\ sda_currtd \in Thread
<1> DEFINE t == sda_currtd
<1>1. t \in Thread /\ Kstk = <<>> /\ KstkBecomes(<<Pend("down", s)>>)
  BY DEF CallDown, AtCode, TInv, TypeOK, Runner
<1>2. Fits(<<Pend("down", s)>>)
  BY CallTypes, OneFits DEF CallDown
<1>3. \A x \in Sem : t \notin Asking[x] /\ (t \in Asking'[x] <=> x = s)
  BY <1>1, <1>2, AskingBecomes, AsksNothing
<1>4. \A x \in Sem, y \in Thread : y # t => (y \in Asking'[x] <=> y \in Asking[x])
  BY <1>1, <1>2, AskingBecomes
<1> HIDE DEF t
<1>5. \A x \in Sem : Asking'[x] = IF x = s THEN Asking[x] \cup {t} ELSE Asking[x]
  <2> SUFFICES ASSUME NEW x \in Sem
               PROVE  Asking'[x] = IF x = s THEN Asking[x] \cup {t} ELSE Asking[x]
    OBVIOUS
  <2>1. Asking'[x] \subseteq Thread /\ Asking[x] \subseteq Thread
    BY AskingFunction, AskingPrimeFunction
  <2>2. \A y \in Thread : y \in Asking'[x] <=> (y \in Asking[x] \/ (x = s /\ y = t))
    BY <1>3, <1>4
  <2>3. QED
    BY <1>1, <2>1, <2>2
<1>6. Asking' = [Asking EXCEPT ![s] = @ \cup {t}]
  BY <1>5, AskingFunction, AskingPrimeFunction
<1>7. UNCHANGED sem_count
  BY DEF CallDown, semVars
<1>8. QED
  BY <1>1, <1>3, <1>6, <1>7 DEF Abstract!Ask, t

LEMMA DownTakeTakes ==
  ASSUME TInv, DownTake
  PROVE  Abstract!Take(sda_currtd, Top.arg) /\ sda_currtd \in Thread /\ Top.arg \in Sem
<1> DEFINE t == sda_currtd
           s == Top.arg
<1>1. /\ Kstk # <<>> /\ Top.op = "down" /\ Top \in Call /\ s \in Sem
      /\ Fits(Kstk) /\ Len(Kstk) \in 1 .. Len(Kstk) /\ KstkBecomes(Caller)
      /\ Fits(Caller) /\ Len(Caller) = Len(Kstk) - 1
  BY KstkFits, CallTypes DEF DownTake, At
<1>2. Len(Kstk) = 1 /\ t \in Thread
  BY <1>1 DEF Fits, Top, TInv, TypeOK, Runner
<1>3. Kstk[1] = Pend("down", s)
  BY <1>1, <1>2, DownCalls DEF Top
<1>4. \A x \in Sem : ~Asks(Caller, x) /\ (Asks(Kstk, x) <=> x = s)
  BY <1>1, <1>2, <1>3, DownCalls DEF Asks
<1> HIDE DEF t, s
<1>5. \A x \in Sem : t \notin Asking'[x] /\ (t \in Asking[x] <=> x = s)
  BY <1>1, <1>2, <1>4, AskingBecomes DEF t
<1>6. \A x \in Sem, y \in Thread : y # t => (y \in Asking'[x] <=> y \in Asking[x])
  BY <1>1, AskingBecomes DEF t
<1>7. \A x \in Sem : Asking'[x] = IF x = s THEN Asking[x] \ {t} ELSE Asking[x]
  BY <1>5, <1>6, AskingFunction, AskingPrimeFunction
<1>8. Asking' = [Asking EXCEPT ![s] = @ \ {t}]
  BY <1>7, AskingFunction, AskingPrimeFunction
<1>9. sem_count[s] > 0 /\ sem_count' = [sem_count EXCEPT ![s] = @ - 1]
  BY <1>1 DEF DownTake, HasUnit, s, TInv, TypeOK
<1>10. QED
  BY <1>1, <1>2, <1>5, <1>8, <1>9 DEF Abstract!Take, t, s

LEMMA UpGives ==
  ASSUME TInv, NEW s \in Sem, KeyIrq(s) \/ CallUp(s)
  PROVE  Abstract!Give(s)
<1>1. /\ Pend("chkneed", None) \in Call /\ Pend("chkneed", None).op \notin {"down", "exit"}
      /\ Pend("setflgs", None) \in Call /\ Pend("setflgs", None).op \notin {"down", "exit"}
      /\ Pend("allup", s) \in Call /\ Pend("allup", s).op \notin {"down", "exit"}
  BY CallTypes
<1>2. ASSUME KeyIrq(s)
      PROVE  Asking' = Asking
  <2> DEFINE a == Append(Kstk, Pend("chkneed", None))
             b == Append(a, Pend("setflgs", None))
             k == Append(b, Pend("allup", s))
  <2>1. Fits(a) /\ \A x \in Sem : Asks(a, x) <=> Asks(Kstk, x)
    BY <1>1, KstkFits, PushFits, PushAsks
  <2> HIDE DEF a
  <2>2. Fits(b) /\ \A x \in Sem : Asks(b, x) <=> Asks(a, x)
    BY <1>1, <2>1, PushFits, PushAsks
  <2> HIDE DEF b
  <2>3. Fits(k) /\ \A x \in Sem : Asks(k, x) <=> Asks(b, x)
    BY <1>1, <2>2, PushFits, PushAsks
  <2> HIDE DEF k
  <2>4. KstkBecomes(k)
    BY <1>2 DEF KeyIrq, a, b, k
  <2>5. QED
    BY <2>1, <2>2, <2>3, <2>4, AskingKept
<1>3. ASSUME CallUp(s)
      PROVE  Asking' = Asking
  <2> DEFINE k == <<Pend("setflgs", None), Pend("allup", s)>>
  <2>1. Fits(k)
    BY <1>1 DEF Fits
  <2>2. \A x \in Sem : Asks(k, x) <=> Asks(Kstk, x)
    BY <1>1, <1>3, AsksNothing DEF CallUp, AtCode
  <2> HIDE DEF k
  <2>3. KstkBecomes(k)
    BY <1>3 DEF CallUp, k
  <2>4. QED
    BY <2>1, <2>2, <2>3, AskingKept
<1>4. sem_count' = [sem_count EXCEPT ![s] = @ + 1]
  BY DEF KeyIrq, CallUp, RaiseCount
<1>5. QED
  BY <1>2, <1>3, <1>4 DEF Abstract!Give

(* The semaphores implement CountingSem: no unit is taken that was not     *)
(* given, none is taken twice, and only a thread inside krlsem_down takes  *)
(* one, wherever interrupts and wake-ups come in between.                  *)
THEOREM SemaphoresAreSafe == Spec => SemIsSafe
<1>1. Init => Abstract!CSInit
  <2> SUFFICES ASSUME Init
               PROVE  Abstract!CSInit
    OBVIOUS
  <2>1. \A t \in Thread : td_kstk[t] = <<>>
    BY DEF Init, Runner
  <2>2. Asking = [s \in Sem |-> {}]
    BY <2>1 DEF Asking
  <2>3. QED
    BY <2>2 DEF Init, Abstract!CSInit
<1>2. TInv /\ [Next]_vars => [Abstract!CSNext]_(Abstract!semaphores)
  <2> SUFFICES ASSUME TInv, [Next]_vars
               PROVE  [Abstract!CSNext]_(Abstract!semaphores)
    OBVIOUS
  <2>1. ASSUME NEW s \in Sem, CallDown(s)
        PROVE  Abstract!CSNext
    BY <2>1, CallDownAsks DEF Abstract!CSNext
  <2>2. ASSUME DownTake
        PROVE  Abstract!CSNext
    BY <2>2, DownTakeTakes DEF Abstract!CSNext
  <2>3. ASSUME NEW s \in Sem, KeyIrq(s) \/ CallUp(s)
        PROVE  Abstract!CSNext
    BY <2>3, UpGives DEF Abstract!CSNext
  <2>4. QED
    BY <2>1, <2>2, <2>3, StutterSteps
       DEF Next, KernelStep, ThreadCall, Irq, Abstract!semaphores
<1>3. QED
  BY <1>1, <1>2, TypesHold, PTL DEF Spec, SemIsSafe, Abstract!CSSafe

-----------------------------------------------------------------------------
(* A node is linked at most once, wherever interrupts arrive: what is left *)
(* of the scheduler's safety when one may come between select and switch.  *)

InRun(t, p) == OnList(t, tdl_lsth[p]) \/ tdl_curruntd[p] = t

(* No list holds a thread twice; a run list and a current thread are of    *)
(* their priority; a thread has one place, and one that was never created  *)
(* has none.                                                               *)
OInv ==
  /\ \A p \in Prio : NoDup(tdl_lsth[p])
  /\ \A s \in Sem : NoDup(wl_list[s])
  /\ \A t \in Thread, p \in Prio : InRun(t, p) =>
       /\ td_priority[t] = p /\ td_stus[t] # "free"
       /\ ~(OnList(t, tdl_lsth[p]) /\ tdl_curruntd[p] = t)
  /\ \A t \in Thread, s \in Sem : OnList(t, wl_list[s]) =>
       /\ td_stus[t] # "free" /\ t \notin sda_exitlist
       /\ \A p \in Prio : ~InRun(t, p)
       /\ \A x \in Sem : OnList(t, wl_list[x]) => x = s
  /\ \A t \in Thread : t \in sda_exitlist =>
       td_stus[t] # "free" /\ \A p \in Prio : ~InRun(t, p)

(* list_del takes its node off, wherever it is. *)
LEMMA UnlinkOnList ==
  ASSUME NEW S, NEW q \in Seq(S), NEW t, NoDup(q)
  PROVE  /\ NoDup(Unlink(q, t))
         /\ \A x : OnList(x, Unlink(q, t)) <=> OnList(x, q) /\ x # t
<1>1. CASE OnList(t, q)
  <2> DEFINE i == CHOOSE i \in 1 .. Len(q) : q[i] = t
  <2>1. i \in 1 .. Len(q) /\ q[i] = t
    BY <1>1 DEF OnList
  <2> HIDE DEF i
  <2>2. /\ NoDup(Without(q, i))
        /\ \A x : OnList(x, Without(q, i)) <=> OnList(x, q) /\ x # q[i]
    BY <2>1, WithoutOnList
  <2>3. Unlink(q, t) = Without(q, i)
    BY <1>1 DEF Unlink, i
  <2>4. QED
    BY <2>1, <2>2, <2>3
<1>2. CASE ~OnList(t, q)
  BY <1>2 DEF Unlink
<1>3. QED
  BY <1>1, <1>2

(* The current thread of the priority gives way to the one that was chosen.*)
LEMMA RequeueOnList ==
  ASSUME NEW q \in Seq(Thread), NoDup(q), NEW i \in 1 .. Len(q),
         NEW c \in Thread \cup {None}, c # None => ~OnList(c, q)
  PROVE  LET r == Requeue(Without(q, i), c)
         IN /\ r \in Seq(Thread)
            /\ NoDup(r)
            /\ Len(r) = Len(q) - (IF c = None THEN 1 ELSE 0)
            /\ \A x \in Thread :
                 OnList(x, r) <=> (x # q[i] /\ OnList(x, q)) \/ x = c
<1> DEFINE w == Without(q, i)
<1>1. /\ w \in Seq(Thread)
      /\ Len(w) = Len(q) - 1
      /\ NoDup(w)
      /\ \A x : OnList(x, w) <=> OnList(x, q) /\ x # q[i]
      /\ Len(q) \in Nat
  BY WithoutIsSeq, WithoutOnList, LenProperties
<1> HIDE DEF w
<1>2. CASE c = None
  BY <1>1, <1>2, SchedAssumption DEF Requeue, w
<1>3. CASE c # None
  <2>1. ~OnList(c, w) /\ c \in Thread
    BY <1>1, <1>3
  <2>2. /\ Append(w, c) \in Seq(Thread)
        /\ Len(Append(w, c)) = Len(w) + 1
        /\ NoDup(Append(w, c))
        /\ \A x : OnList(x, Append(w, c)) <=> OnList(x, w) \/ x = c
    BY <1>1, <2>1, AppendOnList
  <2>3. Requeue(w, c) = Append(w, c)
    BY <1>3 DEF Requeue
  <2>4. QED
    BY <1>1, <1>3, <2>2, <2>3 DEF w
<1>4. QED
  BY <1>2, <1>3

(* A step that moves no thread. *)
LEMMA OnceKept ==
  ASSUME OInv, UNCHANGED <<runVars, wl_list, sda_exitlist, td_priority>>,
         \A t \in Thread : td_stus'[t] = "free" => td_stus[t] = "free"
  PROVE  OInv'
<1>1. /\ tdl_lsth' = tdl_lsth /\ tdl_curruntd' = tdl_curruntd
      /\ wl_list' = wl_list /\ sda_exitlist' = sda_exitlist
      /\ td_priority' = td_priority
  BY DEF runVars
<1>2. QED
  BY <1>1 DEF OInv, InRun

(* krlschedul takes a thread off its list for the one that had the CPU.    *)
LEMMA SelectFromListOnce ==
  ASSUME TInv, OInv, NEW p \in Prio, NEW i \in 1 .. Len(tdl_lsth[p]),
         SelectFromList(p, i),
         UNCHANGED <<wl_list, sda_exitlist, td_priority, td_stus>>
  PROVE  OInv'
<1> DEFINE q == tdl_lsth[p]
           n == q[i]
           c == tdl_curruntd[p]
           r == Requeue(Without(q, i), c)
<1>1. /\ q \in Seq(Thread) /\ NoDup(q) /\ c \in Thread \cup {None}
      /\ c # None => ~OnList(c, q)
      /\ tdl_lsth \in [Prio -> Seq(Thread)] /\ tdl_curruntd \in [Prio -> Thread \cup {None}]
  BY DEF OInv, TInv, TypeOK, InRun
<1>2. n \in Thread /\ OnList(n, q) /\ n # c
  <2>1. n \in Thread /\ OnList(n, q)
    BY <1>1, ElementOfSeq DEF OnList
  <2>2. n # None
    BY <2>1, SchedAssumption
  <2>3. QED
    BY <1>1, <2>1, <2>2
<1>3. /\ NoDup(r)
      /\ \A x \in Thread : OnList(x, r) <=> (x # n /\ OnList(x, q)) \/ x = c
  BY <1>1, RequeueOnList
<1>4. /\ tdl_lsth' = [tdl_lsth EXCEPT ![p] = r]
      /\ tdl_curruntd' = [tdl_curruntd EXCEPT ![p] = n]
  BY DEF SelectFromList
<1> HIDE DEF n, c, r
<1>5. /\ tdl_lsth'[p] = r /\ tdl_curruntd'[p] = n
      /\ \A x \in Prio : x # p => /\ tdl_lsth'[x] = tdl_lsth[x]
                                  /\ tdl_curruntd'[x] = tdl_curruntd[x]
  BY <1>1, <1>4
<1>6. \A t \in Thread, x \in Prio : InRun(t, x)' <=> InRun(t, x)
  <2>1. \A t \in Thread : InRun(t, p)' <=> InRun(t, p)
    BY <1>2, <1>3, <1>5 DEF InRun, c
  <2>2. QED
    BY <1>5, <2>1 DEF InRun
<1>7. \A x \in Prio : NoDup(tdl_lsth'[x])
  BY <1>3, <1>5 DEF OInv
<1>8. \A t \in Thread, x \in Prio : ~(OnList(t, tdl_lsth'[x]) /\ tdl_curruntd'[x] = t)
  <2>1. \A t \in Thread : ~(OnList(t, r) /\ n = t)
    BY <1>2, <1>3
  <2>2. QED
    BY <1>5, <2>1 DEF OInv, InRun
<1>9. wl_list' = wl_list /\ sda_exitlist' = sda_exitlist
      /\ td_priority' = td_priority /\ td_stus' = td_stus
  OBVIOUS
<1> DEFINE Run(t, x) == InRun(t, x)
<1>10. \A t \in Thread, x \in Prio : InRun(t, x)' => td_priority'[t] = x /\ td_stus'[t] # "free"
  BY <1>6, <1>9 DEF OInv
<1>11. \A t \in Thread, s \in Sem : OnList(t, wl_list'[s]) =>
         /\ td_stus'[t] # "free" /\ t \notin sda_exitlist'
         /\ \A x \in Prio : ~InRun(t, x)'
         /\ \A x \in Sem : OnList(t, wl_list'[x]) => x = s
  BY <1>6, <1>9 DEF OInv
<1>12. \A t \in Thread : t \in sda_exitlist' =>
         td_stus'[t] # "free" /\ \A x \in Prio : ~InRun(t, x)'
  BY <1>6, <1>9 DEF OInv
<1>13. QED
  BY <1>7, <1>8, <1>9, <1>10, <1>11, <1>12 DEF OInv

(* A woken thread moves from the wait list to the run list. *)
LEMMA WakeOneOnce ==
  ASSUME TInv, OInv, WakeOne
  PROVE  OInv'
<1> DEFINE s == Top.arg
           t == Head(wl_list[s])
           p == td_priority[t]
<1>1. s \in Sem /\ wl_list[s] # <<>>
  BY KstkFits, CallTypes DEF WakeOne, At
<1>2. /\ tdl_lsth \in [Prio -> Seq(Thread)] /\ wl_list \in [Sem -> Seq(Thread)]
      /\ td_priority \in [Thread -> Prio] /\ td_stus \in [Thread -> Status]
  BY DEF TInv, TypeOK
<1>3. /\ UNCHANGED <<td_priority, sda_exitlist>>
      /\ \/ UNCHANGED <<runVars, td_stus, wl_list>>
         \/ /\ wl_list' = [wl_list EXCEPT ![s] = Tail(@)]
            /\ td_stus' = [td_stus EXCEPT ![t] = "run"]
            /\ tdl_lsth' = [tdl_lsth EXCEPT ![p] = Append(@, t)]
            /\ tdl_curruntd' = tdl_curruntd
  BY DEF WakeOne, Enlist, nrVars
<1>4. wl_list[s] \in Seq(Thread) /\ NoDup(wl_list[s])
  BY <1>1, <1>2 DEF OInv
<1>5. /\ t \in Thread /\ OnList(t, wl_list[s])
      /\ NoDup(Tail(wl_list[s]))
      /\ \A x : OnList(x, Tail(wl_list[s])) <=> OnList(x, wl_list[s]) /\ x # t
  BY <1>1, <1>4, TailOnList
<1>6. p \in Prio
  BY <1>2, <1>5
<1> HIDE DEF s, t, p
<1>7. /\ td_stus[t] # "free" /\ t \notin sda_exitlist
      /\ \A x \in Prio : ~InRun(t, x)
      /\ \A x \in Sem : OnList(t, wl_list[x]) => x = s
  BY <1>1, <1>5 DEF OInv
<1>8. CASE UNCHANGED <<runVars, td_stus, wl_list>>
  BY <1>3, <1>8, OnceKept
<1>9. CASE /\ wl_list' = [wl_list EXCEPT ![s] = Tail(@)]
           /\ td_stus' = [td_stus EXCEPT ![t] = "run"]
           /\ tdl_lsth' = [tdl_lsth EXCEPT ![p] = Append(@, t)]
           /\ tdl_curruntd' = tdl_curruntd
  <2>1. /\ NoDup(Append(tdl_lsth[p], t))
        /\ \A x : OnList(x, Append(tdl_lsth[p], t)) <=> OnList(x, tdl_lsth[p]) \/ x = t
    <3>1. /\ tdl_lsth[p] \in Seq(Thread) /\ NoDup(tdl_lsth[p]) /\ ~OnList(t, tdl_lsth[p])
      BY <1>2, <1>6, <1>7 DEF OInv, InRun
    <3>2. QED
      BY <1>5, <3>1, AppendOnList
  <2>2. /\ wl_list'[s] = Tail(wl_list[s])
        /\ \A x \in Sem : x # s => wl_list'[x] = wl_list[x]
        /\ tdl_lsth'[p] = Append(tdl_lsth[p], t)
        /\ \A x \in Prio : x # p => tdl_lsth'[x] = tdl_lsth[x]
        /\ \A u \in Thread : td_stus'[u] = IF u = t THEN "run" ELSE td_stus[u]
        /\ td_priority' = td_priority /\ sda_exitlist' = sda_exitlist
        /\ tdl_curruntd' = tdl_curruntd
    BY <1>1, <1>2, <1>3, <1>5, <1>6, <1>9
  <2>3. /\ \A u \in Thread, x \in Prio : OnList(u, tdl_lsth'[x]) <=>
             OnList(u, tdl_lsth[x]) \/ (u = t /\ x = p)
        /\ \A u \in Thread, x \in Sem : OnList(u, wl_list'[x]) <=>
             OnList(u, wl_list[x]) /\ u # t
    BY <1>1, <1>5, <1>7, <2>1, <2>2
  <2>4. (\A x \in Prio : NoDup(tdl_lsth'[x])) /\ (\A x \in Sem : NoDup(wl_list'[x]))
    BY <1>5, <2>1, <2>2 DEF OInv
  <2>5. \A u \in Thread, x \in Prio :
          /\ OnList(u, tdl_lsth'[x]) \/ tdl_curruntd'[x] = u =>
               td_priority'[u] = x /\ td_stus'[u] # "free"
          /\ ~(OnList(u, tdl_lsth'[x]) /\ tdl_curruntd'[x] = u)
    BY <1>6, <1>7, <2>2, <2>3 DEF OInv, InRun, p
  <2>6. \A u \in Thread, y \in Sem : OnList(u, wl_list'[y]) =>
          /\ td_stus'[u] # "free" /\ u \notin sda_exitlist'
          /\ \A x \in Prio : ~(OnList(u, tdl_lsth'[x]) \/ tdl_curruntd'[x] = u)
          /\ \A x \in Sem : OnList(u, wl_list'[x]) => x = y
    BY <2>2, <2>3 DEF OInv, InRun
  <2>7. \A u \in Thread : u \in sda_exitlist' =>
          /\ td_stus'[u] # "free"
          /\ \A x \in Prio : ~(OnList(u, tdl_lsth'[x]) \/ tdl_curruntd'[x] = u)
    BY <1>7, <2>2, <2>3 DEF OInv, InRun
  <2>8. QED
    BY <2>4, <2>5, <2>6, <2>7 DEF OInv, InRun
<1>10. QED
  BY <1>3, <1>8, <1>9

(* The running thread leaves every list and goes to one wait list, or to   *)
(* the exit list.                                                          *)
LEMMA LeaveOnce ==
  ASSUME TInv, OInv, NEW t \in Thread, NEW p, p = td_priority[t], LeaveRun(t, p),
         UNCHANGED td_priority, NEW st, st # "free",
         td_stus' = [td_stus EXCEPT ![t] = st]
  PROVE  /\ \A x \in Prio : NoDup(tdl_lsth'[x])
         /\ \A u \in Thread, x \in Prio : InRun(u, x)' <=> InRun(u, x) /\ u # t
         /\ \A u \in Thread, x \in Prio : InRun(u, x)' =>
              /\ td_priority'[u] = x /\ td_stus'[u] # "free"
              /\ ~(OnList(u, tdl_lsth'[x]) /\ tdl_curruntd'[x] = u)
         /\ \A u \in Thread : td_stus'[u] = IF u = t THEN st ELSE td_stus[u]
<1>1. /\ tdl_lsth \in [Prio -> Seq(Thread)] /\ tdl_curruntd \in [Prio -> Thread \cup {None}]
      /\ td_priority \in [Thread -> Prio] /\ td_stus \in [Thread -> Status]
      /\ p \in Prio
  BY DEF TInv, TypeOK
<1>2. ASSUME NEW x \in Prio
      PROVE  /\ NoDup(tdl_lsth'[x])
             /\ \A u : OnList(u, tdl_lsth'[x]) <=> OnList(u, tdl_lsth[x]) /\ u # t
  <2>1. tdl_lsth'[x] = Unlink(tdl_lsth[x], t)
    BY DEF LeaveRun
  <2>2. tdl_lsth[x] \in Seq(Thread) /\ NoDup(tdl_lsth[x])
    BY <1>1 DEF OInv
  <2>3. QED
    BY <2>1, <2>2, UnlinkOnList
<1>3. \A u \in Thread, x \in Prio : tdl_curruntd'[x] = u <=> tdl_curruntd[x] = u /\ u # t
  <2>1. /\ tdl_curruntd'[p] = IF tdl_curruntd[p] = t THEN None ELSE tdl_curruntd[p]
        /\ \A x \in Prio : x # p => tdl_curruntd'[x] = tdl_curruntd[x]
    BY <1>1 DEF LeaveRun, ClearCur
  <2>2. \A x \in Prio : tdl_curruntd[x] = t => x = p
    BY DEF OInv, InRun
  <2>3. QED
    BY <2>1, <2>2, SchedAssumption
<1>4. \A u \in Thread, x \in Prio : InRun(u, x)' <=> InRun(u, x) /\ u # t
  BY <1>2, <1>3 DEF InRun
<1>5. \A u \in Thread : td_stus'[u] = IF u = t THEN st ELSE td_stus[u]
  BY <1>1
<1>6. \A u \in Thread, x \in Prio : InRun(u, x)' =>
        /\ td_priority'[u] = x /\ td_stus'[u] # "free"
        /\ ~(OnList(u, tdl_lsth'[x]) /\ tdl_curruntd'[x] = u)
  BY <1>2, <1>3, <1>4, <1>5 DEF OInv
<1>7. QED
  BY <1>2, <1>4, <1>5, <1>6

LEMMA DownWaitOnce ==
  ASSUME TInv, OInv, DownWait
  PROVE  OInv'
<1> DEFINE t == sda_currtd
           s == Top.arg
           p == td_priority[t]
<1>1. t \in Thread /\ s \in Sem
  <2>1. Kstk # <<>> /\ Top.op = "down"
    BY DEF DownWait, At
  <2>2. s \in Sem
    BY <2>1, KstkFits, CallTypes
  <2>3. t \in Runner /\ t # Idle
    BY <2>1, KstkFits DEF TInv, TypeOK, DownFirst, Kstk, Top
  <2>4. QED
    BY <2>2, <2>3 DEF Runner
<1>2. /\ UNCHANGED td_priority
      /\ \/ UNCHANGED <<runVars, td_stus, wl_list, sda_exitlist>>
         \/ /\ td_stus' = [td_stus EXCEPT ![t] = "wait"]
            /\ LeaveRun(t, p)
            /\ wl_list' = [x \in Sem |-> IF x = s
                                         THEN AddHead(Unlink(wl_list[x], t), t)
                                         ELSE Unlink(wl_list[x], t)]
            /\ sda_exitlist' = sda_exitlist \ {t}
  BY DEF DownWait
<1>3. CASE UNCHANGED <<runVars, td_stus, wl_list, sda_exitlist>>
  BY <1>2, <1>3, OnceKept
<1>4. CASE /\ td_stus' = [td_stus EXCEPT ![t] = "wait"]
           /\ LeaveRun(t, p)
           /\ wl_list' = [x \in Sem |-> IF x = s
                                        THEN AddHead(Unlink(wl_list[x], t), t)
                                        ELSE Unlink(wl_list[x], t)]
           /\ sda_exitlist' = sda_exitlist \ {t}
  <2> HIDE DEF t, s, p
  <2>1. /\ \A x \in Prio : NoDup(tdl_lsth'[x])
        /\ \A u \in Thread, x \in Prio : InRun(u, x)' <=> InRun(u, x) /\ u # t
        /\ \A u \in Thread, x \in Prio : InRun(u, x)' =>
             /\ td_priority'[u] = x /\ td_stus'[u] # "free"
             /\ ~(OnList(u, tdl_lsth'[x]) /\ tdl_curruntd'[x] = u)
        /\ \A u \in Thread : td_stus'[u] = IF u = t THEN "wait" ELSE td_stus[u]
    <3>1. /\ p = td_priority[t] /\ LeaveRun(t, p) /\ UNCHANGED td_priority
          /\ td_stus' = [td_stus EXCEPT ![t] = "wait"]
      BY <1>2, <1>4 DEF p
    <3>2. PICK st : st = "wait"
      OBVIOUS
    <3>3. st # "free"
      BY <3>2
    <3>4. td_stus' = [td_stus EXCEPT ![t] = st]
      BY <3>1, <3>2
    <3>5. QED
      BY ONLY TInv, OInv, <1>1, <3>1, <3>2, <3>3, <3>4, LeaveOnce
  <2>2. ASSUME NEW x \in Sem
        PROVE  /\ NoDup(wl_list'[x])
               /\ \A u : OnList(u, wl_list'[x]) <=>
                    (OnList(u, wl_list[x]) /\ u # t) \/ (u = t /\ x = s)
    <3>1. wl_list[x] \in Seq(Thread) /\ NoDup(wl_list[x])
      BY DEF OInv, TInv, TypeOK
    <3>2. /\ Unlink(wl_list[x], t) \in Seq(Thread)
          /\ NoDup(Unlink(wl_list[x], t))
          /\ \A u : OnList(u, Unlink(wl_list[x], t)) <=> OnList(u, wl_list[x]) /\ u # t
      BY <3>1, UnlinkIsSeq, UnlinkOnList
    <3>3. CASE x # s
      BY <1>4, <3>2, <3>3
    <3>4. CASE x = s
      <4>1. ~OnList(t, Unlink(wl_list[x], t))
        BY <3>2
      <4>2. /\ NoDup(AddHead(Unlink(wl_list[x], t), t))
            /\ \A u : OnList(u, AddHead(Unlink(wl_list[x], t), t)) <=>
                        OnList(u, Unlink(wl_list[x], t)) \/ u = t
        BY <1>1, <3>2, <4>1, AddHeadOnList
      <4>3. wl_list'[x] = AddHead(Unlink(wl_list[x], t), t)
        BY <1>4, <3>4
      <4>4. QED
        BY <3>2, <3>4, <4>2, <4>3
    <3>5. QED
      BY <3>3, <3>4
  <2>3. \A u \in Thread, y \in Sem : OnList(u, wl_list'[y]) =>
          /\ td_stus'[u] # "free" /\ u \notin sda_exitlist'
          /\ \A x \in Prio : ~InRun(u, x)'
          /\ \A x \in Sem : OnList(u, wl_list'[x]) => x = y
    BY <1>1, <1>4, <2>1, <2>2 DEF OInv
  <2>4. \A u \in Thread : u \in sda_exitlist' =>
          td_stus'[u] # "free" /\ \A x \in Prio : ~InRun(u, x)'
    BY <1>4, <2>1 DEF OInv
  <2>5. QED
    BY <2>1, <2>2, <2>3, <2>4 DEF OInv
<1>5. QED
  BY <1>2, <1>3, <1>4

LEMMA ExitDelOnce ==
  ASSUME TInv, OInv, ExitDel
  PROVE  OInv'
<1> DEFINE t == sda_currtd
           p == td_priority[t]
<1>1. t \in Thread
  BY ExitDelThread
<1>2. UNCHANGED td_priority
  BY DEF ExitDel
<1>3. /\ td_stus' = [td_stus EXCEPT ![t] = "exit"]
      /\ LeaveRun(t, p)
      /\ wl_list' = [x \in Sem |-> Unlink(wl_list[x], t)]
      /\ sda_exitlist' = sda_exitlist \cup {t}
  BY DEF ExitDel
<1> HIDE DEF t, p
<1>4. /\ \A x \in Prio : NoDup(tdl_lsth'[x])
      /\ \A u \in Thread, x \in Prio : InRun(u, x)' <=> InRun(u, x) /\ u # t
      /\ \A u \in Thread, x \in Prio : InRun(u, x)' =>
           /\ td_priority'[u] = x /\ td_stus'[u] # "free"
           /\ ~(OnList(u, tdl_lsth'[x]) /\ tdl_curruntd'[x] = u)
      /\ \A u \in Thread : td_stus'[u] = IF u = t THEN "exit" ELSE td_stus[u]
  <2>1. p = td_priority[t] /\ LeaveRun(t, p) /\ UNCHANGED td_priority
    BY <1>2, <1>3 DEF p
  <2>2. PICK st : st = "exit"
    OBVIOUS
  <2>3. st # "free"
    BY <2>2
  <2>4. td_stus' = [td_stus EXCEPT ![t] = st]
    BY <1>3, <2>2
  <2>5. QED
    BY ONLY TInv, OInv, <1>1, <2>1, <2>2, <2>3, <2>4, LeaveOnce
<1>5. ASSUME NEW x \in Sem
      PROVE  /\ NoDup(wl_list'[x])
             /\ \A u : OnList(u, wl_list'[x]) <=> OnList(u, wl_list[x]) /\ u # t
  <2>1. wl_list[x] \in Seq(Thread) /\ NoDup(wl_list[x])
    BY DEF OInv, TInv, TypeOK
  <2>2. QED
    BY <1>3, <2>1, UnlinkOnList
<1>6. \A u \in Thread, y \in Sem : OnList(u, wl_list'[y]) =>
        /\ td_stus'[u] # "free" /\ u \notin sda_exitlist'
        /\ \A x \in Prio : ~InRun(u, x)'
        /\ \A x \in Sem : OnList(u, wl_list'[x]) => x = y
  BY <1>3, <1>4, <1>5 DEF OInv
<1>7. \A u \in Thread : u \in sda_exitlist' =>
        td_stus'[u] # "free" /\ \A x \in Prio : ~InRun(u, x)'
  BY <1>3, <1>4 DEF OInv
<1>8. QED
  BY <1>4, <1>5, <1>6, <1>7 DEF OInv

(* A new thread was nowhere, so it may get its priority. *)
LEMMA CallNewThreadOnce ==
  ASSUME TInv, OInv, NEW t \in Thread, NEW p \in Prio, CallNewThread(t, p)
  PROVE  OInv'
<1>1. /\ td_stus[t] = "free"
      /\ td_stus' = [td_stus EXCEPT ![t] = "new"]
      /\ td_priority' = [td_priority EXCEPT ![t] = p]
      /\ tdl_lsth' = [tdl_lsth EXCEPT ![p] = AddHead(@, t)]
      /\ tdl_curruntd' = tdl_curruntd /\ sda_exitlist' = sda_exitlist
      /\ wl_list' = wl_list
  BY DEF CallNewThread, semVars
<1>2. /\ tdl_lsth \in [Prio -> Seq(Thread)]
      /\ td_priority \in [Thread -> Prio] /\ td_stus \in [Thread -> Status]
  BY DEF TInv, TypeOK
<1>3. /\ \A x \in Prio : ~InRun(t, x)
      /\ \A x \in Sem : ~OnList(t, wl_list[x])
      /\ t \notin sda_exitlist
  BY <1>1 DEF OInv
<1>4. /\ NoDup(AddHead(tdl_lsth[p], t))
      /\ \A x : OnList(x, AddHead(tdl_lsth[p], t)) <=> OnList(x, tdl_lsth[p]) \/ x = t
  <2>1. tdl_lsth[p] \in Seq(Thread) /\ NoDup(tdl_lsth[p]) /\ ~OnList(t, tdl_lsth[p])
    BY <1>2, <1>3 DEF OInv, InRun
  <2>2. QED
    BY <2>1, AddHeadOnList
<1>5. /\ tdl_lsth'[p] = AddHead(tdl_lsth[p], t)
      /\ \A x \in Prio : x # p => tdl_lsth'[x] = tdl_lsth[x]
      /\ \A u \in Thread : td_stus'[u] = IF u = t THEN "new" ELSE td_stus[u]
      /\ \A u \in Thread : td_priority'[u] = IF u = t THEN p ELSE td_priority[u]
  BY <1>1, <1>2
<1>6. /\ \A x \in Prio : NoDup(tdl_lsth'[x])
      /\ \A u \in Thread, x \in Prio : OnList(u, tdl_lsth'[x]) <=>
           OnList(u, tdl_lsth[x]) \/ (u = t /\ x = p)
  BY <1>4, <1>5 DEF OInv
<1>7. \A u \in Thread, x \in Prio : InRun(u, x)' <=> InRun(u, x) \/ (u = t /\ x = p)
  BY <1>1, <1>6 DEF InRun
<1>8. \A u \in Thread, x \in Prio : InRun(u, x)' =>
        /\ td_priority'[u] = x /\ td_stus'[u] # "free"
        /\ ~(OnList(u, tdl_lsth'[x]) /\ tdl_curruntd'[x] = u)
  BY <1>1, <1>3, <1>5, <1>6, <1>7 DEF OInv, InRun
<1>9. \A u \in Thread, y \in Sem : OnList(u, wl_list'[y]) =>
        /\ td_stus'[u] # "free" /\ u \notin sda_exitlist'
        /\ \A x \in Prio : ~InRun(u, x)'
        /\ \A x \in Sem : OnList(u, wl_list'[x]) => x = y
  BY <1>1, <1>3, <1>5, <1>7 DEF OInv
<1>10. \A u \in Thread : u \in sda_exitlist' =>
         td_stus'[u] # "free" /\ \A x \in Prio : ~InRun(u, x)'
  BY <1>1, <1>3, <1>5, <1>7 DEF OInv
<1>11. QED
  BY <1>1, <1>6, <1>8, <1>9, <1>10 DEF OInv

LEMMA NextOnce ==
  ASSUME TInv, OInv, [Next]_vars
  PROVE  OInv'
<1>1. CASE Select
  <2>1. UNCHANGED <<wl_list, sda_exitlist, td_priority, td_stus>>
    BY <1>1 DEF Select, nrVars, tdVars, semVars
  <2>2. CASE SelectIdle \/ \E p \in Prio : SelectCurrent(p)
    BY <2>1, <2>2, OnceKept DEF SelectIdle, SelectCurrent
  <2>3. CASE \E p \in Prio : \E i \in 1 .. Len(tdl_lsth[p]) : SelectFromList(p, i)
    BY <2>1, <2>3, SelectFromListOnce
  <2>4. QED
    BY <1>1, <2>2, <2>3 DEF Select
<1>2. CASE Switch
  <2>1. td_stus' = [t \in Thread |-> IF t = Top.arg /\ td_stus[t] = "new" THEN "run"
                                     ELSE td_stus[t]]
    BY <1>2 DEF Switch
  <2>2. \A t \in Thread : td_stus'[t] = "free" => td_stus[t] = "free"
    BY <2>1
  <2>3. QED
    BY <1>2, <2>2, OnceKept DEF Switch, nrVars, semVars
<1>3. CASE \/ ChkNeed \/ WakeDone \/ SetFlgs \/ DownTake \/ IdleLoop \/ TimerIrq \/ CallExit
           \/ \E s \in Sem : CallDown(s) \/ CallUp(s) \/ KeyIrq(s)
  <2>1. UNCHANGED <<runVars, wl_list, sda_exitlist, td_priority, td_stus>>
    BY <1>3 DEF ChkNeed, WakeDone, SetFlgs, DownTake, IdleLoop, TimerIrq, CallDown,
                CallUp, CallExit, KeyIrq, nrVars, tdVars, semVars
  <2>2. QED
    BY <2>1, OnceKept
<1>4. CASE UNCHANGED vars
  BY <1>4, OnceKept DEF vars, nrVars, tdVars, semVars
<1>5. QED
  BY <1>1, <1>2, <1>3, <1>4, WakeOneOnce, DownWaitOnce, ExitDelOnce, CallNewThreadOnce
     DEF Next, KernelStep, ThreadCall, Irq

(* At boot the first thread is linked, and no other.                       *)
LEMMA InitOnce == Init => OInv
<1> SUFFICES ASSUME Init PROVE OInv
  OBVIOUS
<1>1. /\ \A p \in Prio : tdl_lsth[p] = IF p = 0 THEN <<FirstThread>> ELSE <<>>
      /\ \A p \in Prio : tdl_curruntd[p] = None
      /\ \A t \in Thread : td_stus[t] = IF t = FirstThread THEN "new" ELSE "free"
      /\ \A t \in Thread : td_priority[t] = 0
      /\ \A s \in Sem : wl_list[s] = <<>>
      /\ sda_exitlist = {}
  BY DEF Init
<1>2. NoDup(<<FirstThread>>) /\ \A x : OnList(x, <<FirstThread>>) => x = FirstThread
  BY DEF NoDup, OnList
<1>3. /\ \A p \in Prio : NoDup(tdl_lsth[p])
      /\ \A t \in Thread, p \in Prio : OnList(t, tdl_lsth[p]) => t = FirstThread /\ p = 0
  BY <1>1, <1>2, EmptyOnList
<1>4. \A t \in Thread, p \in Prio : tdl_curruntd[p] # t
  BY <1>1, SchedAssumption
<1>5. (\A s \in Sem : NoDup(wl_list[s])) /\ \A t \in Thread, s \in Sem : ~OnList(t, wl_list[s])
  BY <1>1, EmptyOnList
<1>6. QED
  BY <1>1, <1>3, <1>4, <1>5 DEF OInv, InRun

(* A set without two different members has at most one.                    *)
LEMMA AtMostOne ==
  ASSUME NEW S, \A x, y \in S : x = y
  PROVE  Cardinality(S) \in {0, 1} /\ (S = {} => Cardinality(S) = 0)
<1>1. CASE S = {}
  BY <1>1, FS_EmptySet
<1>2. CASE S # {}
  <2>1. PICK a : S = {a}
    BY <1>2
  <2>2. QED
    BY <1>2, <2>1, FS_Singleton
<1>3. QED
  BY <1>1, <1>2

(* The places of a thread in a family of lists, as LinkedOnce counts them. *)
LEMMA PlacesOnce ==
  ASSUME NEW t, NEW X, NEW lst \in [X -> Seq(Thread)],
         \A x \in X : NoDup(lst[x]),
         \A x, y \in X : OnList(t, lst[x]) /\ OnList(t, lst[y]) => x = y,
         NEW P, P \subseteq X \X (1 .. Cardinality(Thread) + 1),
         \A x \in P : x[2] <= Len(lst[x[1]]) /\ lst[x[1]][x[2]] = t
  PROVE  /\ Cardinality(P) \in {0, 1}
         /\ (\A x \in X : ~OnList(t, lst[x])) => Cardinality(P) = 0
<1>1. Cardinality(Thread) \in Nat
  BY SchedAssumption, FS_CardinalityType
<1>2. ASSUME NEW x \in P
      PROVE  /\ x[1] \in X /\ x[2] \in 1 .. Len(lst[x[1]]) /\ lst[x[1]][x[2]] = t
             /\ x = <<x[1], x[2]>>
  <2>1. x[1] \in X /\ lst[x[1]] \in Seq(Thread)
    OBVIOUS
  <2>2. Len(lst[x[1]]) \in Nat
    BY <2>1, LenProperties
  <2>3. QED
    BY <1>1, <2>1, <2>2
<1>3. \A x \in P : OnList(t, lst[x[1]])
  BY <1>2 DEF OnList
<1>4. ASSUME NEW x \in P, NEW y \in P
      PROVE  x = y
  <2>1. x[1] = y[1]
    BY <1>2, <1>3
  <2>2. x[2] = y[2]
    BY <1>2, <2>1 DEF NoDup
  <2>3. QED
    BY <1>2, <2>1, <2>2
<1>5. (\A x \in X : ~OnList(t, lst[x])) => P = {}
  BY <1>2, <1>3
<1>6. QED
  BY <1>4, <1>5, AtMostOne

LEMMA OnceLinked ==
  ASSUME TInv, OInv
  PROVE  LinkedOnce
<1> SUFFICES ASSUME NEW t \in Thread
             PROVE  LET Places(lst, X) == {x \in X \X (1 .. Cardinality(Thread) + 1) :
                                             x[2] <= Len(lst[x[1]]) /\ lst[x[1]][x[2]] = t}
                        runs  == Places(tdl_lsth, Prio)
                        waits == Places(wl_list, Sem)
                        parks == {p \in Prio : tdl_curruntd[p] = t}
                        exits == {t} \cap sda_exitlist
                    IN Cardinality(runs) + Cardinality(waits) + Cardinality(parks)
                         + Cardinality(exits) <= 1
  BY DEF LinkedOnce
<1> DEFINE runs  == {x \in Prio \X (1 .. Cardinality(Thread) + 1) :
                       x[2] <= Len(tdl_lsth[x[1]]) /\ tdl_lsth[x[1]][x[2]] = t}
           waits == {x \in Sem \X (1 .. Cardinality(Thread) + 1) :
                       x[2] <= Len(wl_list[x[1]]) /\ wl_list[x[1]][x[2]] = t}
           parks == {p \in Prio : tdl_curruntd[p] = t}
           exits == {t} \cap sda_exitlist
<1>1. tdl_lsth \in [Prio -> Seq(Thread)] /\ wl_list \in [Sem -> Seq(Thread)]
  BY DEF TInv, TypeOK
<1>2. \A x, y \in Prio : InRun(t, x) /\ InRun(t, y) => x = y
  BY DEF OInv
<1>3. /\ Cardinality(runs) \in {0, 1}
      /\ (\A x \in Prio : ~OnList(t, tdl_lsth[x])) => Cardinality(runs) = 0
  <2>1. \A x, y \in Prio : OnList(t, tdl_lsth[x]) /\ OnList(t, tdl_lsth[y]) => x = y
    BY <1>2 DEF InRun
  <2>2. \A x \in Prio : NoDup(tdl_lsth[x])
    BY DEF OInv
  <2>3. /\ runs \subseteq Prio \X (1 .. Cardinality(Thread) + 1)
        /\ \A x \in runs : x[2] <= Len(tdl_lsth[x[1]]) /\ tdl_lsth[x[1]][x[2]] = t
    OBVIOUS
  <2> HIDE DEF runs
  <2>4. QED
    BY <1>1, <2>1, <2>2, <2>3, PlacesOnce
<1>4. /\ Cardinality(waits) \in {0, 1}
      /\ (\A x \in Sem : ~OnList(t, wl_list[x])) => Cardinality(waits) = 0
  <2>1. \A x, y \in Sem : OnList(t, wl_list[x]) /\ OnList(t, wl_list[y]) => x = y
    BY DEF OInv
  <2>2. \A x \in Sem : NoDup(wl_list[x])
    BY DEF OInv
  <2>3. /\ waits \subseteq Sem \X (1 .. Cardinality(Thread) + 1)
        /\ \A x \in waits : x[2] <= Len(wl_list[x[1]]) /\ wl_list[x[1]][x[2]] = t
    OBVIOUS
  <2> HIDE DEF waits
  <2>4. QED
    BY <1>1, <2>1, <2>2, <2>3, PlacesOnce
<1>5. /\ Cardinality(parks) \in {0, 1}
      /\ (\A x \in Prio : tdl_curruntd[x] # t) => Cardinality(parks) = 0
  <2>1. \A x, y \in parks : x = y
    BY <1>2 DEF InRun
  <2>2. (\A x \in Prio : tdl_curruntd[x] # t) => parks = {}
    OBVIOUS
  <2>3. QED
    BY <2>1, <2>2, AtMostOne
<1>6. Cardinality(exits) \in {0, 1} /\ (t \notin sda_exitlist => Cardinality(exits) = 0)
  <2>1. (\A x, y \in exits : x = y) /\ (t \notin sda_exitlist => exits = {})
    OBVIOUS
  <2>2. QED
    BY <2>1, AtMostOne
<1> HIDE DEF runs, waits, parks, exits
<1>7. \/ \A x \in Prio : ~OnList(t, tdl_lsth[x])
      \/ \A x \in Prio : tdl_curruntd[x] # t
  BY <1>2 DEF OInv, InRun
<1>8. \/ /\ \A x \in Prio : ~OnList(t, tdl_lsth[x])
         /\ \A x \in Prio : tdl_curruntd[x] # t
      \/ (\A x \in Sem : ~OnList(t, wl_list[x])) /\ t \notin sda_exitlist
  BY DEF OInv, InRun
<1>9. (\A x \in Sem : ~OnList(t, wl_list[x])) \/ t \notin sda_exitlist
  BY DEF OInv
<1>10. Cardinality(runs) + Cardinality(waits) + Cardinality(parks) + Cardinality(exits) <= 1
  BY <1>3, <1>4, <1>5, <1>6, <1>7, <1>8, <1>9
<1>11. QED
  BY <1>10 DEF runs, waits, parks, exits

(* However many threads there are, and wherever interrupts arrive, the     *)
(* node of a thread is never linked into a second list, nor into one list  *)
(* twice: where krlsched_select_thread, krlsched_wait, krlsched_up,         *)
(* krlschdclass_add_thread and krlschdclass_del_thread_addexit link a node,*)
(* it is on no list.                                                       *)
THEOREM NodesLinkedOnce == Spec => []LinkedOnce
<1>1. Init => TInv /\ OInv
  BY InitTypes, InitOnce
<1>2. TInv /\ OInv /\ [Next]_vars => (TInv /\ OInv)'
  BY NextTypes, NextOnce
<1>3. TInv /\ OInv => LinkedOnce
  BY OnceLinked
<1>4. QED
  BY <1>1, <1>2, <1>3, PTL DEF Spec
=============================================================================
