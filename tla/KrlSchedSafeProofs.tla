-------------------------- MODULE KrlSchedSafeProofs --------------------------
(* What the scheduler keeps right, for every set of threads and semaphores *)
(* and every number of priorities, with interrupts everywhere: all of it,  *)
(* until an interrupt makes a krlschedul choose while another one has      *)
(* chosen and not yet switched.  With that the scheduler fails: run        *)
(* sched_window.                                                           *)
EXTENDS KrlSchedProofs

(* The history variable: has a krlschedul chosen on top of another that    *)
(* has chosen and not yet switched?                                        *)
VARIABLE preempted

Clean(s) == \A i \in 1 .. Len(s) : s[i].op # "switch"

PreemptsChosen == Select /\ ~Clean(Caller)

varsH == <<vars, preempted>>
InitH == Init /\ preempted = FALSE
NextH == Next /\ preempted' = (preempted \/ PreemptsChosen)
SpecH == InitH /\ [][NextH]_varsH

Runnable == {"new", "run"}
Alive    == {t \in Thread : td_stus[t] \in {"new", "run", "wait"}}

-----------------------------------------------------------------------------
(* The inductive invariant.                                                *)

(* No list holds a thread twice. *)
NoDups == /\ \A p \in Prio : NoDup(tdl_lsth[p])
          /\ \A s \in Sem : NoDup(wl_list[s])

(* A run list holds runnable threads of its priority, without the current. *)
RunListsOK ==
  \A p \in Prio, t \in Thread : OnList(t, tdl_lsth[p]) =>
    /\ td_priority[t] = p
    /\ td_stus[t] \in Runnable
    /\ tdl_curruntd[p] # t

(* The current thread of a priority has this priority and is runnable.     *)
CurrentsOK ==
  \A p \in Prio : tdl_curruntd[p] # None =>
    td_priority[tdl_curruntd[p]] = p /\ td_stus[tdl_curruntd[p]] \in Runnable

(* A wait list holds threads that wait, and wait nowhere else.             *)
WaitListsOK ==
  \A s \in Sem, t \in Thread : OnList(t, wl_list[s]) =>
    /\ td_stus[t] = "wait"
    /\ \A x \in Sem : OnList(t, wl_list[x]) => x = s

LInv == /\ NoDups
        /\ RunListsOK
        /\ CurrentsOK
        /\ WaitListsOK
        /\ ListsMatchStatus
        /\ CountsMatchLists
        /\ IsFiniteSet(Alive)

(* One krlschedul at most has chosen and not switched, and what it has     *)
(* chosen is still runnable and current.                                   *)
ChoiceOK(t) == t # Idle => /\ td_stus[t] \in Runnable
                           /\ tdl_curruntd[td_priority[t]] = t
SwitchOK ==
  \A t \in Runner : \A i \in 1 .. Len(td_kstk[t]) :
    td_kstk[t][i].op = "switch" =>
      /\ t = sda_currtd
      /\ \A j \in 1 .. Len(td_kstk[t]) : td_kstk[t][j].op = "switch" => j = i
      /\ ChoiceOK(td_kstk[t][i].arg)

SInv == LInv /\ SwitchOK /\ RunningIsCurrent /\ NeverDies

-----------------------------------------------------------------------------
(* Stacks. *)

(* A stack on which no krlschedul has chosen that had not chosen before.   *)
ChoicesKept(s) == \A i \in 1 .. Len(s) :
                    s[i].op = "switch" => i \in 1 .. Len(Kstk) /\ s[i] = Kstk[i]

Schedul(s) == \E i \in 1 .. Len(s) : s[i].op \in {"select", "switch"}

LEMMA SwitchAlone ==
  ASSUME TInv, SwitchOK, Kstk # <<>>, Top.op = "switch"
  PROVE  Clean(Caller) /\ ChoiceOK(Top.arg)
<1>1. /\ Kstk = td_kstk[sda_currtd] /\ sda_currtd \in Runner
      /\ Len(Kstk) \in Nat /\ Len(Kstk) \in 1 .. Len(Kstk)
      /\ Len(Caller) = Len(Kstk) - 1
      /\ \A i \in 1 .. Len(Caller) : Caller[i] = Kstk[i]
  BY KstkFits DEF Kstk, TInv, TypeOK
<1>2. /\ \A i \in 1 .. Len(Kstk) : Kstk[i].op = "switch" => i = Len(Kstk)
      /\ ChoiceOK(Kstk[Len(Kstk)].arg)
  BY <1>1 DEF SwitchOK, Top
<1>3. QED
  BY <1>1, <1>2 DEF Clean, Top

LEMMA CallerKept ==
  ASSUME TInv
  PROVE  ChoicesKept(Kstk) /\ (Kstk # <<>> => ChoicesKept(Caller))
<1>1. Len(Kstk) \in Nat /\ ChoicesKept(Kstk)
  BY KstkFits DEF ChoicesKept
<1>2. ASSUME Kstk # <<>>
      PROVE  ChoicesKept(Caller)
  <2>1. Len(Caller) = Len(Kstk) - 1 /\ \A i \in 1 .. Len(Caller) : Caller[i] = Kstk[i]
    BY <1>2, KstkFits
  <2>2. QED
    BY <1>1, <2>1 DEF ChoicesKept
<1>3. QED
  BY <1>1, <1>2

LEMMA PushKept ==
  ASSUME NEW s, Fits(s), ChoicesKept(s), NEW c \in Call, c.op # "switch"
  PROVE  ChoicesKept(Append(s, c))
<1>1. s \in Seq(Call)
  BY DEF Fits
<1>2. /\ Len(s) \in Nat
      /\ Len(Append(s, c)) = Len(s) + 1
      /\ Append(s, c)[Len(s) + 1] = c
      /\ \A i \in 1 .. Len(s) : Append(s, c)[i] = s[i]
  BY <1>1, AppendProperties, LenProperties
<1>3. QED
  BY <1>2 DEF ChoicesKept

LEMMA PushClean ==
  ASSUME NEW s, Fits(s), Clean(s), NEW c \in Call, c.op # "switch"
  PROVE  Clean(Append(s, c))
<1>1. s \in Seq(Call)
  BY DEF Fits
<1>2. /\ Len(s) \in Nat
      /\ Len(Append(s, c)) = Len(s) + 1
      /\ Append(s, c)[Len(s) + 1] = c
      /\ \A i \in 1 .. Len(s) : Append(s, c)[i] = s[i]
  BY <1>1, AppendProperties, LenProperties
<1>3. QED
  BY <1>2 DEF Clean

LEMMA PushSchedul ==
  ASSUME NEW s, Fits(s), NEW c \in Call
  PROVE  Schedul(s) \/ c.op \in {"select", "switch"} => Schedul(Append(s, c))
<1>1. s \in Seq(Call)
  BY DEF Fits
<1>2. /\ Len(s) \in Nat
      /\ Len(Append(s, c)) = Len(s) + 1
      /\ Append(s, c)[Len(s) + 1] = c
      /\ \A i \in 1 .. Len(s) : Append(s, c)[i] = s[i]
  BY <1>1, AppendProperties, LenProperties
<1>3. QED
  BY <1>2 DEF Schedul

LEMMA PopSchedul ==
  ASSUME TInv, Kstk # <<>>, Top.op \notin {"select", "switch"}
  PROVE  Schedul(Kstk) => Schedul(Caller)
<1>1. /\ Len(Kstk) \in Nat
      /\ Len(Caller) = Len(Kstk) - 1
      /\ \A i \in 1 .. Len(Caller) : Caller[i] = Kstk[i]
  BY KstkFits
<1>2. QED
  BY <1>1 DEF Schedul, Top

(* After a step that leaves no switch pending, none is pending anywhere.   *)
LEMMA SwitchKept ==
  ASSUME TInv, SwitchOK, NEW s, Fits(s), Clean(s), KstkBecomes(s)
  PROVE  SwitchOK'
<1>1. /\ td_kstk'[sda_currtd] = s
      /\ \A t \in Runner : t # sda_currtd => td_kstk'[t] = td_kstk[t]
  BY BecomesFits
<1>2. ASSUME NEW t \in Runner, NEW i \in 1 .. Len(td_kstk'[t])
      PROVE  td_kstk'[t][i].op # "switch"
  BY <1>1 DEF Clean, SwitchOK
<1>3. QED
  BY <1>2 DEF SwitchOK

(* A step that makes no choice, and leaves those made what they are.       *)
LEMMA SwitchStays ==
  ASSUME TInv, SwitchOK, NEW s, Fits(s), ChoicesKept(s), KstkBecomes(s),
         UNCHANGED <<sda_currtd, td_stus, td_priority, tdl_curruntd>>
  PROVE  SwitchOK'
<1>1. /\ td_kstk'[sda_currtd] = s
      /\ \A t \in Runner : t # sda_currtd => td_kstk'[t] = td_kstk[t]
      /\ Kstk = td_kstk[sda_currtd]
  BY BecomesFits DEF Kstk
<1>2. SUFFICES ASSUME NEW t \in Runner, NEW i \in 1 .. Len(td_kstk'[t]),
                      td_kstk'[t][i].op = "switch"
               PROVE  /\ t = sda_currtd
                      /\ \A j \in 1 .. Len(td_kstk'[t]) :
                           td_kstk'[t][j].op = "switch" => j = i
                      /\ ChoiceOK(td_kstk'[t][i].arg)
  BY DEF SwitchOK, ChoiceOK
<1>3. t = sda_currtd
  BY <1>1, <1>2 DEF SwitchOK
<1>4. \A j \in 1 .. Len(s) : s[j].op = "switch" =>
        j \in 1 .. Len(Kstk) /\ s[j] = Kstk[j]
  BY DEF ChoicesKept
<1>5. i \in 1 .. Len(Kstk) /\ s[i] = Kstk[i] /\ Kstk[i].op = "switch"
  BY <1>1, <1>2, <1>3, <1>4
<1>6. /\ \A j \in 1 .. Len(Kstk) : Kstk[j].op = "switch" => j = i
      /\ ChoiceOK(Kstk[i].arg)
  BY <1>1, <1>3, <1>5 DEF SwitchOK
<1>7. QED
  BY <1>1, <1>3, <1>4, <1>5, <1>6

(* A step that touches no stack, and only makes threads runnable.          *)
LEMMA SwitchUntouched ==
  ASSUME TInv, SwitchOK, UNCHANGED <<td_kstk, sda_currtd, td_priority, tdl_curruntd>>,
         \A t \in Thread : td_stus[t] \in Runnable => td_stus'[t] \in Runnable
  PROVE  SwitchOK'
<1>1. \A t \in Runner : \A i \in 1 .. Len(td_kstk[t]) :
        td_kstk[t][i].op = "switch" => td_kstk[t][i].arg \in Thread \cup {Idle}
  BY ElementOfSeq, CallTypes DEF TInv, TypeOK, Runner
<1>2. QED
  BY <1>1 DEF SwitchOK, ChoiceOK

LEMMA SwitchChosen ==
  ASSUME TInv, SwitchOK, Kstk # <<>>, Clean(Caller), NEW n \in Runner,
         KstkBecomes(Append(Caller, Pend("switch", n))),
         UNCHANGED sda_currtd,
         n # Idle => /\ td_stus'[n] \in Runnable
                     /\ tdl_curruntd'[td_priority'[n]] = n
  PROVE  SwitchOK'
<1> DEFINE s == Append(Caller, Pend("switch", n))
<1>1. Fits(Caller) /\ Caller \in Seq(Call)
  BY KstkFits DEF Fits
<1>2. /\ Pend("switch", n) \in Call
      /\ Pend("switch", n).op = "switch"
      /\ Pend("switch", n).arg = n
  BY CallTypes
<1>3. Fits(s)
  BY <1>1, <1>2, PushFits
<1>4. /\ Len(Caller) \in Nat
      /\ Len(s) = Len(Caller) + 1
      /\ s[Len(Caller) + 1] = Pend("switch", n)
      /\ \A i \in 1 .. Len(Caller) : s[i] = Caller[i]
  BY <1>1, <1>2, AppendProperties, LenProperties
<1> HIDE DEF s
<1>5. /\ td_kstk'[sda_currtd] = s
      /\ \A t \in Runner : t # sda_currtd => td_kstk'[t] = td_kstk[t]
  BY <1>3, BecomesFits DEF s
<1>6. SUFFICES ASSUME NEW t \in Runner, NEW i \in 1 .. Len(td_kstk'[t]),
                      td_kstk'[t][i].op = "switch"
               PROVE  /\ t = sda_currtd'
                      /\ \A j \in 1 .. Len(td_kstk'[t]) :
                           td_kstk'[t][j].op = "switch" => j = i
                      /\ td_kstk'[t][i].arg # Idle =>
                           /\ td_stus'[td_kstk'[t][i].arg] \in Runnable
                           /\ tdl_curruntd'[td_priority'[td_kstk'[t][i].arg]]
                                = td_kstk'[t][i].arg
  BY DEF SwitchOK, ChoiceOK
<1>7. t = sda_currtd
  BY <1>5, <1>6 DEF SwitchOK
<1>8. i \in 1 .. Len(s) /\ s[i].op = "switch"
  BY <1>5, <1>6, <1>7
<1>9. i = Len(s) /\ \A j \in 1 .. Len(s) : s[j].op = "switch" => j = Len(s)
  BY <1>4, <1>8 DEF Clean
<1>10. td_kstk'[t][i].arg = n
  BY <1>2, <1>4, <1>5, <1>7, <1>9
<1>11. QED
  BY <1>5, <1>7, <1>9, <1>10

(* A step that keeps the running thread what it is. *)
LEMMA RunningKept ==
  ASSUME TInv, RunningIsCurrent, NEW s, Fits(s), KstkBecomes(s),
         Schedul(Kstk) => Schedul(s),
         UNCHANGED sda_currtd,
         sda_currtd \in Thread /\ td_stus[sda_currtd] = "run"
           /\ tdl_curruntd[td_priority[sda_currtd]] = sda_currtd
         => /\ td_stus'[sda_currtd] = "run"
            /\ tdl_curruntd'[td_priority'[sda_currtd]] = sda_currtd
  PROVE  RunningIsCurrent'
<1>1. td_kstk'[sda_currtd] = s /\ Kstk = td_kstk[sda_currtd]
  BY BecomesFits DEF Kstk
<1>2. sda_currtd # Idle => sda_currtd \in Thread
  BY DEF TInv, TypeOK, Runner
<1>3. QED
  BY <1>1, <1>2 DEF RunningIsCurrent, InSchedul, Schedul

(* A step inside krlschedul. *)
LEMMA RunningInSchedul ==
  ASSUME TInv, NEW s, Fits(s), KstkBecomes(s), Schedul(s), UNCHANGED sda_currtd
  PROVE  RunningIsCurrent'
<1>1. td_kstk'[sda_currtd] = s
  BY BecomesFits
<1>2. QED
  BY <1>1 DEF RunningIsCurrent, InSchedul, Schedul

-----------------------------------------------------------------------------
(* Steps that neither touch a list nor a status.                           *)

LEMMA ListsKept ==
  ASSUME LInv,
         UNCHANGED <<runVars, sda_threadnr, sda_exitlist, tdVars, wl_list, wl_tdnr>>
  PROVE  LInv'
<1> USE DEF runVars, tdVars
<1>1. NoDups'
  BY DEF LInv, NoDups
<1>2. RunListsOK' /\ CurrentsOK' /\ WaitListsOK'
  BY DEF LInv, RunListsOK, CurrentsOK, WaitListsOK
<1>3. ListsMatchStatus'
  BY DEF LInv, ListsMatchStatus, RunListed, WaitListed
<1>4. CountsMatchLists' /\ IsFiniteSet(Alive')
  BY DEF LInv, CountsMatchLists, Alive
<1>5. QED
  BY <1>1, <1>2, <1>3, <1>4 DEF LInv

LEMMA StackStepSafe ==
  ASSUME TInv, SInv, NEW s, Fits(s), ChoicesKept(s), KstkBecomes(s),
         Schedul(Kstk) => Schedul(s), ~died',
         UNCHANGED <<runVars, sda_threadnr, sda_exitlist, sda_currtd, tdVars,
                     wl_list, wl_tdnr>>
  PROVE  SInv'
<1>1. LInv'
  BY ListsKept DEF SInv
<1>2. SwitchOK'
  BY SwitchStays DEF SInv, runVars, tdVars
<1>3. RunningIsCurrent'
  BY RunningKept DEF SInv, runVars, tdVars
<1>4. QED
  BY <1>1, <1>2, <1>3 DEF SInv, NeverDies

LEMMA EmptyStack ==
  ASSUME TInv, Kstk = <<>>
  PROVE  ~Schedul(Kstk)
BY DEF Schedul

LEMMA PopSafe ==
  ASSUME TInv, SInv, Kstk # <<>>, Top.op \notin {"select", "switch"},
         KstkBecomes(Caller), ~died',
         UNCHANGED <<runVars, sda_threadnr, sda_exitlist, sda_currtd, tdVars,
                     wl_list, wl_tdnr>>
  PROVE  SInv'
BY KstkFits, CallerKept, PopSchedul, StackStepSafe DEF SInv

LEMMA ChkNeedSafe ==
  ASSUME TInv, SInv, ChkNeed
  PROVE  SInv'
<1>1. /\ Kstk # <<>> /\ Top.op = "chkneed" /\ ~died'
      /\ UNCHANGED <<runVars, sda_threadnr, sda_exitlist, sda_currtd, tdVars,
                     wl_list, wl_tdnr>>
  BY DEF ChkNeed, At, semVars, nrVars, SInv, NeverDies
<1>2. CASE KstkBecomes(Caller)
  BY <1>1, <1>2, PopSafe
<1>3. CASE KstkBecomes(Append(Caller, Pend("select", None)))
  <2>1. Pend("select", None) \in Call /\ Pend("select", None).op = "select"
    BY CallTypes
  <2>2. /\ Fits(Append(Caller, Pend("select", None)))
        /\ ChoicesKept(Append(Caller, Pend("select", None)))
        /\ Schedul(Append(Caller, Pend("select", None)))
    BY <1>1, <2>1, KstkFits, CallerKept, PushFits, PushKept, PushSchedul
  <2>3. QED
    BY <1>1, <1>3, <2>2, StackStepSafe
<1>4. QED
  BY <1>2, <1>3 DEF ChkNeed

LEMMA SetFlgsSafe ==
  ASSUME TInv, SInv, SetFlgs
  PROVE  SInv'
BY PopSafe DEF SetFlgs, At, semVars, nrVars, SInv, NeverDies

LEMMA WakeDoneSafe ==
  ASSUME TInv, SInv, WakeDone
  PROVE  SInv'
BY PopSafe DEF WakeDone, At, semVars, nrVars, SInv, NeverDies

LEMMA DownTakeSafe ==
  ASSUME TInv, SInv, DownTake
  PROVE  SInv'
BY PopSafe DEF DownTake, At, nrVars, SInv, NeverDies

LEMMA CallDownSafe ==
  ASSUME TInv, SInv, NEW s \in Sem, CallDown(s)
  PROVE  SInv'
<1>1. Pend("down", s) \in Call /\ Pend("down", s).op = "down"
  BY CallTypes
<1>2. Fits(<<Pend("down", s)>>)
  BY <1>1, OneFits DEF CallDown
<1>3. ChoicesKept(<<Pend("down", s)>>)
  BY <1>1 DEF ChoicesKept
<1>4. QED
  BY <1>2, <1>3, EmptyStack, StackStepSafe
     DEF CallDown, AtCode, semVars, nrVars, SInv, NeverDies

LEMMA CallUpSafe ==
  ASSUME TInv, SInv, NEW s \in Sem, CallUp(s)
  PROVE  SInv'
<1>1. /\ Pend("setflgs", None) \in Call /\ Pend("setflgs", None).op = "setflgs"
      /\ Pend("allup", s) \in Call /\ Pend("allup", s).op = "allup"
  BY CallTypes
<1>2. Fits(<<Pend("setflgs", None), Pend("allup", s)>>)
  BY <1>1 DEF Fits
<1>3. ChoicesKept(<<Pend("setflgs", None), Pend("allup", s)>>)
  BY <1>1 DEF ChoicesKept
<1>4. ~died'
  BY RaiseCountTypes DEF CallUp
<1>5. QED
  BY <1>2, <1>3, <1>4, EmptyStack, StackStepSafe DEF CallUp, AtCode, nrVars

LEMMA IdleLoopSafe ==
  ASSUME TInv, SInv, IdleLoop
  PROVE  SInv'
<1>1. Pend("select", None) \in Call /\ Pend("select", None).op = "select"
  BY CallTypes
<1>2. Fits(<<Pend("select", None)>>)
  BY <1>1, OneFits
<1>3. ChoicesKept(<<Pend("select", None)>>)
  BY <1>1 DEF ChoicesKept
<1>4. QED
  BY <1>2, <1>3, EmptyStack, StackStepSafe
     DEF IdleLoop, AtCode, semVars, nrVars, SInv, NeverDies

LEMMA TimerIrqSafe ==
  ASSUME TInv, SInv, TimerIrq
  PROVE  SInv'
<1>1. Pend("chkneed", None) \in Call /\ Pend("chkneed", None).op = "chkneed"
  BY CallTypes
<1>2. ChoicesKept(Kstk) /\ Fits(Kstk)
  BY CallerKept, KstkFits
<1> DEFINE s == Append(Kstk, Pend("chkneed", None))
<1>3. Fits(s) /\ ChoicesKept(s) /\ (Schedul(Kstk) => Schedul(s))
  BY <1>1, <1>2, PushFits, PushKept, PushSchedul
<1> HIDE DEF s
<1>4. KstkBecomes(s)
  BY DEF TimerIrq, s
<1>5. QED
  BY <1>3, <1>4, StackStepSafe DEF TimerIrq, semVars, nrVars, SInv, NeverDies

LEMMA KeyIrqSafe ==
  ASSUME TInv, SInv, NEW x \in Sem, KeyIrq(x)
  PROVE  SInv'
<1>1. /\ Pend("chkneed", None) \in Call /\ Pend("chkneed", None).op = "chkneed"
      /\ Pend("setflgs", None) \in Call /\ Pend("setflgs", None).op = "setflgs"
      /\ Pend("allup", x) \in Call /\ Pend("allup", x).op = "allup"
  BY CallTypes
<1>2. ChoicesKept(Kstk) /\ Fits(Kstk)
  BY CallerKept, KstkFits
<1> DEFINE a == Append(Kstk, Pend("chkneed", None))
           b == Append(a, Pend("setflgs", None))
           s == Append(b, Pend("allup", x))
<1>3. Fits(a) /\ ChoicesKept(a) /\ (Schedul(Kstk) => Schedul(a))
  BY <1>1, <1>2, PushFits, PushKept, PushSchedul
<1> HIDE DEF a
<1>4. Fits(b) /\ ChoicesKept(b) /\ (Schedul(a) => Schedul(b))
  BY <1>1, <1>3, PushFits, PushKept, PushSchedul
<1> HIDE DEF b
<1>5. Fits(s) /\ ChoicesKept(s) /\ (Schedul(b) => Schedul(s))
  BY <1>1, <1>4, PushFits, PushKept, PushSchedul
<1> HIDE DEF s
<1>6. KstkBecomes(s)
  BY DEF KeyIrq, s, a, b
<1>7. ~died'
  BY RaiseCountTypes DEF KeyIrq
<1>8. QED
  BY <1>3, <1>4, <1>5, <1>6, <1>7, StackStepSafe DEF KeyIrq, nrVars

-----------------------------------------------------------------------------
(* krlschedul chooses. *)

LEMMA SelectIdleSafe ==
  ASSUME TInv, SInv, Clean(Caller), Select, SelectIdle
  PROVE  SInv'
<1>1. Kstk # <<>> /\ Fits(Caller) /\ Idle \in Runner
  BY KstkFits DEF Select, At, Runner
<1>2. Pend("switch", Idle) \in Call /\ Pend("switch", Idle).op = "switch"
  BY <1>1, CallTypes
<1>3. /\ KstkBecomes(Append(Caller, Pend("switch", Idle)))
      /\ UNCHANGED <<runVars, sda_threadnr, sda_exitlist, sda_currtd, tdVars,
                     wl_list, wl_tdnr, died>>
  BY DEF Select, SelectIdle, nrVars, semVars
<1>4. SwitchOK'
  BY <1>1, <1>3, SwitchChosen DEF SInv
<1>5. LInv'
  BY <1>3, ListsKept DEF SInv
<1>6. RunningIsCurrent'
  BY <1>1, <1>2, <1>3, PushFits, PushSchedul, RunningInSchedul
<1>7. QED
  BY <1>3, <1>4, <1>5, <1>6 DEF SInv, NeverDies

LEMMA SelectCurrentSafe ==
  ASSUME TInv, SInv, Clean(Caller), Select, NEW p \in Prio, Least(p, Busy), SelectCurrent(p)
  PROVE  SInv'
<1> DEFINE n == tdl_curruntd[p]
<1>1. n # None /\ n \in Thread /\ n \in Runner
  BY DEF Least, Busy, SelectCurrent, TInv, TypeOK, Runner
<1>2. Kstk # <<>> /\ Fits(Caller)
  BY KstkFits DEF Select, At
<1>3. Pend("switch", n) \in Call /\ Pend("switch", n).op = "switch"
  BY <1>1, CallTypes
<1>4. /\ KstkBecomes(Append(Caller, Pend("switch", n)))
      /\ UNCHANGED <<runVars, sda_threadnr, sda_exitlist, sda_currtd, tdVars,
                     wl_list, wl_tdnr, died>>
  BY DEF Select, SelectCurrent, nrVars, semVars
<1>5. /\ td_stus'[n] \in Runnable
      /\ tdl_curruntd'[td_priority'[n]] = n
  BY <1>1, <1>4 DEF SInv, LInv, CurrentsOK, runVars, tdVars
<1> HIDE DEF n
<1>6. SwitchOK'
  BY <1>1, <1>2, <1>4, <1>5, SwitchChosen DEF SInv
<1>7. LInv'
  BY <1>4, ListsKept DEF SInv
<1>8. RunningIsCurrent'
  BY <1>2, <1>3, <1>4, PushFits, PushSchedul, RunningInSchedul
<1>9. QED
  BY <1>4, <1>6, <1>7, <1>8 DEF SInv, NeverDies

LEMMA SelectFromListSafe ==
  ASSUME TInv, SInv, Clean(Caller), Select, NEW p \in Prio, NEW i \in 1 .. Len(tdl_lsth[p]),
         SelectFromList(p, i)
  PROVE  SInv'
<1> DEFINE q == tdl_lsth[p]
           n == q[i]
           c == tdl_curruntd[p]
           r == Requeue(Without(q, i), c)
<1>1. /\ q \in Seq(Thread)
      /\ i \in 1 .. Len(q)
      /\ n \in Thread
      /\ n \in Runner
      /\ c \in Thread \cup {None}
      /\ Len(q) \in Nat
  BY ElementOfSeq, LenProperties DEF TInv, TypeOK, Runner
<1>2. NoDup(q) /\ OnList(n, q)
  BY <1>1 DEF SInv, LInv, NoDups, OnList
<1>3. /\ td_priority[n] = p
      /\ td_stus[n] \in Runnable
      /\ c # n
      /\ c # None => ~OnList(c, q)
      /\ c # None => td_priority[c] = p /\ td_stus[c] \in Runnable
  BY <1>1, <1>2 DEF SInv, LInv, RunListsOK, CurrentsOK
<1>4. /\ r \in Seq(Thread)
      /\ NoDup(r)
      /\ Len(r) = Len(q) - (IF c = None THEN 1 ELSE 0)
      /\ \A x \in Thread : OnList(x, r) <=> (x # n /\ OnList(x, q)) \/ x = c
  BY <1>1, <1>2, <1>3, RequeueOnList
<1>5. /\ tdl_lsth' = [tdl_lsth EXCEPT ![p] = r]
      /\ tdl_curruntd' = [tdl_curruntd EXCEPT ![p] = n]
      /\ KstkBecomes(Append(Caller, Pend("switch", n)))
      /\ UNCHANGED <<tdl_nr, sda_threadnr, sda_exitlist, sda_currtd, td_stus,
                     td_priority, wl_list, wl_tdnr, died>>
  BY DEF Select, SelectFromList, nrVars, tdVars, semVars
<1> HIDE DEF q, n, c, r
<1>6. /\ tdl_lsth'[p] = r
      /\ \A x \in Prio : x # p => tdl_lsth'[x] = tdl_lsth[x]
      /\ tdl_curruntd'[p] = n
      /\ \A x \in Prio : x # p => tdl_curruntd'[x] = tdl_curruntd[x]
      /\ tdl_lsth[p] = q
      /\ tdl_curruntd[p] = c
  BY <1>5 DEF TInv, TypeOK, q, c
<1>7. \A t \in Thread : td_priority[t] \in Prio
  BY DEF TInv, TypeOK
<1>8. n # None
  BY <1>1, SchedAssumption
<1>9. NoDups'
  BY <1>4, <1>5, <1>6 DEF SInv, LInv, NoDups
<1>10. RunListsOK'
  <2> SUFFICES ASSUME NEW x \in Prio, NEW t \in Thread, OnList(t, tdl_lsth'[x])
               PROVE  /\ td_priority[t] = x
                      /\ td_stus[t] \in Runnable
                      /\ tdl_curruntd'[x] # t
    BY <1>5 DEF RunListsOK
  <2>1. CASE x = p
    BY <1>3, <1>4, <1>6, <2>1, SchedAssumption DEF SInv, LInv, RunListsOK
  <2>2. CASE x # p
    BY <1>6, <2>2 DEF SInv, LInv, RunListsOK
  <2>3. QED
    BY <2>1, <2>2
<1>11. CurrentsOK'
  BY <1>3, <1>5, <1>6 DEF SInv, LInv, CurrentsOK
<1>12. WaitListsOK'
  BY <1>5 DEF SInv, LInv, WaitListsOK
<1>13. ListsMatchStatus'
  <2>1. \A t \in Thread : RunListed(t)' <=> RunListed(t)
    <3> SUFFICES ASSUME NEW t \in Thread
                 PROVE  OnList(t, tdl_lsth'[td_priority[t]])
                          \/ tdl_curruntd'[td_priority[t]] = t
                        <=> OnList(t, tdl_lsth[td_priority[t]])
                          \/ tdl_curruntd[td_priority[t]] = t
      BY <1>5 DEF RunListed
    <3>1. CASE td_priority[t] = p
      BY <1>2, <1>4, <1>6, <3>1, SchedAssumption
    <3>2. CASE td_priority[t] # p
      BY <1>6, <1>7, <3>2
    <3>3. QED
      BY <3>1, <3>2
  <2>2. \A t \in Thread : WaitListed(t)' <=> WaitListed(t)
    BY <1>5 DEF WaitListed
  <2>3. QED
    BY <1>5, <2>1, <2>2 DEF SInv, LInv, ListsMatchStatus
<1>14. CountsMatchLists'
  <2>1. \A x \in Prio : tdl_nr[x] = Len(tdl_lsth'[x])
                                   + IF tdl_curruntd'[x] = None THEN 0 ELSE 1
    <3> SUFFICES ASSUME NEW x \in Prio
                 PROVE  tdl_nr[x] = Len(tdl_lsth'[x])
                                   + IF tdl_curruntd'[x] = None THEN 0 ELSE 1
      OBVIOUS
    <3>1. tdl_nr[x] = Len(tdl_lsth[x]) + IF tdl_curruntd[x] = None THEN 0 ELSE 1
      BY DEF SInv, LInv, CountsMatchLists
    <3>2. CASE x = p
      <4>1. Len(tdl_lsth'[x]) = Len(q) - (IF c = None THEN 1 ELSE 0)
        BY <1>4, <1>6, <3>2
      <4>2. tdl_nr[x] = Len(q) + IF c = None THEN 0 ELSE 1
        BY <1>6, <3>1, <3>2
      <4>3. tdl_curruntd'[x] # None
        BY <1>6, <1>8, <3>2
      <4>4. tdl_nr[x] = Len(tdl_lsth'[x]) + 1
        <5>1. CASE c = None
          BY <1>1, <4>1, <4>2, <5>1
        <5>2. CASE c # None
          BY <1>1, <4>1, <4>2, <5>2
        <5>3. QED
          BY <5>1, <5>2
      <4>5. QED
        BY <4>3, <4>4
    <3>3. CASE x # p
      BY <1>6, <3>1, <3>3
    <3>4. QED
      BY <3>2, <3>3
  <2>2. QED
    BY <1>5, <2>1 DEF SInv, LInv, CountsMatchLists
<1>15. IsFiniteSet(Alive')
  BY <1>5 DEF SInv, LInv, Alive
<1>16. LInv'
  BY <1>9, <1>10, <1>11, <1>12, <1>13, <1>14, <1>15 DEF LInv
<1>17. Kstk # <<>> /\ Fits(Caller)
  BY KstkFits DEF Select, At
<1>18. SwitchOK'
  BY <1>1, <1>3, <1>5, <1>6, <1>17, SwitchChosen DEF SInv
<1>19. RunningIsCurrent'
  <2>1. Pend("switch", n) \in Call /\ Pend("switch", n).op = "switch"
    BY <1>1, CallTypes
  <2>2. QED
    BY <1>5, <1>17, <2>1, PushFits, PushSchedul, RunningInSchedul
<1>20. QED
  BY <1>5, <1>16, <1>18, <1>19 DEF SInv, NeverDies

LEMMA SelectSafe ==
  ASSUME TInv, SInv, Clean(Caller), Select
  PROVE  SInv'
BY SelectIdleSafe, SelectCurrentSafe, SelectFromListSafe DEF Select

-----------------------------------------------------------------------------
(* The switch. *)

LEMMA SwitchSafe ==
  ASSUME TInv, SInv, Switch
  PROVE  SInv'
<1> DEFINE n == Top.arg
<1>1. /\ Kstk # <<>> /\ Top.op = "switch" /\ Top \in Call
      /\ Fits(Caller) /\ Clean(Caller) /\ n \in Runner
  BY KstkFits, SwitchAlone, CallTypes DEF Switch, At, SInv
<1>2. n # Idle => td_stus[n] \in Runnable /\ tdl_curruntd[td_priority[n]] = n
  BY <1>1, SwitchAlone DEF SInv, ChoiceOK
<1>3. /\ sda_currtd' = n
      /\ KstkBecomes(Caller)
      /\ td_stus' = [t \in Thread |-> IF t = n /\ td_stus[t] = "new" THEN "run"
                                      ELSE td_stus[t]]
      /\ UNCHANGED <<tdl_lsth, tdl_curruntd, tdl_nr, sda_threadnr, sda_exitlist,
                     td_priority, wl_list, wl_tdnr, died>>
  BY DEF Switch, runVars, nrVars, semVars
<1> HIDE DEF n
<1>4. \A t \in Thread :
        /\ td_stus'[t] \in Runnable <=> td_stus[t] \in Runnable
        /\ td_stus'[t] = "wait" <=> td_stus[t] = "wait"
        /\ td_stus'[t] = "exit" <=> td_stus[t] = "exit"
  BY <1>3 DEF Runnable
<1>5. NoDups'
  BY <1>3 DEF SInv, LInv, NoDups
<1>6. RunListsOK'
  BY <1>3, <1>4 DEF SInv, LInv, RunListsOK
<1>7. CurrentsOK'
  <2>1. \A p \in Prio : tdl_curruntd[p] # None => tdl_curruntd[p] \in Thread
    BY DEF TInv, TypeOK
  <2>2. QED
    BY <1>3, <1>4, <2>1 DEF SInv, LInv, CurrentsOK
<1>8. WaitListsOK'
  BY <1>3, <1>4 DEF SInv, LInv, WaitListsOK
<1>9. ListsMatchStatus'
  <2>1. \A t \in Thread : RunListed(t)' <=> RunListed(t)
    BY <1>3 DEF RunListed
  <2>2. \A t \in Thread : WaitListed(t)' <=> WaitListed(t)
    BY <1>3 DEF WaitListed
  <2>3. \A t \in Thread : td_stus'[t] \in {"new", "run"} <=> td_stus[t] \in {"new", "run"}
    BY <1>4 DEF Runnable
  <2>4. QED
    BY <1>3, <1>4, <2>1, <2>2, <2>3 DEF SInv, LInv, ListsMatchStatus
<1>10. Alive' = Alive
  BY <1>3 DEF Alive
<1>11. CountsMatchLists'
  BY <1>3, <1>10 DEF SInv, LInv, CountsMatchLists, Alive
<1>12. LInv'
  BY <1>5, <1>6, <1>7, <1>8, <1>9, <1>10, <1>11 DEF SInv, LInv
<1>13. SwitchOK'
  BY <1>1, <1>3, SwitchKept DEF SInv
<1>14. RunningIsCurrent'
  <2>1. n # Idle => n \in Thread
    BY <1>1 DEF Runner
  <2>2. n # Idle => td_stus'[n] = "run"
    BY <1>2, <1>3, <2>1 DEF Runnable
  <2>3. QED
    BY <1>2, <1>3, <2>2 DEF RunningIsCurrent
<1>15. QED
  BY <1>3, <1>12, <1>13, <1>14 DEF SInv, NeverDies

-----------------------------------------------------------------------------
(* Counters. *)

(* A list without duplicates is no longer than the set its threads are of. *)
LEMMA ListIsShort ==
  ASSUME NEW q \in Seq(Thread), NoDup(q), NEW S, IsFiniteSet(S),
         \A i \in 1 .. Len(q) : q[i] \in S
  PROVE  Len(q) <= Cardinality(S)
<1>1. Len(q) \in Nat /\ Cardinality(S) \in Nat
  BY LenProperties, FS_CardinalityType
<1>2. IsFiniteSet(1 .. Len(q)) /\ Cardinality(1 .. Len(q)) = Len(q)
  <2>1. 1 \in Int /\ Len(q) \in Int
    BY <1>1
  <2>2. /\ IsFiniteSet(1 .. Len(q))
        /\ Cardinality(1 .. Len(q)) = IF 1 > Len(q) THEN 0 ELSE Len(q) - 1 + 1
    BY <2>1, FS_Interval
  <2>3. QED
    BY <1>1, <2>2
<1> DEFINE f == [i \in 1 .. Len(q) |-> q[i]]
<1>3. f \in [1 .. Len(q) -> S]
  OBVIOUS
<1>4. \A i, j \in 1 .. Len(q) : i # j => f[i] # f[j]
  BY DEF NoDup
<1> HIDE DEF f
<1>5. ASSUME Cardinality(S) < Cardinality(1 .. Len(q))
      PROVE  FALSE
  <2>1. \E x, y \in 1 .. Len(q) : x # y /\ f[x] = f[y]
    BY <1>2, <1>3, <1>5, FS_PigeonHole
  <2>2. QED
    BY <1>4, <2>1
<1>6. QED
  BY <1>1, <1>2, <1>5

(* A counter that is not zero does not wrap.                               *)
LEMMA CountDown ==
  ASSUME NEW n \in Nat, n >= 1
  PROVE  Decr(n) = n - 1
BY DEF Decr

LEMMA CountUp ==
  ASSUME NEW n \in Nat, n < UINT_MAX
  PROVE  Incr(n) = n + 1
BY SchedAssumption DEF Incr

(* The counters of lists a thread is not on can still count it.            *)
LEMMA RoomForOne ==
  ASSUME NEW q \in Seq(Thread), NoDup(q), NEW c \in Thread \cup {None},
         c # None => ~OnList(c, q), NEW t \in Thread, ~OnList(t, q), t # c
  PROVE  Len(q) + (IF c = None THEN 0 ELSE 1) < UINT_MAX
<1> DEFINE S == (Thread \ {t}) \ {c}
<1>1. /\ IsFiniteSet(S)
      /\ Cardinality(S) = Cardinality(Thread) - 1 - (IF c = None THEN 0 ELSE 1)
      /\ Cardinality(Thread) \in Nat
  <2>1. IsFiniteSet(Thread) /\ Cardinality(Thread) \in Nat /\ None \notin Thread
    BY SchedAssumption, FS_CardinalityType
  <2>2. /\ IsFiniteSet(Thread \ {t})
        /\ Cardinality(Thread \ {t}) = Cardinality(Thread) - 1
    BY <2>1, FS_RemoveElement
  <2>3. c \in Thread \ {t} <=> c # None
    BY <2>1
  <2>4. /\ IsFiniteSet(S)
        /\ Cardinality(S) = IF c \in Thread \ {t} THEN Cardinality(Thread \ {t}) - 1
                            ELSE Cardinality(Thread \ {t})
    BY <2>2, FS_RemoveElement
  <2>5. QED
    BY <2>1, <2>2, <2>3, <2>4
<1>2. ASSUME NEW i \in 1 .. Len(q)
      PROVE  q[i] \in S
  <2>1. q[i] \in Thread
    BY ElementOfSeq
  <2>2. q[i] # t
    BY DEF OnList
  <2>3. q[i] # c
    <3>1. CASE c = None
      BY <2>1, <3>1, SchedAssumption
    <3>2. CASE c # None
      BY <3>2 DEF OnList
    <3>3. QED
      BY <3>1, <3>2
  <2>4. QED
    BY <2>1, <2>2, <2>3
<1> HIDE DEF S
<1>3. Len(q) <= Cardinality(S) /\ Len(q) \in Nat
  BY <1>1, <1>2, ListIsShort, LenProperties
<1>4. UINT_MAX \in Nat /\ Cardinality(Thread) <= UINT_MAX
  BY SchedAssumption
<1>5. QED
  BY <1>1, <1>3, <1>4

LEMMA RoomInPrio ==
  ASSUME TInv, SInv, NEW p \in Prio, NEW t \in Thread, ~OnList(t, tdl_lsth[p]),
         tdl_curruntd[p] # t
  PROVE  Incr(tdl_nr[p]) = tdl_nr[p] + 1
<1> DEFINE q == tdl_lsth[p]
           c == tdl_curruntd[p]
           k == IF c = None THEN 0 ELSE 1
<1>1. /\ q \in Seq(Thread) /\ NoDup(q) /\ c \in Thread \cup {None}
      /\ c # None => ~OnList(c, q)
      /\ tdl_nr[p] = Len(q) + k
      /\ tdl_nr[p] \in Nat
  BY SchedAssumption
     DEF TInv, TypeOK, SInv, LInv, NoDups, RunListsOK, CountsMatchLists
<1>2. Len(q) + k < UINT_MAX
  <2> HIDE DEF q, c
  <2>1. ~OnList(t, q) /\ t # c
    BY DEF q, c
  <2>2. QED
    BY <1>1, <2>1, RoomForOne
<1> HIDE DEF q, c, k
<1>3. QED
  BY <1>1, <1>2, CountUp

-----------------------------------------------------------------------------
(* krlsem_up takes a thread from its wait list to its run list.            *)

LEMMA WakeOneSafe ==
  ASSUME TInv, SInv, WakeOne
  PROVE  SInv'
<1> DEFINE s == Top.arg
           t == Head(wl_list[s])
           p == td_priority[t]
<1>1. Kstk # <<>> /\ Top.op = "allup" /\ s \in Sem
  BY KstkFits, CallTypes DEF WakeOne, At
<1>2. wl_list[s] \in Seq(Thread) /\ wl_list[s] # <<>> /\ NoDup(wl_list[s])
  BY <1>1 DEF WakeOne, TInv, TypeOK, SInv, LInv, NoDups
<1>3. /\ t \in Thread
      /\ OnList(t, wl_list[s])
      /\ Len(Tail(wl_list[s])) = Len(wl_list[s]) - 1
      /\ NoDup(Tail(wl_list[s]))
      /\ \A x : OnList(x, Tail(wl_list[s])) <=> OnList(x, wl_list[s]) /\ x # t
  BY <1>2, TailOnList
<1>4. Len(wl_list[s]) \in Nat /\ Len(wl_list[s]) # 0
  BY <1>2, LenProperties, EmptySeq
<1>5. ~(wl_tdnr[s] < 1)
  BY <1>1, <1>4 DEF SInv, LInv, CountsMatchLists
<1>6. /\ wl_list' = [wl_list EXCEPT ![s] = Tail(@)]
      /\ wl_tdnr' = [wl_tdnr EXCEPT ![s] = Decr(@)]
      /\ td_stus' = [td_stus EXCEPT ![t] = "run"]
      /\ Enlist(t, p)
      /\ UNCHANGED <<sda_threadnr, sda_exitlist, sda_currtd, td_priority,
                     td_kstk, died>>
  BY <1>5 DEF WakeOne, nrVars
<1>7. p \in Prio
  BY <1>3 DEF TInv, TypeOK
<1> HIDE DEF s, t, p
<1>8. td_stus[t] = "wait" /\ \A x \in Sem : OnList(t, wl_list[x]) => x = s
  BY <1>1, <1>3 DEF SInv, LInv, WaitListsOK
<1>9. \A x \in Prio : ~OnList(t, tdl_lsth[x]) /\ tdl_curruntd[x] # t
  BY <1>3, <1>8, SchedAssumption DEF SInv, LInv, RunListsOK, CurrentsOK, Runnable
<1>10. /\ wl_list'[s] = Tail(wl_list[s])
       /\ wl_tdnr'[s] = wl_tdnr[s] - 1
       /\ \A x \in Sem : x # s => wl_list'[x] = wl_list[x] /\ wl_tdnr'[x] = wl_tdnr[x]
       /\ td_stus'[t] = "run"
       /\ \A x \in Thread : x # t => td_stus'[x] = td_stus[x]
  <2>1. Decr(wl_tdnr[s]) = wl_tdnr[s] - 1
    <3>1. wl_tdnr[s] \in Nat /\ wl_tdnr[s] >= 1
      BY <1>1, <1>5, SchedAssumption DEF TInv, TypeOK
    <3>2. QED
      BY <3>1, CountDown
  <2>2. QED
    BY <1>1, <1>3, <1>6, <2>1 DEF TInv, TypeOK
<1>11. /\ tdl_lsth'[p] = Append(tdl_lsth[p], t)
       /\ tdl_nr'[p] = tdl_nr[p] + 1
       /\ \A x \in Prio : x # p => tdl_lsth'[x] = tdl_lsth[x] /\ tdl_nr'[x] = tdl_nr[x]
       /\ UNCHANGED tdl_curruntd
  <2>1. Incr(tdl_nr[p]) = tdl_nr[p] + 1
    BY <1>3, <1>7, <1>9, RoomInPrio
  <2>2. QED
    BY <1>6, <1>7, <2>1 DEF Enlist, TInv, TypeOK
<1>12. /\ NoDup(tdl_lsth'[p])
       /\ Len(tdl_lsth'[p]) = Len(tdl_lsth[p]) + 1
       /\ \A x : OnList(x, tdl_lsth'[p]) <=> OnList(x, tdl_lsth[p]) \/ x = t
       /\ Len(tdl_lsth[p]) \in Nat
  BY <1>3, <1>7, <1>9, <1>11, AppendOnList, LenProperties
     DEF TInv, TypeOK, SInv, LInv, NoDups
<1>13. NoDups'
  BY <1>3, <1>10, <1>11, <1>12 DEF SInv, LInv, NoDups
<1>14. RunListsOK'
  <2> SUFFICES ASSUME NEW x \in Prio, NEW y \in Thread, OnList(y, tdl_lsth'[x])
               PROVE  /\ td_priority[y] = x
                      /\ td_stus'[y] \in Runnable
                      /\ tdl_curruntd[x] # y
    BY <1>6, <1>11 DEF RunListsOK
  <2>1. CASE y = t
    BY <1>9, <1>10, <1>11, <2>1 DEF p, Runnable
  <2>2. CASE y # t
    <3>1. OnList(y, tdl_lsth[x])
      BY <1>11, <1>12, <2>2
    <3>2. QED
      BY <1>10, <2>2, <3>1 DEF SInv, LInv, RunListsOK
  <2>3. QED
    BY <2>1, <2>2
<1>15. CurrentsOK'
  <2>1. \A x \in Prio : tdl_curruntd[x] # None =>
          tdl_curruntd[x] \in Thread /\ tdl_curruntd[x] # t
    BY <1>9 DEF TInv, TypeOK
  <2>2. QED
    BY <1>6, <1>10, <1>11, <2>1 DEF SInv, LInv, CurrentsOK
<1>16. \A x \in Sem, y \in Thread :
         OnList(y, wl_list'[x]) <=> OnList(y, wl_list[x]) /\ y # t
  BY <1>3, <1>8, <1>10
<1>17. WaitListsOK'
  BY <1>10, <1>16 DEF SInv, LInv, WaitListsOK
<1>18. ListsMatchStatus'
  <2>1. \A y \in Thread : RunListed(y)' <=> RunListed(y) \/ y = t
    <3>1. \A x \in Prio, y \in Thread :
            OnList(y, tdl_lsth'[x]) <=> OnList(y, tdl_lsth[x]) \/ (x = p /\ y = t)
      BY <1>11, <1>12
    <3>2. \A y \in Thread : td_priority[y] \in Prio
      BY DEF TInv, TypeOK
    <3>3. QED
      BY <1>6, <1>11, <3>1, <3>2 DEF RunListed, p
  <2>2. \A y \in Thread : WaitListed(y)' <=> WaitListed(y) /\ y # t
    BY <1>16 DEF WaitListed
  <2>3. QED
    BY <1>6, <1>8, <1>10, <2>1, <2>2 DEF SInv, LInv, ListsMatchStatus
<1>19. Alive' = Alive
  BY <1>3, <1>8, <1>10 DEF Alive
<1>20. CountsMatchLists'
  <2>1. \A x \in Prio : tdl_nr'[x] = Len(tdl_lsth'[x])
                                    + IF tdl_curruntd'[x] = None THEN 0 ELSE 1
    <3> SUFFICES ASSUME NEW x \in Prio
                 PROVE  tdl_nr'[x] = Len(tdl_lsth'[x])
                                    + IF tdl_curruntd[x] = None THEN 0 ELSE 1
      BY <1>11
    <3>1. tdl_nr[x] = Len(tdl_lsth[x]) + IF tdl_curruntd[x] = None THEN 0 ELSE 1
      BY DEF SInv, LInv, CountsMatchLists
    <3>2. CASE x = p
      <4> DEFINE k == IF tdl_curruntd[x] = None THEN 0 ELSE 1
      <4>1. k \in Nat
        OBVIOUS
      <4>2. tdl_nr[x] = Len(tdl_lsth[x]) + k
        BY <3>1
      <4> HIDE DEF k
      <4>3. tdl_nr'[x] = Len(tdl_lsth'[x]) + k
        BY <1>11, <1>12, <3>2, <4>1, <4>2
      <4>4. QED
        BY <4>3 DEF k
    <3>3. CASE x # p
      BY <1>11, <3>1, <3>3
    <3>4. QED
      BY <3>2, <3>3
  <2>2. \A x \in Sem : wl_tdnr'[x] = Len(wl_list'[x])
    BY <1>3, <1>10 DEF SInv, LInv, CountsMatchLists
  <2>3. QED
    BY <1>6, <1>19, <2>1, <2>2 DEF SInv, LInv, CountsMatchLists, Alive
<1>21. LInv'
  BY <1>13, <1>14, <1>15, <1>17, <1>18, <1>19, <1>20 DEF SInv, LInv
<1>22. SwitchOK'
  <2>1. \A x \in Thread : td_stus[x] \in Runnable => td_stus'[x] \in Runnable
    BY <1>10 DEF Runnable
  <2>2. QED
    BY <1>6, <1>11, <2>1, SwitchUntouched DEF SInv
<1>23. RunningIsCurrent'
  <2>1. td_stus'[sda_currtd] = "run" \/ sda_currtd = Idle \/ td_stus'[sda_currtd] = td_stus[sda_currtd]
    BY <1>10 DEF TInv, TypeOK, Runner
  <2>2. InSchedul(sda_currtd)' <=> InSchedul(sda_currtd)
    BY <1>6 DEF InSchedul
  <2>3. QED
    BY <1>6, <1>11, <2>1, <2>2 DEF SInv, RunningIsCurrent
<1>24. QED
  BY <1>6, <1>21, <1>22, <1>23 DEF SInv, NeverDies

-----------------------------------------------------------------------------
(* The running thread leaves the run queue.                                *)

(* In its own code a thread is runnable and current: on no list, counted.  *)
LEMMA InCode ==
  ASSUME TInv, SInv, sda_currtd \in Thread, ~Schedul(Kstk)
  PROVE  LET t == sda_currtd
             p == td_priority[t]
         IN /\ p \in Prio
            /\ td_stus[t] = "run"
            /\ tdl_curruntd[p] = t
            /\ tdl_nr[p] = Len(tdl_lsth[p]) + 1
            /\ Len(tdl_lsth[p]) \in Nat
            /\ \A x \in Prio : /\ ~OnList(t, tdl_lsth[x])
                               /\ x # p => tdl_curruntd[x] # t
            /\ \A s \in Sem : ~OnList(t, wl_list[s])
            /\ t \notin sda_exitlist
<1> DEFINE t == sda_currtd
           p == td_priority[t]
<1>1. t # Idle /\ t # None
  BY SchedAssumption
<1>2. td_stus[t] = "run" /\ tdl_curruntd[p] = t
  BY <1>1 DEF SInv, RunningIsCurrent, InSchedul, Schedul, Kstk
<1>3. p \in Prio
  BY DEF TInv, TypeOK
<1>4. Len(tdl_lsth[p]) \in Nat
  BY <1>3, LenProperties DEF TInv, TypeOK
<1>5. tdl_nr[p] = Len(tdl_lsth[p]) + 1
  BY <1>1, <1>2, <1>3 DEF SInv, LInv, CountsMatchLists
<1>6. \A x \in Prio : /\ ~OnList(t, tdl_lsth[x])
                      /\ x # p => tdl_curruntd[x] # t
  BY <1>1, <1>2 DEF SInv, LInv, RunListsOK, CurrentsOK
<1>7. \A s \in Sem : ~OnList(t, wl_list[s])
  BY <1>2 DEF SInv, LInv, WaitListsOK
<1>8. t \notin sda_exitlist
  BY <1>2 DEF SInv, LInv, ListsMatchStatus
<1>9. QED
  BY <1>2, <1>3, <1>4, <1>5, <1>6, <1>7, <1>8

(* What krlsched_wait and krlsched_exit have in common.                    *)
LEMMA LeaveRunSafe ==
  ASSUME TInv, SInv, sda_currtd \in Thread, ~Schedul(Kstk),
         LeaveRun(sda_currtd, td_priority[sda_currtd]),
         NEW st \in {"wait", "exit"},
         td_stus' = [td_stus EXCEPT ![sda_currtd] = st],
         UNCHANGED td_priority
  PROVE  /\ \A x \in Prio : NoDup(tdl_lsth'[x])
         /\ RunListsOK'
         /\ CurrentsOK'
         /\ \A x \in Thread : RunListed(x)' <=> RunListed(x) /\ x # sda_currtd
         /\ \A x \in Prio : tdl_nr'[x] = Len(tdl_lsth'[x])
                                        + IF tdl_curruntd'[x] = None THEN 0 ELSE 1
<1> DEFINE t == sda_currtd
           p == td_priority[t]
<1>1. /\ p \in Prio
      /\ td_stus[t] = "run"
      /\ tdl_curruntd[p] = t
      /\ tdl_nr[p] = Len(tdl_lsth[p]) + 1
      /\ Len(tdl_lsth[p]) \in Nat
      /\ \A x \in Prio : /\ ~OnList(t, tdl_lsth[x])
                         /\ x # p => tdl_curruntd[x] # t
  BY InCode
<1>2. \A x \in Prio : tdl_lsth'[x] = tdl_lsth[x]
  BY <1>1, UnlinkIsSeq DEF LeaveRun, TInv, TypeOK
<1>3. /\ tdl_curruntd'[p] = None
      /\ \A x \in Prio : x # p => tdl_curruntd'[x] = tdl_curruntd[x]
      /\ tdl_nr'[p] = tdl_nr[p] - 1
      /\ \A x \in Prio : x # p => tdl_nr'[x] = tdl_nr[x]
  <2>1. Decr(tdl_nr[p]) = tdl_nr[p] - 1
    BY <1>1, CountDown
  <2>2. QED
    BY <1>1, <2>1 DEF LeaveRun, ClearCur, TInv, TypeOK
<1>4. \A x \in Thread : x # t => td_stus'[x] = td_stus[x]
  BY DEF TInv, TypeOK
<1> HIDE DEF t, p
<1>5. \A x \in Prio : NoDup(tdl_lsth'[x])
  BY <1>2 DEF SInv, LInv, NoDups
<1>6. RunListsOK'
  <2> SUFFICES ASSUME NEW x \in Prio, NEW y \in Thread, OnList(y, tdl_lsth'[x])
               PROVE  /\ td_priority[y] = x
                      /\ td_stus'[y] \in Runnable
                      /\ tdl_curruntd'[x] # y
    BY DEF RunListsOK
  <2>1. OnList(y, tdl_lsth[x]) /\ y # t
    BY <1>1, <1>2
  <2>2. QED
    BY <1>3, <1>4, <2>1, SchedAssumption DEF SInv, LInv, RunListsOK
<1>7. CurrentsOK'
  <2> SUFFICES ASSUME NEW x \in Prio, tdl_curruntd'[x] # None
               PROVE  /\ td_priority[tdl_curruntd'[x]] = x
                      /\ td_stus'[tdl_curruntd'[x]] \in Runnable
    BY DEF CurrentsOK
  <2>1. x # p /\ tdl_curruntd'[x] = tdl_curruntd[x] /\ tdl_curruntd[x] # t
    BY <1>1, <1>3
  <2>2. tdl_curruntd[x] \in Thread
    BY <2>1 DEF TInv, TypeOK
  <2>3. QED
    BY <1>4, <2>1, <2>2 DEF SInv, LInv, CurrentsOK
<1>8. ASSUME NEW x \in Thread
      PROVE  RunListed(x)' <=> RunListed(x) /\ x # t
  <2>1. td_priority[x] \in Prio
    BY DEF TInv, TypeOK
  <2>2. x # None
    BY SchedAssumption
  <2>3. QED
    BY <1>1, <1>2, <1>3, <2>1, <2>2 DEF RunListed
<1>9. ASSUME NEW x \in Prio
      PROVE  tdl_nr'[x] = Len(tdl_lsth'[x])
                         + IF tdl_curruntd'[x] = None THEN 0 ELSE 1
  <2>1. CASE x = p
    BY <1>1, <1>2, <1>3, <2>1
  <2>2. CASE x # p
    BY <1>2, <1>3, <2>2 DEF SInv, LInv, CountsMatchLists
  <2>3. QED
    BY <2>1, <2>2
<1>10. QED
  BY <1>5, <1>6, <1>7, <1>8, <1>9 DEF t

LEMMA CallExitSafe ==
  ASSUME TInv, SInv, CallExit
  PROVE  SInv'
<1>1. sda_currtd \in Thread /\ ~Schedul(Kstk) /\ Kstk = <<>> /\ sda_currtd # Idle
  BY EmptyStack DEF CallExit, AtCode, TInv, TypeOK, Runner
<1>2. ~(tdl_nr[td_priority[sda_currtd]] < 1)
  BY <1>1, InCode
<1>3. Pend("exit", None) \in Call /\ Pend("exit", None).op = "exit"
  BY CallTypes
<1>4. Fits(<<Pend("exit", None)>>) /\ ChoicesKept(<<Pend("exit", None)>>)
  BY <1>1, <1>3, OneFits DEF ChoicesKept
<1>5. KstkBecomes(<<Pend("exit", None)>>) /\ ~died'
  BY <1>2 DEF CallExit, AtCode
<1>6. QED
  BY <1>1, <1>4, <1>5, StackStepSafe DEF CallExit, semVars, nrVars

(* krlsched_exit is alone on the stack of the thread.                      *)
LEMMA ExitDelSafe ==
  ASSUME TInv, SInv, ExitDel
  PROVE  SInv'
<1> DEFINE t == sda_currtd
           p == td_priority[t]
<1>1. t \in Thread /\ ~Schedul(Kstk) /\ Clean(Caller) /\ Fits(Caller)
  <2>1. t \in Thread /\ Kstk # <<>> /\ Top.op = "exit" /\ Len(Kstk) = 1
    BY ExitDelThread
  <2>2. Fits(Caller) /\ Len(Caller) = 0
    BY <2>1, KstkFits
  <2>3. QED
    BY <2>1, <2>2 DEF Top, Schedul, Clean
<1>2. /\ p \in Prio
      /\ td_stus[t] = "run"
      /\ tdl_nr[p] = Len(tdl_lsth[p]) + 1
      /\ Len(tdl_lsth[p]) \in Nat
      /\ \A s \in Sem : ~OnList(t, wl_list[s])
      /\ t \notin sda_exitlist
  BY <1>1, InCode
<1>3. sda_threadnr >= 1 /\ sda_threadnr \in Nat
  <2>1. t \in Alive /\ IsFiniteSet(Alive) /\ sda_threadnr = Cardinality(Alive)
    BY <1>1, <1>2 DEF Alive, SInv, LInv, CountsMatchLists
  <2>2. Cardinality(Alive) \in Nat /\ Cardinality(Alive) # 0
    BY <2>1, FS_CardinalityType, FS_EmptySet
  <2>3. QED
    BY <2>1, <2>2
<1>4. /\ LeaveRun(t, p)
      /\ sda_threadnr' = sda_threadnr - 1
      /\ wl_list' = [x \in Sem |-> Unlink(wl_list[x], t)]
      /\ td_stus' = [td_stus EXCEPT ![t] = "exit"]
      /\ sda_exitlist' = sda_exitlist \cup {t}
      /\ KstkBecomes(Append(Caller, Pend("select", None)))
      /\ UNCHANGED <<died, sda_currtd, td_priority, wl_tdnr>>
  BY <1>3, CountDown DEF ExitDel
<1>5. /\ \A x \in Prio : NoDup(tdl_lsth'[x])
      /\ RunListsOK'
      /\ CurrentsOK'
      /\ \A x \in Thread : RunListed(x)' <=> RunListed(x) /\ x # t
      /\ \A x \in Prio : tdl_nr'[x] = Len(tdl_lsth'[x])
                                     + IF tdl_curruntd'[x] = None THEN 0 ELSE 1
  BY <1>1, <1>4, LeaveRunSafe
<1> HIDE DEF t, p
<1>6. \A x \in Sem : wl_list'[x] = wl_list[x]
  BY <1>2, <1>4, UnlinkIsSeq DEF TInv, TypeOK
<1>7. td_stus'[t] = "exit" /\ \A x \in Thread : x # t => td_stus'[x] = td_stus[x]
  BY <1>1, <1>4 DEF TInv, TypeOK
<1>8. NoDups'
  BY <1>5, <1>6 DEF SInv, LInv, NoDups
<1>9. WaitListsOK'
  BY <1>2, <1>6, <1>7 DEF SInv, LInv, WaitListsOK
<1>10. ListsMatchStatus'
  <2>1. \A x \in Thread : WaitListed(x)' <=> WaitListed(x)
    BY <1>6 DEF WaitListed
  <2>2. QED
    BY <1>2, <1>4, <1>5, <1>7, <2>1 DEF SInv, LInv, ListsMatchStatus
<1>11. Alive' = Alive \ {t} /\ t \in Alive
  BY <1>1, <1>2, <1>7 DEF Alive
<1>12. IsFiniteSet(Alive') /\ Cardinality(Alive') = Cardinality(Alive) - 1
  BY <1>11, FS_RemoveElement DEF SInv, LInv
<1>13. CountsMatchLists'
  BY <1>4, <1>5, <1>6, <1>12 DEF SInv, LInv, CountsMatchLists, Alive
<1>14. LInv'
  BY <1>5, <1>8, <1>9, <1>10, <1>12, <1>13 DEF LInv
<1>15. Pend("select", None) \in Call /\ Pend("select", None).op = "select"
  BY CallTypes
<1>16. /\ Fits(Append(Caller, Pend("select", None)))
       /\ Clean(Append(Caller, Pend("select", None)))
       /\ Schedul(Append(Caller, Pend("select", None)))
  BY <1>1, <1>15, PushFits, PushClean, PushSchedul
<1>17. SwitchOK'
  BY <1>4, <1>16, SwitchKept DEF SInv
<1>18. RunningIsCurrent'
  BY <1>4, <1>16, RunningInSchedul
<1>19. QED
  BY <1>4, <1>14, <1>17, <1>18 DEF SInv, NeverDies

(* A thread waits from the code it runs: krlsem_down is alone on its stack.*)
LEMMA DownAlone ==
  ASSUME TInv, At("down")
  PROVE  /\ sda_currtd \in Thread
         /\ ~Schedul(Kstk)
         /\ Clean(Kstk)
<1>1. /\ Kstk # <<>> /\ Top.op = "down" /\ Fits(Kstk) /\ Len(Kstk) \in Nat
      /\ Len(Kstk) >= 1
  BY KstkFits DEF At
<1>2. Kstk[Len(Kstk)].op = "down"
  BY <1>1 DEF Top
<1>3. Len(Kstk) = 1 /\ sda_currtd # Idle
  <2>1. Len(Kstk) \in 1 .. Len(Kstk)
    BY <1>1
  <2>2. QED
    BY <1>1, <1>2, <2>1 DEF Fits
<1>4. QED
  BY <1>2, <1>3 DEF TInv, TypeOK, Runner, Schedul, Clean

LEMMA DownWaitSafe ==
  ASSUME TInv, SInv, DownWait
  PROVE  SInv'
<1> DEFINE t == sda_currtd
           s == Top.arg
           p == td_priority[t]
<1>1. t \in Thread /\ ~Schedul(Kstk) /\ Clean(Kstk)
  BY DownAlone DEF DownWait
<1>2. Kstk # <<>> /\ Fits(Kstk) /\ s \in Sem
  BY KstkFits, CallTypes DEF DownWait, At
<1>3. /\ p \in Prio
      /\ td_stus[t] = "run"
      /\ tdl_nr[p] = Len(tdl_lsth[p]) + 1
      /\ Len(tdl_lsth[p]) \in Nat
      /\ \A x \in Sem : ~OnList(t, wl_list[x])
      /\ t \notin sda_exitlist
  BY <1>1, InCode
<1>4. ~(tdl_nr[p] < 1)
  BY <1>3
<1>5. /\ td_stus' = [td_stus EXCEPT ![t] = "wait"]
      /\ LeaveRun(t, p)
      /\ wl_list' = [x \in Sem |-> IF x = s
                                   THEN AddHead(Unlink(wl_list[x], t), t)
                                   ELSE Unlink(wl_list[x], t)]
      /\ wl_tdnr' = [wl_tdnr EXCEPT ![s] = Incr(@)]
      /\ sda_exitlist' = sda_exitlist \ {t}
      /\ KstkBecomes(Append(Kstk, Pend("select", None)))
      /\ UNCHANGED <<died, sda_threadnr, sda_currtd, td_priority>>
  BY <1>4 DEF DownWait
<1>6. /\ \A x \in Prio : NoDup(tdl_lsth'[x])
      /\ RunListsOK'
      /\ CurrentsOK'
      /\ \A x \in Thread : RunListed(x)' <=> RunListed(x) /\ x # t
      /\ \A x \in Prio : tdl_nr'[x] = Len(tdl_lsth'[x])
                                     + IF tdl_curruntd'[x] = None THEN 0 ELSE 1
  BY <1>1, <1>5, LeaveRunSafe
<1> HIDE DEF t, s, p
<1>7. /\ wl_list'[s] = AddHead(wl_list[s], t)
      /\ \A x \in Sem : x # s => wl_list'[x] = wl_list[x]
  BY <1>2, <1>3, <1>5, UnlinkIsSeq DEF TInv, TypeOK
<1>8. /\ NoDup(wl_list'[s])
      /\ Len(wl_list'[s]) = Len(wl_list[s]) + 1
      /\ \A x : OnList(x, wl_list'[s]) <=> OnList(x, wl_list[s]) \/ x = t
  BY <1>1, <1>2, <1>3, <1>7, AddHeadIsSeq, AddHeadOnList
     DEF TInv, TypeOK, SInv, LInv, NoDups
<1>9. \A x \in Sem, y \in Thread :
        OnList(y, wl_list'[x]) <=> OnList(y, wl_list[x]) \/ (x = s /\ y = t)
  BY <1>7, <1>8
<1>10. td_stus'[t] = "wait" /\ \A x \in Thread : x # t => td_stus'[x] = td_stus[x]
  BY <1>1, <1>5 DEF TInv, TypeOK
<1>11. NoDups'
  BY <1>6, <1>7, <1>8 DEF SInv, LInv, NoDups
<1>12. WaitListsOK'
  BY <1>3, <1>9, <1>10 DEF SInv, LInv, WaitListsOK
<1>13. ListsMatchStatus'
  <2>1. \A x \in Thread : WaitListed(x)' <=> WaitListed(x) \/ x = t
    BY <1>2, <1>9 DEF WaitListed
  <2>2. \A x \in Thread : x \in sda_exitlist' <=> x \in sda_exitlist
    BY <1>3, <1>5
  <2>3. QED
    BY <1>3, <1>6, <1>10, <2>1, <2>2 DEF SInv, LInv, ListsMatchStatus
<1>14. Alive' = Alive
  BY <1>1, <1>3, <1>10 DEF Alive
<1>15. CountsMatchLists'
  <2>1. \A x \in Sem : wl_tdnr'[x] = Len(wl_list'[x])
    <3>1. /\ wl_list[s] \in Seq(Thread) /\ NoDup(wl_list[s])
          /\ wl_tdnr[s] = Len(wl_list[s]) /\ wl_tdnr[s] \in Nat
          /\ ~OnList(t, wl_list[s]) /\ t # None
      BY <1>1, <1>2, <1>3, SchedAssumption
         DEF t, TInv, TypeOK, SInv, LInv, NoDups, CountsMatchLists
    <3>2. Len(wl_list[s]) + 0 < UINT_MAX
      BY <1>1, <3>1, RoomForOne DEF t
    <3>3. Incr(wl_tdnr[s]) = Len(wl_list[s]) + 1
      BY <3>1, <3>2, CountUp
    <3>4. QED
      BY <1>2, <1>5, <1>7, <1>8, <3>3 DEF TInv, TypeOK, SInv, LInv, CountsMatchLists
  <2>2. QED
    BY <1>5, <1>6, <1>14, <2>1 DEF SInv, LInv, CountsMatchLists, Alive
<1>16. LInv'
  BY <1>6, <1>11, <1>12, <1>13, <1>14, <1>15 DEF SInv, LInv
<1>17. Pend("select", None) \in Call /\ Pend("select", None).op = "select"
  BY CallTypes
<1> DEFINE k == Append(Kstk, Pend("select", None))
<1>18. Fits(k) /\ Clean(k) /\ Schedul(k)
  BY <1>1, <1>2, <1>17, PushFits, PushClean, PushSchedul
<1>19. KstkBecomes(k)
  BY <1>5
<1> HIDE DEF k
<1>20. SwitchOK'
  BY <1>18, <1>19, SwitchKept DEF SInv
<1>21. RunningIsCurrent'
  BY <1>5, <1>18, <1>19, RunningInSchedul
<1>22. QED
  BY <1>5, <1>16, <1>20, <1>21 DEF SInv, NeverDies

-----------------------------------------------------------------------------
(* krlnew_thread. *)

LEMMA CallNewThreadSafe ==
  ASSUME TInv, SInv, NEW t \in Thread, NEW p \in Prio, CallNewThread(t, p)
  PROVE  SInv'
<1>1. /\ Kstk = <<>> /\ sda_currtd # Idle /\ td_stus[t] = "free"
      /\ td_stus' = [td_stus EXCEPT ![t] = "new"]
      /\ td_priority' = [td_priority EXCEPT ![t] = p]
      /\ tdl_lsth' = [tdl_lsth EXCEPT ![p] = AddHead(@, t)]
      /\ tdl_nr' = [tdl_nr EXCEPT ![p] = Incr(@)]
      /\ sda_threadnr' = Incr(sda_threadnr)
      /\ UNCHANGED <<tdl_curruntd, sda_currtd, sda_exitlist, td_kstk, wl_list,
                     wl_tdnr, died>>
  BY DEF CallNewThread, AtCode, semVars
<1>2. /\ \A x \in Prio : ~OnList(t, tdl_lsth[x]) /\ tdl_curruntd[x] # t
      /\ \A x \in Sem : ~OnList(t, wl_list[x])
  BY <1>1, SchedAssumption
     DEF SInv, LInv, RunListsOK, CurrentsOK, WaitListsOK, Runnable
<1>3. /\ td_stus'[t] = "new"
      /\ td_priority'[t] = p
      /\ \A x \in Thread : x # t => td_stus'[x] = td_stus[x]
                                    /\ td_priority'[x] = td_priority[x]
      /\ tdl_lsth'[p] = AddHead(tdl_lsth[p], t)
      /\ tdl_nr'[p] = tdl_nr[p] + 1
      /\ \A x \in Prio : x # p => tdl_lsth'[x] = tdl_lsth[x] /\ tdl_nr'[x] = tdl_nr[x]
  <2>1. Incr(tdl_nr[p]) = tdl_nr[p] + 1
    BY <1>2, RoomInPrio
  <2>2. QED
    BY <1>1, <2>1 DEF TInv, TypeOK
<1>4. /\ NoDup(tdl_lsth'[p])
      /\ Len(tdl_lsth'[p]) = Len(tdl_lsth[p]) + 1
      /\ Len(tdl_lsth[p]) \in Nat
      /\ \A x : OnList(x, tdl_lsth'[p]) <=> OnList(x, tdl_lsth[p]) \/ x = t
  BY <1>2, <1>3, AddHeadIsSeq, AddHeadOnList, LenProperties
     DEF TInv, TypeOK, SInv, LInv, NoDups
<1>5. \A x \in Prio, y \in Thread :
        OnList(y, tdl_lsth'[x]) <=> OnList(y, tdl_lsth[x]) \/ (x = p /\ y = t)
  BY <1>3, <1>4
<1>6. NoDups'
  BY <1>1, <1>3, <1>4 DEF SInv, LInv, NoDups
<1>7. RunListsOK'
  <2> SUFFICES ASSUME NEW x \in Prio, NEW y \in Thread, OnList(y, tdl_lsth'[x])
               PROVE  /\ td_priority'[y] = x
                      /\ td_stus'[y] \in Runnable
                      /\ tdl_curruntd[x] # y
    BY <1>1 DEF RunListsOK
  <2>1. CASE y = t
    BY <1>2, <1>3, <1>5, <2>1 DEF Runnable
  <2>2. CASE y # t
    BY <1>3, <1>5, <2>2 DEF SInv, LInv, RunListsOK
  <2>3. QED
    BY <2>1, <2>2
<1>8. CurrentsOK'
  <2>1. \A x \in Prio : tdl_curruntd[x] # None =>
          tdl_curruntd[x] \in Thread /\ tdl_curruntd[x] # t
    BY <1>2 DEF TInv, TypeOK
  <2>2. QED
    BY <1>1, <1>3, <2>1 DEF SInv, LInv, CurrentsOK
<1>9. WaitListsOK'
  BY <1>1, <1>2, <1>3 DEF SInv, LInv, WaitListsOK
<1>10. ListsMatchStatus'
  <2>1. \A y \in Thread : RunListed(y)' <=> RunListed(y) \/ y = t
    <3>1. RunListed(t)'
      BY <1>3, <1>5 DEF RunListed
    <3>2. ASSUME NEW y \in Thread, y # t
          PROVE  RunListed(y)' <=> RunListed(y)
      <4>1. td_priority[y] \in Prio
        BY DEF TInv, TypeOK
      <4>2. QED
        BY <1>1, <1>3, <1>5, <3>2, <4>1 DEF RunListed
    <3>3. QED
      BY <3>1, <3>2
  <2>2. \A y \in Thread : WaitListed(y)' <=> WaitListed(y)
    BY <1>1 DEF WaitListed
  <2>3. QED
    BY <1>1, <1>3, <2>1, <2>2 DEF SInv, LInv, ListsMatchStatus
<1>11. Alive' = Alive \cup {t} /\ t \notin Alive
  BY <1>1, <1>3 DEF Alive
<1>12. IsFiniteSet(Alive') /\ Cardinality(Alive') = Cardinality(Alive) + 1
  BY <1>11, FS_AddElement DEF SInv, LInv
<1>20. sda_threadnr' = sda_threadnr + 1
  <2>1. /\ sda_threadnr = Cardinality(Alive) /\ sda_threadnr \in Nat
    BY FS_CardinalityType DEF SInv, LInv, CountsMatchLists, Alive
  <2>2. Alive' \subseteq Thread
    BY <1>1 DEF Alive
  <2>3. Cardinality(Alive') <= Cardinality(Thread) /\ Cardinality(Thread) <= UINT_MAX
    BY <2>2, SchedAssumption, FS_Subset
  <2>4. sda_threadnr < UINT_MAX
    BY <1>12, <2>1, <2>3, SchedAssumption, FS_CardinalityType
  <2>5. QED
    BY <1>1, <2>1, <2>4, CountUp
<1>13. CountsMatchLists'
  <2>1. \A x \in Prio : tdl_nr'[x] = Len(tdl_lsth'[x])
                                    + IF tdl_curruntd'[x] = None THEN 0 ELSE 1
    <3> SUFFICES ASSUME NEW x \in Prio
                 PROVE  tdl_nr'[x] = Len(tdl_lsth'[x])
                                    + IF tdl_curruntd[x] = None THEN 0 ELSE 1
      BY <1>1
    <3>1. tdl_nr[x] = Len(tdl_lsth[x]) + IF tdl_curruntd[x] = None THEN 0 ELSE 1
      BY DEF SInv, LInv, CountsMatchLists
    <3>2. CASE x = p
      <4> DEFINE k == IF tdl_curruntd[x] = None THEN 0 ELSE 1
      <4>1. k \in Nat
        OBVIOUS
      <4>2. tdl_nr[x] = Len(tdl_lsth[x]) + k
        BY <3>1
      <4> HIDE DEF k
      <4>3. tdl_nr'[x] = Len(tdl_lsth'[x]) + k
        BY <1>3, <1>4, <3>2, <4>1, <4>2
      <4>4. QED
        BY <4>3 DEF k
    <3>3. CASE x # p
      BY <1>3, <3>1, <3>3
    <3>4. QED
      BY <3>2, <3>3
  <2>2. QED
    BY <1>1, <1>12, <1>20, <2>1 DEF SInv, LInv, CountsMatchLists, Alive
<1>14. LInv'
  BY <1>6, <1>7, <1>8, <1>9, <1>10, <1>12, <1>13 DEF LInv
<1>15. Clean(Kstk)
  BY <1>1 DEF Clean
<1>16. KstkBecomes(Kstk) /\ Fits(Kstk)
  <2>1. td_kstk = [td_kstk EXCEPT ![sda_currtd] = td_kstk[sda_currtd]]
    BY DEF TInv, TypeOK
  <2>2. QED
    BY <1>1, <2>1, KstkFits DEF KstkBecomes, Kstk
<1>17. SwitchOK'
  BY <1>15, <1>16, SwitchKept DEF SInv
<1>18. RunningIsCurrent'
  <2>1. td_stus[sda_currtd] = "run" => sda_currtd # t
    BY <1>1
  <2>2. sda_currtd \in Thread
    BY <1>1 DEF TInv, TypeOK, Runner
  <2>3. QED
    BY <1>1, <1>3, <1>16, <2>1, <2>2, RunningKept DEF SInv
<1>19. QED
  BY <1>1, <1>14, <1>17, <1>18 DEF SInv, NeverDies

-----------------------------------------------------------------------------
(* The theorems. *)

LEMMA InitSafe == Init => SInv
<1> SUFFICES ASSUME Init
             PROVE  SInv
  OBVIOUS
<1>0. FirstThread \in Thread /\ FirstThread # None /\ 0 \in Prio
  BY SchedAssumption DEF Prio
<1>1. /\ NoDup(<<>>) /\ Len(<<>>) = 0 /\ \A x : ~OnList(x, <<>>)
      /\ NoDup(<<FirstThread>>) /\ Len(<<FirstThread>>) = 1
      /\ \A x : OnList(x, <<FirstThread>>) <=> x = FirstThread
  BY EmptyOnList DEF NoDup, OnList
<1>2. /\ tdl_lsth[0] = <<FirstThread>>
      /\ \A p \in Prio : p # 0 => tdl_lsth[p] = <<>>
      /\ \A p \in Prio : tdl_curruntd[p] = None
      /\ tdl_nr[0] = 1
      /\ \A p \in Prio : p # 0 => tdl_nr[p] = 0
      /\ \A s \in Sem : wl_list[s] = <<>> /\ wl_tdnr[s] = 0
      /\ td_stus[FirstThread] = "new"
      /\ \A t \in Thread : t # FirstThread => td_stus[t] = "free"
      /\ \A t \in Thread : td_priority[t] = 0
      /\ sda_exitlist = {} /\ sda_threadnr = 1 /\ ~died /\ sda_currtd = Idle
      /\ \A t \in Runner : td_kstk[t] = <<>>
  BY <1>0 DEF Init
<1>3. NoDups
  BY <1>1, <1>2 DEF NoDups
<1>4. RunListsOK /\ CurrentsOK /\ WaitListsOK
  BY <1>0, <1>1, <1>2 DEF RunListsOK, CurrentsOK, WaitListsOK, Runnable
<1>5. ListsMatchStatus
  <2>1. \A t \in Thread : t # None /\ td_priority[t] = 0
    BY <1>2, SchedAssumption
  <2>2. \A t \in Thread : RunListed(t) <=> t = FirstThread
    BY <1>0, <1>1, <1>2, <2>1 DEF RunListed
  <2>3. \A t \in Thread : ~WaitListed(t)
    BY <1>1, <1>2 DEF WaitListed
  <2>4. QED
    BY <1>0, <1>2, <2>2, <2>3 DEF ListsMatchStatus
<1>6. Alive = {FirstThread}
  BY <1>0, <1>2 DEF Alive
<1>7. IsFiniteSet(Alive) /\ Cardinality(Alive) = 1
  BY <1>6, FS_Singleton
<1>8. CountsMatchLists
  <2>1. \A p \in Prio : tdl_nr[p] = Len(tdl_lsth[p])
                                   + IF tdl_curruntd[p] = None THEN 0 ELSE 1
    <3> SUFFICES ASSUME NEW p \in Prio
                 PROVE  tdl_nr[p] = Len(tdl_lsth[p]) + 0
      BY <1>2
    <3>1. CASE p = 0
      <4>1. tdl_nr[p] = 1 /\ Len(tdl_lsth[p]) = 1
        BY <1>1, <1>2, <3>1
      <4>2. QED
        BY <4>1
    <3>2. CASE p # 0
      <4>1. tdl_nr[p] = 0 /\ Len(tdl_lsth[p]) = 0
        BY <1>1, <1>2, <3>2
      <4>2. QED
        BY <4>1
    <3>3. QED
      BY <3>1, <3>2
  <2>2. \A s \in Sem : wl_tdnr[s] = Len(wl_list[s])
    BY <1>1, <1>2
  <2>3. QED
    BY <1>2, <1>7, <2>1, <2>2 DEF CountsMatchLists, Alive
<1>9. SwitchOK
  BY <1>2 DEF SwitchOK
<1>10. RunningIsCurrent
  BY <1>2 DEF RunningIsCurrent
<1>11. QED
  BY <1>2, <1>3, <1>4, <1>5, <1>7, <1>8, <1>9, <1>10 DEF SInv, LInv, NeverDies

LEMMA NextSafe ==
  ASSUME TInv, SInv, [Next]_vars, ~PreemptsChosen \/ UNCHANGED vars
  PROVE  SInv'
<1>1. ASSUME KernelStep, ~PreemptsChosen
      PROVE  SInv'
  BY <1>1, ChkNeedSafe, SelectSafe, SwitchSafe, WakeOneSafe, WakeDoneSafe,
     SetFlgsSafe, DownTakeSafe, DownWaitSafe, ExitDelSafe, IdleLoopSafe
     DEF KernelStep, PreemptsChosen
<1>2. CASE ThreadCall
  BY <1>2, CallDownSafe, CallUpSafe, CallExitSafe, CallNewThreadSafe
     DEF ThreadCall
<1>3. CASE Irq
  BY <1>3, TimerIrqSafe, KeyIrqSafe DEF Irq
<1>4. CASE UNCHANGED vars
  <2>1. LInv'
    BY <1>4, ListsKept DEF vars, nrVars, semVars, SInv
  <2>2. SwitchOK'
    BY <1>4 DEF vars, runVars, tdVars, SInv, SwitchOK, ChoiceOK
  <2>3. RunningIsCurrent' /\ NeverDies'
    BY <1>4 DEF vars, runVars, tdVars, SInv, RunningIsCurrent, InSchedul, NeverDies
  <2>4. QED
    BY <2>1, <2>2, <2>3 DEF SInv
<1>5. QED
  BY <1>1, <1>2, <1>3, <1>4 DEF Next

(* Until a krlschedul has chosen on top of another one that has chosen and *)
(* not switched, the inductive invariant holds.                            *)
LEMMA SafeUntilPreempted ==
  SpecH => /\ Spec
           /\ []TInv
           /\ [](preempted \/ SInv)
<1>1. InitH => /\ Init
               /\ TInv
               /\ preempted \/ SInv
  BY InitTypes, InitSafe DEF InitH
<1>2. [NextH]_varsH => [Next]_vars
  BY DEF NextH, varsH
<1>3. TInv /\ [Next]_vars => TInv'
  BY NextTypes
<1>4. TInv /\ (preempted \/ SInv) /\ [NextH]_varsH => (preempted \/ SInv)'
  <2> SUFFICES ASSUME TInv, preempted \/ SInv, [NextH]_varsH, ~preempted'
               PROVE  SInv'
    OBVIOUS
  <2>1. ~preempted
    BY DEF NextH, varsH
  <2>2. CASE NextH
    BY <1>2, <2>1, <2>2, NextSafe DEF NextH
  <2>3. CASE UNCHANGED varsH
    <3>1. UNCHANGED vars
      BY <2>3 DEF varsH
    <3>2. QED
      BY <2>1, <3>1, NextSafe
  <2>4. QED
    BY <2>2, <2>3
<1>5. QED
  BY <1>1, <1>2, <1>3, <1>4, PTL DEF SpecH, Spec

(* The whole inductive invariant, the properties below among its parts,    *)
(* with interrupts anywhere: nothing but a krlschedul that preempts another*)
(* between its choice and its switch (krlsched.c:266-270) can break it.    *)
THEOREM SafeAlways ==
  SpecH => [](preempted \/ SInv)
BY SafeUntilPreempted, PTL

(* Until then no assertion of krlsched_wait, krlsched_up, krlsched_exit or *)
(* krlsem_up fires.                                                        *)
THEOREM SchedulerNeverDies ==
  SpecH => [](preempted \/ NeverDies)
<1>1. SInv => NeverDies
  BY DEF SInv
<1>2. QED
  BY <1>1, SafeAlways, PTL

(* Until then the run lists, the wait lists and the exit list hold exactly *)
(* the threads their status says: no runnable thread is forgotten.         *)
THEOREM ListsAlwaysMatch ==
  SpecH => [](preempted \/ ListsMatchStatus)
<1>1. SInv => ListsMatchStatus
  BY DEF SInv, LInv
<1>2. QED
  BY <1>1, SafeAlways, PTL

(* Until then the counters kept beside the lists agree with them.          *)
THEOREM CountsAlwaysMatch ==
  SpecH => [](preempted \/ CountsMatchLists)
<1>1. SInv => CountsMatchLists
  BY DEF SInv, LInv
<1>2. QED
  BY <1>1, SafeAlways, PTL

(* Until then who executes outside krlschedul is the current thread of its *)
(* priority.                                                               *)
THEOREM RunningAlwaysCurrent ==
  SpecH => [](preempted \/ RunningIsCurrent)
<1>1. SInv => RunningIsCurrent
  BY DEF SInv
<1>2. QED
  BY <1>1, SafeAlways, PTL

(* Every step but those after such a preemption gives the CPU to a thread  *)
(* that neither waits nor has exited; so it is never given to one, or the  *)
(* preemption has happened.                                                *)
THEOREM BlockedNeverResumed ==
  SpecH => /\ [][preempted \/ ResumesRunnable]_varsH
           /\ NeverResumeBlocked \/ <>preempted
<1>1. ASSUME TInv, SInv, Switch, sda_currtd' \in Thread
      PROVE  td_stus[sda_currtd'] \in {"new", "run"}
  <2>1. Kstk # <<>> /\ Top.op = "switch"
    BY <1>1 DEF Switch, At
  <2>2. ChoiceOK(Top.arg)
    BY <1>1, <2>1, SwitchAlone DEF SInv
  <2>3. ChoiceOK(sda_currtd')
    BY <1>1, <2>2 DEF Switch
  <2>4. sda_currtd' # Idle
    BY <1>1, SchedAssumption
  <2>5. QED
    BY <2>3, <2>4 DEF ChoiceOK, Runnable
<1>2. TInv /\ (preempted \/ SInv) => [preempted \/ ResumesRunnable]_varsH
  BY <1>1 DEF ResumesRunnable
<1>3. TInv /\ SInv => [ResumesRunnable]_vars
  BY <1>1 DEF ResumesRunnable
<1>4. QED
  BY <1>2, <1>3, SafeUntilPreempted, PTL DEF SpecH, NeverResumeBlocked
=============================================================================
