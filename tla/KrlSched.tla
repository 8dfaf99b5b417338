------------------------------- MODULE KrlSched -------------------------------
(***************************************************************************)
(* The scheduler core of the Cosmos kernel: kernel/krlsched.c with the     *)
(* wait lists (krlwaitlist.c), the semaphores (krlsem.c), the tick         *)
(* accounting of krlthread.c, the idle thread (krlcpuidle.c) and the       *)
(* interrupt path (hal/x86/halintupt.c) that preempts it all.              *)
(*                                                                         *)
(* The kernel runs on one CPU.  Code between krlspinlock_cli and the       *)
(* matching krlspinunlock_sti is atomic (interrupts are off); everywhere   *)
(* else an interrupt may arrive, its handler runs on the stack of the      *)
(* thread it interrupts and may call krlschedul there.  What a thread has  *)
(* still to do when it runs again is therefore a stack of pending calls,   *)
(* td_kstk, and one action executes the top entry of the running thread.   *)
(***************************************************************************)
EXTENDS Integers, Sequences, FiniteSets

CONSTANTS
  Thread,       \* the thread_t structures that can ever be created
  FirstThread,  \* the thread init_user_thread creates at boot
  Idle,         \* schdap->sda_cpuidle
  Sem,          \* the semaphores (kb_sem of a keyboard, on_complesem, ...)
  None,         \* NULL
  PRITY_MAX,    \* number of priorities; 0 (PRITY_MIN) is the most urgent
  TDRUN_TICK,   \* a thread keeps the CPU for this many ticks
  UINT_MAX,     \* the greatest uint_t: 2^64 - 1 in the code
  IrqInWindow,  \* may an interrupt arrive between select and switch?
  MaxKstk,      \* bound: entries pending on one kernel stack
  MaxCount      \* bound: value a semaphore is raised to

Prio   == 0 .. PRITY_MAX - 1
Status == {"free", "new", "run", "wait", "exit"}
Flags  == {"NOTS_SCHED", "NEED_SCHED"}

ASSUME SchedAssumption ==
  /\ PRITY_MAX \in Nat \ {0}
  /\ TDRUN_TICK \in Nat
  /\ UINT_MAX \in Nat
  /\ IsFiniteSet(Thread) /\ Cardinality(Thread) <= UINT_MAX
  /\ MaxKstk \in Nat
  /\ MaxCount \in Nat
  /\ IrqInWindow \in BOOLEAN
  /\ FirstThread \in Thread
  /\ Idle \notin Thread
  /\ None \notin Thread \cup {Idle}

VARIABLES
  tdl_lsth,      \* per priority: list of threads waiting for the CPU
  tdl_curruntd,  \* per priority: the thread that last got the CPU, off the list
  tdl_nr,        \* per priority: how many threads are runnable
  sda_threadnr,  \* threads alive on this CPU
  scls_threadnr, \* threads ever created
  sda_schdflgs,  \* is a preemption wanted?
  sda_currtd,    \* the thread that owns the CPU
  sda_exitlist,  \* threads that have exited
  td_stus,       \* per thread: its status
  td_priority,   \* per thread: its priority
  td_tick,       \* per thread: ticks of its current time slice
  td_kstk,       \* per thread: calls pending on its kernel stack, last is top
  wl_list,       \* per semaphore: list of threads that wait, last come first
  wl_tdnr,       \* per semaphore: length kept beside the list
  sem_count,     \* per semaphore: its count
  died           \* hal_sysdie has been called: the machine spins for ever

runVars  == <<tdl_lsth, tdl_curruntd, tdl_nr>>
nrVars   == <<sda_threadnr, scls_threadnr, sda_exitlist>>
semVars  == <<wl_list, wl_tdnr, sem_count>>
tdVars   == <<td_stus, td_priority>>
vars == <<runVars, nrVars, sda_schdflgs, sda_currtd, tdVars, td_tick, td_kstk,
          semVars, died>>

Runner == Thread \cup {Idle}

(* Pending calls: "down" is krlsem_down at start_step, "allup" the wake-up *)
(* loop of krlsem_up, "setflgs" the krlsched_set_schedflgs that ends it,   *)
(* "chkneed" the krlsched_chkneed_pmptsched that ends an interrupt,        *)
(* "select" a krlschedul that has not chosen yet, "switch" one that has,   *)
(* "exit" a krlsched_exit that has tested tdl_nr and not yet left the      *)
(* scheduler.                                                              *)
Call == [op : {"select", "chkneed", "setflgs", "exit"}, arg : {None}]
        \cup [op : {"down", "allup"}, arg : Sem]
        \cup [op : {"switch"}, arg : Runner]

Pend(op, arg) == [op |-> op, arg |-> arg]

-----------------------------------------------------------------------------
(* The kernel stack of the running thread.                                 *)

Kstk    == td_kstk[sda_currtd]
Caller  == SubSeq(Kstk, 1, Len(Kstk) - 1)
Top     == Kstk[Len(Kstk)]
At(op)  == ~died /\ Kstk # <<>> /\ Top.op = op
AtCode  == ~died /\ Kstk = <<>>

KstkBecomes(s) == td_kstk' = [td_kstk EXCEPT ![sda_currtd] = s]

-----------------------------------------------------------------------------
(* The counters are unsigned.  krlsched_exit tests tdl_nr with interrupts  *)
(* on and counts down later, and nothing tests sda_threadnr: both may pass *)
(* zero, and wrap.                                                         *)

Incr(n) == IF n = UINT_MAX THEN 0 ELSE n + 1
Decr(n) == IF n = 0 THEN UINT_MAX ELSE n - 1

-----------------------------------------------------------------------------
(* Lists.                                                                  *)

OnList(t, q)  == \E i \in 1 .. Len(q) : q[i] = t
AddHead(q, t) == <<t>> \o q

(* list_del of the i-th node. *)
WithoutForgets(q, i) == q
Without(q, i) == SubSeq(q, 1, i - 1) \o SubSeq(q, i + 1, Len(q))

(* list_del of a node that may be on this list, on another one or on none. *)
Unlink(q, t) ==
  IF OnList(t, q) THEN Without(q, CHOOSE i \in 1 .. Len(q) : q[i] = t) ELSE q

(* The nodes of a run list that krlsched_select_thread accepts. *)
Ready(q) == {i \in 1 .. Len(q) : td_stus[q[i]] \in {"run", "new"}}

(* The priorities it looks into before it falls back on the idle thread. *)
Busy == {p \in Prio : Ready(tdl_lsth[p]) # {} \/ tdl_curruntd[p] # None}

Least(x, S) == x \in S /\ \A y \in S : x <= y

(* The thread that had the CPU of a priority goes to the end of its list. *)
RequeueForgets(q, cur)   == q
RequeueAtHead(q, cur)    == IF cur = None THEN q ELSE AddHead(q, cur)
Requeue(q, cur)          == IF cur = None THEN q ELSE Append(q, cur)

(* What is left of tdl_curruntd when thread t stops being runnable. *)
ClearCurNever(cur, t) == cur
ClearCur(cur, t)      == IF cur = t THEN None ELSE cur

Init ==
  /\ tdl_lsth = [p \in Prio |-> IF p = 0 THEN <<FirstThread>> ELSE <<>>]
  /\ tdl_curruntd = [p \in Prio |-> None]
  /\ tdl_nr = [p \in Prio |-> IF p = 0 THEN 1 ELSE 0]
  /\ sda_threadnr = 1
  /\ scls_threadnr = 1
  /\ sda_schdflgs = "NOTS_SCHED"
  /\ sda_currtd = Idle
  /\ sda_exitlist = {}
  /\ td_stus = [t \in Thread |-> IF t = FirstThread THEN "new" ELSE "free"]
  /\ td_priority = [t \in Thread |-> 0]
  /\ td_tick = [t \in Runner |-> 0]
  /\ td_kstk = [t \in Runner |-> <<>>]
  /\ wl_list = [s \in Sem |-> <<>>]
  /\ wl_tdnr = [s \in Sem |-> 0]
  /\ sem_count = [s \in Sem |-> 0]
  /\ died = FALSE

-----------------------------------------------------------------------------
(* Interrupts: hal_hwint_allocator runs the handler and then               *)
(* krlsched_chkneed_pmptsched.  They are taken wherever interrupts are on, *)
(* so in a chkneed or a setflgs too, and nest.                             *)

IrqEnabled ==
  /\ ~died
  /\ Kstk # <<>> => /\ Top.op # "allup"
                    /\ Top.op = "switch" => IrqInWindow
  /\ Len(Kstk) < MaxKstk

(* krlthd_inc_tick: the slice is over after TDRUN_TICK ticks. *)
NextTickNoReset(k) == k + 1
NextTick(k) == IF k + 1 > TDRUN_TICK THEN 0 ELSE k + 1

(* systick_handle: krlthd_inc_tick of the running thread. *)
TimerIrq ==
  /\ IrqEnabled
  /\ td_tick' = [td_tick EXCEPT ![sda_currtd] = NextTick(@)]
  /\ sda_schdflgs' = IF NextTick(td_tick[sda_currtd]) = 0 THEN "NEED_SCHED"
                     ELSE sda_schdflgs
  /\ KstkBecomes(Append(Kstk, Pend("chkneed", None)))
  /\ UNCHANGED <<runVars, nrVars, sda_currtd, tdVars, semVars, died>>

(* The first half of krlsem_up: the count goes up, the loop is to follow. *)
RaiseCount(s) ==
  /\ sem_count[s] < MaxCount
  /\ sem_count' = [sem_count EXCEPT ![s] = @ + 1]
  /\ died' = (sem_count[s] + 1 < 1)

(* uart_handle: krlsem_up on the semaphore of the keyboard. *)
KeyIrq(s) ==
  /\ IrqEnabled
  /\ RaiseCount(s)
  /\ KstkBecomes(Append(Append(Append(Kstk, Pend("chkneed", None)),
                               Pend("setflgs", None)),
                        Pend("allup", s)))
  /\ UNCHANGED <<runVars, nrVars, sda_schdflgs, sda_currtd, tdVars, td_tick,
                 wl_list, wl_tdnr>>

ChkNeed ==
  /\ At("chkneed")
  /\ IF sda_schdflgs = "NEED_SCHED"
     THEN /\ sda_schdflgs' = "NOTS_SCHED"
          /\ KstkBecomes(Append(Caller, Pend("select", None)))
     ELSE /\ UNCHANGED sda_schdflgs
          /\ KstkBecomes(Caller)
  /\ UNCHANGED <<runVars, nrVars, sda_currtd, tdVars, td_tick, semVars, died>>

-----------------------------------------------------------------------------
(* krlschedul: choose under sda_lock, then switch with interrupts off.     *)

SelectIdle ==
  /\ Busy = {}
  /\ KstkBecomes(Append(Caller, Pend("switch", Idle)))
  /\ UNCHANGED runVars

SelectFromList(p, i) ==
  LET q == tdl_lsth[p]
  IN /\ Least(i, Ready(q))
     /\ tdl_lsth' = [tdl_lsth EXCEPT ![p] =
                       Requeue(Without(q, i), tdl_curruntd[p])]
     /\ tdl_curruntd' = [tdl_curruntd EXCEPT ![p] = q[i]]
     /\ KstkBecomes(Append(Caller, Pend("switch", q[i])))
     /\ UNCHANGED tdl_nr

SelectCurrent(p) ==
  /\ Ready(tdl_lsth[p]) = {}
  /\ KstkBecomes(Append(Caller, Pend("switch", tdl_curruntd[p])))
  /\ UNCHANGED runVars

Select ==
  /\ At("select")
  /\ \/ SelectIdle
     \/ \E p \in Prio : /\ Least(p, Busy)
                       /\ \/ \E i \in 1 .. Len(tdl_lsth[p]) :
                               SelectFromList(p, i)
                          \/ SelectCurrent(p)
  /\ UNCHANGED <<nrVars, sda_schdflgs, sda_currtd, tdVars, td_tick, semVars,
                 died>>

(* save_to_new_context, __to_new_context and retnfrom_first_sched: the     *)
(* thread that leaves returns from krlschedul when it is switched to again.*)
Switch ==
  /\ At("switch")
  /\ sda_currtd' = Top.arg
  /\ KstkBecomes(Caller)
  /\ td_stus' = [t \in Thread |->
                   IF t = Top.arg /\ td_stus[t] = "new" THEN "run"
                   ELSE td_stus[t]]
  /\ UNCHANGED <<runVars, nrVars, sda_schdflgs, td_priority, td_tick, semVars,
                 died>>

-----------------------------------------------------------------------------
(* krlsem_up: the loop of krlwlst_allup, one krlsched_up at a time.        *)

(* A woken thread goes to the end of the run list of its priority. *)
EnlistUncounted(t, p) ==
  /\ tdl_lsth' = [tdl_lsth EXCEPT ![p] = Append(@, t)]
  /\ UNCHANGED <<tdl_curruntd, tdl_nr>>
Enlist(t, p) ==
  /\ tdl_lsth' = [tdl_lsth EXCEPT ![p] = Append(@, t)]
  /\ tdl_nr' = [tdl_nr EXCEPT ![p] = Incr(@)]
  /\ UNCHANGED tdl_curruntd

WakeOne ==
  /\ At("allup")
  /\ LET s == Top.arg
         t == Head(wl_list[s])
         p == td_priority[t]
     IN /\ wl_list[s] # <<>>
        /\ \/ /\ wl_tdnr[s] < 1
              /\ died' = TRUE
              /\ UNCHANGED <<runVars, td_stus, wl_list, wl_tdnr>>
           \/ /\ wl_tdnr[s] >= 1
              /\ wl_list' = [wl_list EXCEPT ![s] = Tail(@)]
              /\ wl_tdnr' = [wl_tdnr EXCEPT ![s] = Decr(@)]
              /\ td_stus' = [td_stus EXCEPT ![t] = "run"]
              /\ Enlist(t, p)
              /\ UNCHANGED died
  /\ UNCHANGED <<nrVars, sda_schdflgs, sda_currtd, td_priority, td_tick,
                 td_kstk, sem_count>>

(* The loop ends when the list is empty. *)
WokenAfterOne(s) == TRUE
WokenAll(s)      == wl_list[s] = <<>>

WakeDone ==
  /\ At("allup")
  /\ WokenAll(Top.arg)
  /\ KstkBecomes(Caller)
  /\ UNCHANGED <<runVars, nrVars, sda_schdflgs, sda_currtd, tdVars, td_tick,
                 semVars, died>>

SetFlgs ==
  /\ At("setflgs")
  /\ sda_schdflgs' = "NEED_SCHED"
  /\ KstkBecomes(Caller)
  /\ UNCHANGED <<runVars, nrVars, sda_currtd, tdVars, td_tick, semVars, died>>

-----------------------------------------------------------------------------
(* krlsem_down: take a unit, or wait, schedule and try again.              *)

HasUnitOffByOne(s) == sem_count[s] >= 0
HasUnit(s)         == sem_count[s] >= 1

DownTake ==
  /\ At("down")
  /\ HasUnit(Top.arg)
  /\ sem_count' = [sem_count EXCEPT ![Top.arg] = @ - 1]
  /\ KstkBecomes(Caller)
  /\ UNCHANGED <<runVars, nrVars, sda_schdflgs, sda_currtd, tdVars, td_tick,
                 wl_list, wl_tdnr, died>>

(* A thread that waits or exits is runnable no more. *)
LeaveRun(t, p) ==
  /\ tdl_lsth' = [x \in Prio |-> Unlink(tdl_lsth[x], t)]
  /\ tdl_curruntd' = [tdl_curruntd EXCEPT ![p] = ClearCur(@, t)]
  /\ tdl_nr' = [tdl_nr EXCEPT ![p] = Decr(@)]

(* krlsched_wait, then krlwlst_add_thread. *)
DownWait ==
  /\ At("down")
  /\ LET t == sda_currtd
         s == Top.arg
         p == td_priority[t]
     IN /\ ~HasUnit(s)
        /\ \/ /\ tdl_nr[p] < 1
              /\ died' = TRUE
              /\ UNCHANGED <<runVars, td_stus, td_kstk, wl_list, wl_tdnr,
                             sda_exitlist>>
           \/ /\ tdl_nr[p] >= 1
              /\ td_stus' = [td_stus EXCEPT ![t] = "wait"]
              /\ LeaveRun(t, p)
              /\ wl_list' = [x \in Sem |-> IF x = s
                                           THEN AddHead(Unlink(wl_list[x], t), t)
                                           ELSE Unlink(wl_list[x], t)]
              /\ wl_tdnr' = [wl_tdnr EXCEPT ![s] = Incr(@)]
              /\ sda_exitlist' = sda_exitlist \ {t}
              /\ KstkBecomes(Append(Kstk, Pend("select", None)))
              /\ UNCHANGED died
  /\ UNCHANGED <<sda_threadnr, scls_threadnr, sda_schdflgs, sda_currtd,
                 td_priority, td_tick, sem_count>>

-----------------------------------------------------------------------------
(* What the code of a thread calls.                                        *)

CallDown(s) ==
  /\ AtCode
  /\ sda_currtd # Idle
  /\ KstkBecomes(<<Pend("down", s)>>)
  /\ UNCHANGED <<runVars, nrVars, sda_schdflgs, sda_currtd, tdVars, td_tick,
                 semVars, died>>

CallUp(s) ==
  /\ AtCode
  /\ sda_currtd # Idle
  /\ RaiseCount(s)
  /\ KstkBecomes(<<Pend("setflgs", None), Pend("allup", s)>>)
  /\ UNCHANGED <<runVars, nrVars, sda_schdflgs, sda_currtd, tdVars, td_tick,
                 wl_list, wl_tdnr>>

(* krlsve_core_exit_thread begins with krlsched_exit, which tests tdl_nr   *)
(* with interrupts on.  A fault that hal_fault_allocator cannot repair ends*)
(* the thread the same way.                                                *)
CallExit ==
  /\ AtCode
  /\ sda_currtd # Idle
  /\ \/ /\ tdl_nr[td_priority[sda_currtd]] < 1
        /\ died' = TRUE
        /\ UNCHANGED td_kstk
     \/ /\ tdl_nr[td_priority[sda_currtd]] >= 1
        /\ KstkBecomes(<<Pend("exit", None)>>)
        /\ UNCHANGED died
  /\ UNCHANGED <<runVars, nrVars, sda_schdflgs, sda_currtd, tdVars, td_tick,
                 semVars>>

(* krlschdclass_del_thread_addexit, which relies on the test made before   *)
(* the lock was taken; krlschedul follows.                                 *)
ExitDel ==
  /\ At("exit")
  /\ LET t == sda_currtd
     IN /\ LeaveRun(t, td_priority[t])
        /\ wl_list' = [x \in Sem |-> Unlink(wl_list[x], t)]
        /\ td_stus' = [td_stus EXCEPT ![t] = "exit"]
        /\ sda_exitlist' = sda_exitlist \cup {t}
  /\ sda_threadnr' = Decr(sda_threadnr)
  /\ KstkBecomes(Append(Caller, Pend("select", None)))
  /\ UNCHANGED <<scls_threadnr, sda_schdflgs, sda_currtd, td_priority, td_tick,
                 wl_tdnr, sem_count, died>>

(* krlnew_thread, down to krlschdclass_add_thread. *)
CallNewThread(t, p) ==
  /\ AtCode
  /\ sda_currtd # Idle
  /\ td_stus[t] = "free"
  /\ td_stus' = [td_stus EXCEPT ![t] = "new"]
  /\ td_priority' = [td_priority EXCEPT ![t] = p]
  /\ tdl_lsth' = [tdl_lsth EXCEPT ![p] = AddHead(@, t)]
  /\ tdl_nr' = [tdl_nr EXCEPT ![p] = Incr(@)]
  /\ sda_threadnr' = Incr(sda_threadnr)
  /\ scls_threadnr' = scls_threadnr + 1
  /\ UNCHANGED <<tdl_curruntd, sda_schdflgs, sda_currtd, sda_exitlist,
                 td_tick, td_kstk, semVars, died>>

(* krlcpuidle_main calls krlschedul for ever. *)
IdleLoop ==
  /\ AtCode
  /\ sda_currtd = Idle
  /\ KstkBecomes(<<Pend("select", None)>>)
  /\ UNCHANGED <<runVars, nrVars, sda_schdflgs, sda_currtd, tdVars, td_tick,
                 semVars, died>>

-----------------------------------------------------------------------------
KernelStep == \/ ChkNeed \/ Select \/ Switch \/ WakeOne \/ WakeDone \/ SetFlgs
              \/ DownTake \/ DownWait \/ ExitDel \/ IdleLoop

ThreadCall == \/ \E s \in Sem : CallDown(s) \/ CallUp(s)
              \/ CallExit
              \/ \E t \in Thread, p \in Prio : CallNewThread(t, p)

Irq == TimerIrq \/ \E s \in Sem : KeyIrq(s)

Next == KernelStep \/ ThreadCall \/ Irq

Spec == Init /\ [][Next]_vars

(* A thread in krlsem_down runs when the scheduler lets it; the clock      *)
(* keeps ticking; the CPU executes what is on top of the stack.  A slice   *)
(* lasts TDRUN_TICK ticks of the clock and a krlsem_down takes a handful of*)
(* instructions, so a thread that is given slice after slice completes it: *)
(* strong fairness for its DownTake.  The interrupt controller latches the *)
(* tick while interrupts are off: strong fairness for TimerIrq.            *)
Fairness ==
  /\ WF_vars(KernelStep)
  /\ SF_vars(TimerIrq)
  /\ \A t \in Thread : SF_vars(sda_currtd = t /\ DownTake)

FairSpec == Spec /\ Fairness

-----------------------------------------------------------------------------
(* Invariants.                                                             *)

TypeOK ==
  /\ tdl_lsth \in [Prio -> Seq(Thread)]
  /\ tdl_curruntd \in [Prio -> Thread \cup {None}]
  /\ tdl_nr \in [Prio -> 0 .. UINT_MAX]
  /\ sda_threadnr \in 0 .. UINT_MAX
  /\ scls_threadnr \in Nat
  /\ sda_schdflgs \in Flags
  /\ sda_currtd \in Runner
  /\ sda_exitlist \subseteq Thread
  /\ td_stus \in [Thread -> Status]
  /\ td_priority \in [Thread -> Prio]
  /\ td_tick \in [Runner -> 0 .. TDRUN_TICK]
  /\ td_kstk \in [Runner -> Seq(Call)]
  /\ wl_list \in [Sem -> Seq(Thread)]
  /\ wl_tdnr \in [Sem -> 0 .. UINT_MAX]
  /\ sem_count \in [Sem -> Nat]
  /\ died \in BOOLEAN

(* No call of hal_sysdie in krlsched_wait, krlsched_up, krlsched_exit or   *)
(* krlsem_up is reached: the counters these functions test before they     *)
(* decrement them (krlsched.c:86, 318, krlwaitlist.c:62) always allow it.  *)
NeverDies == ~died

(* A node is linked at most once.  list_add does not look whether its node *)
(* is on a list already: a second insertion ties two lists together.       *)
LinkedOnce ==
  \A t \in Thread :
    LET Places(lst, X) == {x \in X \X (1 .. Cardinality(Thread) + 1) :
                             x[2] <= Len(lst[x[1]]) /\ lst[x[1]][x[2]] = t}
        runs  == Places(tdl_lsth, Prio)
        waits == Places(wl_list, Sem)
        parks == {p \in Prio : tdl_curruntd[p] = t}
        exits == {t} \cap sda_exitlist
    IN Cardinality(runs) + Cardinality(waits) + Cardinality(parks)
         + Cardinality(exits) <= 1

(* The lists hold exactly the threads their status says: a runnable thread *)
(* is on the run list of its priority or is the current one there, a       *)
(* waiting thread is on a wait list, an exited one on the exit list.  A    *)
(* runnable thread off its list would never run again, and nothing in the  *)
(* code would notice.                                                      *)
RunListed(t)  == LET p == td_priority[t]
                 IN OnList(t, tdl_lsth[p]) \/ tdl_curruntd[p] = t
WaitListed(t) == \E s \in Sem : OnList(t, wl_list[s])
ListsMatchStatus ==
  \A t \in Thread :
    /\ td_stus[t] \in {"new", "run"} <=> RunListed(t)
    /\ td_stus[t] = "wait" <=> WaitListed(t)
    /\ td_stus[t] = "exit" <=> t \in sda_exitlist

(* The counters kept beside the lists agree with them.  tdl_nr counts the  *)
(* current thread of the priority too, which is on no list.                *)
CountsMatchLists ==
  /\ \A p \in Prio : tdl_nr[p] = Len(tdl_lsth[p])
                                    + IF tdl_curruntd[p] = None THEN 0 ELSE 1
  /\ \A s \in Sem : wl_tdnr[s] = Len(wl_list[s])
  /\ sda_threadnr = Cardinality({t \in Thread :
                                    td_stus[t] \in {"new", "run", "wait"}})

(* A thread that executes outside krlschedul is runnable and is the        *)
(* current thread of its priority: what it was when krlschedul chose it    *)
(* still holds when it continues.                                          *)
InSchedul(t) == \E i \in 1 .. Len(td_kstk[t]) :
                   td_kstk[t][i].op \in {"select", "switch"}
RunningIsCurrent ==
  sda_currtd # Idle /\ ~InSchedul(sda_currtd) =>
    /\ td_stus[sda_currtd] = "run"
    /\ tdl_curruntd[td_priority[sda_currtd]] = sda_currtd

(* No lost wake-up: when a thread waits on a semaphore, no unit is left on *)
(* it, but for the moment krlsem_up walks its wait list.                   *)
NoLostWakeup ==
  \A s \in Sem : wl_list[s] # <<>> =>
    sem_count[s] < 1 \/ (Kstk # <<>> /\ Top = Pend("allup", s))

(* The CPU is never given to a thread that waits or has exited.            *)
ResumesRunnable ==
  Switch /\ sda_currtd' \in Thread => td_stus[sda_currtd'] \in {"new", "run"}
NeverResumeBlocked == [][ResumesRunnable]_vars

(* A thread on the run list of the most urgent priority gets the CPU, no   *)
(* matter how many others come and go and whether they ever block.         *)
RoundRobin == \A t \in Thread : OnList(t, tdl_lsth[0]) ~> sda_currtd = t

(* The semaphores implement CountingSem: a thread asks for as long as a    *)
(* krlsem_down is pending on its stack.                                    *)
Asking == [s \in Sem |-> {t \in Thread :
             \E i \in 1 .. Len(td_kstk[t]) : td_kstk[t][i] = Pend("down", s)}]
Abstract == INSTANCE CountingSem WITH permits <- sem_count, asking <- Asking

(* Units are handed out correctly, even when the scheduler errs.           *)
SemIsSafe == Abstract!CSSafe
(* ... and while threads ask for units that are left, one of them gets one.*)
SemIsLive == Abstract!CSSpec
=============================================================================
