--------------------------------- MODULE KrlSve ---------------------------------
(***************************************************************************)
(* Handles on devices: the services kernel/krlsveopen.c, krlsveclose.c and *)
(* krlsveread.c with the handle table of a thread (krlthread.c), object    *)
(* nodes (krlobjnode.c), the use count of a device (krldevice.c) and the   *)
(* keyboard behind one of them (drivers/drvuart.c).                        *)
(*                                                                         *)
(* Interrupts are on in a service, and each of its functions takes and     *)
(* drops a lock of its own, so threads and the keyboard interleave at      *)
(* every step.  The keyboard keeps the last key only, beside a semaphore   *)
(* that counts all keys; KrlSched says how a thread waits on it.           *)
(*                                                                         *)
(* The devices are those that the driver entries registered at boot, where *)
(* a failure halts the machine.  A count is never near ~0UL.               *)
(***************************************************************************)
EXTENDS Integers, FiniteSets

CONSTANTS
  Thread,
  Device,       \* the registered devices that count their users
  KBD,          \* the keyboard among them
  Node,         \* bound: memory for object nodes
  NULL,
  TD_HAND_MAX,  \* handles of a thread
  KeyMax        \* bound: keys pressed

Hand == 0 .. TD_HAND_MAX - 1

ASSUME KrlSveAssumption ==
  /\ KBD \in Device /\ NULL \notin Node \cup Device
  /\ TD_HAND_MAX \in Nat \ {0} /\ KeyMax \in Nat

VARIABLES
  td_handtbl,  \* per thread and handle: an object node or NULL
  on_objadr,   \* per node: the device it stands for, NULL when it is free
  dev_count,   \* per device
  kb_buff,     \* the number of the key in the buffer of the keyboard, 0 at first
  kb_sem,      \* keys that no read has been answered for
  keys,        \* keys pressed
  pc,          \* per thread: where it is in a service
  ondp,        \* per thread: the node it works on
  hand,        \* per thread: the handle it works on
  buf          \* per thread: what a read has copied, the first word and the others

sve  == <<td_handtbl, on_objadr, dev_count>>
kb   == <<kb_buff, kb_sem, keys>>
vars == <<sve, kb, pc, ondp, hand, buf>>

Pcs == {"user", "op_hand", "op_dev", "cl_check", "cl_dec", "cl_del",
        "rd_down", "rd_first", "rd_rest", "exited"}

Init ==
  /\ td_handtbl = [t \in Thread |-> [h \in Hand |-> NULL]]
  /\ on_objadr = [n \in Node |-> NULL]
  /\ dev_count = [d \in Device |-> 0]
  /\ kb_buff = 0 /\ kb_sem = 0 /\ keys = 0
  /\ pc = [t \in Thread |-> "user"]
  /\ ondp = [t \in Thread |-> NULL] /\ hand = [t \in Thread |-> 0]
  /\ buf = [t \in Thread |-> <<0, 0>>]

Goto(t, l) == pc' = [pc EXCEPT ![t] = l]

-----------------------------------------------------------------------------
(* krlsve_core_open.  Without a node nothing changes.                      *)
Open(t, d) ==
  /\ pc[t] = "user" /\ Goto(t, "op_hand")
  /\ \E n \in Node : /\ on_objadr[n] = NULL
                     /\ on_objadr' = [on_objadr EXCEPT ![n] = d]
                     /\ ondp' = [ondp EXCEPT ![t] = n]
  /\ UNCHANGED <<td_handtbl, dev_count, kb, hand, buf>>

(* krlthd_add_objnode; when the table is full the node is deleted. *)
Unused(t) == {h \in Hand : td_handtbl[t][h] = NULL}
OpenHand(t) ==
  /\ pc[t] = "op_hand"
  /\ \/ /\ Unused(t) = {}
        /\ on_objadr' = [on_objadr EXCEPT ![ondp[t]] = NULL]
        /\ ondp' = [ondp EXCEPT ![t] = NULL]
        /\ Goto(t, "user")
        /\ UNCHANGED <<td_handtbl, hand>>
     \/ \E h \in Unused(t) :
          /\ \A o \in Unused(t) : h <= o
          /\ td_handtbl' = [td_handtbl EXCEPT ![t][h] = ondp[t]]
          /\ hand' = [hand EXCEPT ![t] = h]
          /\ Goto(t, "op_dev")
          /\ UNCHANGED <<on_objadr, ondp>>
  /\ UNCHANGED <<dev_count, kb, buf>>

(* uart_open, systick_open: krldev_inc_devcount *)
OpenDev(t) ==
  /\ pc[t] = "op_dev"
  /\ dev_count' = [dev_count EXCEPT ![on_objadr[ondp[t]]] = @ + 1]
  /\ ondp' = [ondp EXCEPT ![t] = NULL] /\ Goto(t, "user")
  /\ UNCHANGED <<td_handtbl, on_objadr, kb, hand, buf>>

-----------------------------------------------------------------------------
(* krlsve_core_close; the count is tested before its lock is taken         *)
(* (krldev_dec_devcount).                                                  *)
Close(t, h) ==
  /\ pc[t] = "user" /\ td_handtbl[t][h] # NULL
  /\ ondp' = [ondp EXCEPT ![t] = td_handtbl[t][h]]
  /\ hand' = [hand EXCEPT ![t] = h]
  /\ Goto(t, "cl_check")
  /\ UNCHANGED <<sve, kb, buf>>
CloseCheck(t) ==
  /\ pc[t] = "cl_check"
  /\ Goto(t, IF dev_count[on_objadr[ondp[t]]] < 1 THEN "user" ELSE "cl_dec")
  /\ UNCHANGED <<sve, kb, ondp, hand, buf>>
CloseDec(t) ==
  /\ pc[t] = "cl_dec"
  /\ dev_count' = [dev_count EXCEPT ![on_objadr[ondp[t]]] = @ - 1]
  /\ Goto(t, "cl_del")
  /\ UNCHANGED <<td_handtbl, on_objadr, kb, ondp, hand, buf>>
(* krlthd_del_objnode, krldel_objnode *)
ReleasedKept(tbl, t) == tbl \* the handle still points to the deleted node
Released(tbl, t) == [tbl EXCEPT ![t][hand[t]] = NULL]
CloseDel(t) ==
  /\ pc[t] = "cl_del"
  /\ td_handtbl' = Released(td_handtbl, t)
  /\ on_objadr' = [on_objadr EXCEPT ![ondp[t]] = NULL]
  /\ ondp' = [ondp EXCEPT ![t] = NULL] /\ Goto(t, "user")
  /\ UNCHANGED <<dev_count, kb, hand, buf>>

(* A thread that exits keeps its handles, nodes and counts:                *)
(* krlsve_core_exit_thread looks at none of them.                          *)
Exit(t) ==
  /\ pc[t] = "user" /\ Goto(t, "exited")
  /\ UNCHANGED <<sve, kb, ondp, hand, buf>>

-----------------------------------------------------------------------------
(* uart_handle, with interrupts off. *)
NewestDropped == IF kb_sem > 0 THEN kb_buff ELSE keys + 1 \* a slot not read yet keeps its key
KbdWriteScan == keys + 1
KeyIrq ==
  /\ keys < KeyMax
  /\ keys' = keys + 1 /\ kb_buff' = KbdWriteScan /\ kb_sem' = kb_sem + 1
  /\ UNCHANGED <<sve, pc, ondp, hand, buf>>

(* krlsve_core_read, uart_read: wait for a key, then copy the buffer while *)
(* the keyboard may change it.                                             *)
Read(t, h) ==
  /\ pc[t] = "user" /\ td_handtbl[t][h] # NULL
  /\ on_objadr[td_handtbl[t][h]] = KBD
  /\ Goto(t, "rd_down")
  /\ UNCHANGED <<sve, kb, ondp, hand, buf>>
ReadDown(t) ==
  /\ pc[t] = "rd_down" /\ kb_sem > 0
  /\ kb_sem' = kb_sem - 1
  /\ Goto(t, "rd_first")
  /\ UNCHANGED <<sve, kb_buff, keys, ondp, hand, buf>>
KeyRead == kb_buff
ReadFirst(t) ==
  /\ pc[t] = "rd_first"
  /\ buf' = [buf EXCEPT ![t][1] = KeyRead]
  /\ Goto(t, "rd_rest")
  /\ UNCHANGED <<sve, kb, ondp, hand>>
ReadRest(t) ==
  /\ pc[t] = "rd_rest"
  /\ buf' = [buf EXCEPT ![t][2] = KeyRead]
  /\ Goto(t, "user")
  /\ UNCHANGED <<sve, kb, ondp, hand>>

-----------------------------------------------------------------------------
Step(t) ==
  \/ OpenHand(t) \/ OpenDev(t)
  \/ CloseCheck(t) \/ CloseDec(t) \/ CloseDel(t)
  \/ ReadDown(t) \/ ReadFirst(t) \/ ReadRest(t)

Next ==
  \/ \E t \in Thread :
       \/ \E d \in Device : Open(t, d)
       \/ \E h \in Hand : Close(t, h) \/ Read(t, h)
       \/ Exit(t)
       \/ Step(t)
  \/ KeyIrq

(* A service that was entered runs to its end: the scheduler gives every   *)
(* runnable thread the processor again and again (RoundRobin of KrlSched). *)
(* A waiting thread may lose a unit to another one, so the wait is fair    *)
(* only as a whole.                                                        *)
Fairness == /\ \A t \in Thread : WF_vars(Step(t) /\ pc[t] # "rd_down")
            /\ WF_vars(\E t \in Thread : ReadDown(t))

Spec == Init /\ [][Next]_vars /\ Fairness

-----------------------------------------------------------------------------
(* A node stands in one place of one table, or in the hands of the thread  *)
(* that opens it; the count of a device is the number of its open handles, *)
(* so that a close never finds it at zero.                                 *)
Slots == {s \in Thread \X Hand : td_handtbl[s[1]][s[2]] # NULL}
Counted(d) == {s \in Slots : /\ on_objadr[td_handtbl[s[1]][s[2]]] = d
                             /\ ~(pc[s[1]] \in {"op_dev", "cl_del"} /\ hand[s[1]] = s[2])}
HandlesAccounted ==
  /\ \A n \in Node : on_objadr[n] # NULL =>
       Cardinality({s \in Slots : td_handtbl[s[1]][s[2]] = n}
                     \cup {<<t, NULL>> : t \in {u \in Thread : pc[u] = "op_hand" /\ ondp[u] = n}}) = 1
  /\ \A s \in Slots : on_objadr[td_handtbl[s[1]][s[2]]] # NULL
  /\ \A d \in Device : dev_count[d] = Cardinality(Counted(d))

(* Keys may be lost and one delivered twice, but not the last one: when    *)
(* all have been pressed and somebody reads, a read returns the last, and  *)
(* nothing of the one before.                                              *)
LastKeyRead ==
  \A t \in Thread :
    pc[t] = "rd_down" /\ keys = KeyMax ~> \E o \in Thread : buf[o] = <<KeyMax, KeyMax>>
=============================================================================
