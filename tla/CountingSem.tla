----------------------------- MODULE CountingSem -----------------------------
(***************************************************************************)
(* What the semaphores of the kernel promise: a number of permits, threads *)
(* that ask for one, and a permit handed to one of the threads that ask.   *)
(* Wait lists, scheduling and interrupts do not appear.                    *)
(***************************************************************************)
EXTENDS Integers

CONSTANTS Thread, Sem

VARIABLES
  permits,  \* per semaphore: units that may still be taken
  asking    \* per semaphore: threads inside krlsem_down

semaphores == <<permits, asking>>

CSInit == /\ permits = [s \in Sem |-> 0]
          /\ asking = [s \in Sem |-> {}]

Ask(t, s) == /\ \A x \in Sem : t \notin asking[x]
             /\ asking' = [asking EXCEPT ![s] = @ \cup {t}]
             /\ UNCHANGED permits

Take(t, s) == /\ t \in asking[s]
              /\ permits[s] > 0
              /\ permits' = [permits EXCEPT ![s] = @ - 1]
              /\ asking' = [asking EXCEPT ![s] = @ \ {t}]

Give(s) == /\ permits' = [permits EXCEPT ![s] = @ + 1]
           /\ UNCHANGED asking

CSNext == \E s \in Sem : \/ \E t \in Thread : Ask(t, s) \/ Take(t, s)
                         \/ Give(s)

(* Safety: a permit is never taken that was not given, never taken twice,  *)
(* and never by a thread that does not ask.                                *)
CSSafe == CSInit /\ [][CSNext]_semaphores

(* Liveness: while threads ask and permits are left, one of them is served.*)
CSSpec == CSSafe /\ \A s \in Sem : WF_semaphores(\E t \in Thread : Take(t, s))
=============================================================================
