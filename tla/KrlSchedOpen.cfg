\* Two threads that may have different priorities, two semaphores, and
\* interrupts everywhere, in the window between select and switch too.
\* The machine may stop: see KrlSchedWindow.
SPECIFICATION Spec
CONSTANTS
  t1 = t1
  t2 = t2
  s1 = s1
  s2 = s2
  FirstThread = t1
  Idle = idle
  Sem = {s1, s2}
  None = none
  Thread = {t1, t2}
  PRITY_MAX = 2
  TDRUN_TICK = 0
  UINT_MAX = 2
  IrqInWindow = TRUE
  MaxKstk = 2
  MaxCount = 1
SYMMETRY AnySem
INVARIANTS LinkedOnce NoLostWakeup
PROPERTY SemIsSafe
CHECK_DEADLOCK FALSE
