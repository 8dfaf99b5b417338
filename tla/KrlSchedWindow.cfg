\* As KrlSchedOpen, with one thread and one priority.
SPECIFICATION Spec
CONSTANTS
  t1 = t1
  t2 = t2
  t3 = t3
  s1 = s1
  FirstThread = t1
  Idle = idle
  Sem = {s1}
  None = none
  Thread = {t1}
  PRITY_MAX = 1
  TDRUN_TICK = 0
  UINT_MAX = 7
  IrqInWindow = TRUE
  MaxKstk = 2
  MaxCount = 1
INVARIANT NeverDies
CHECK_DEADLOCK FALSE
