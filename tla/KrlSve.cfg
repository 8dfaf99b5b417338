SPECIFICATION Spec
CONSTANTS
  Thread = {t1, t2}
  Device = {kbd, tick}
  KBD = kbd
  Node = {n1, n2, n3}
  NULL = NULL
  TD_HAND_MAX = 2
  KeyMax = 2
INVARIANT
  HandlesAccounted
PROPERTY
  LastKeyRead
CHECK_DEADLOCK FALSE
