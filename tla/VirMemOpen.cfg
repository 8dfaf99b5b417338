\* Two programs with four pages each, preempted before CR2 is read, run early.
SPECIFICATION Spec
CONSTANTS
  Mm = {m1, m2}
  Kmvd = {k1, k2, k3, k4, k5, k6, k7, k8}
  Box = {b1, b2}
  Frame = {f1, f2}
  NULL = null
  End = 5
  TextEnd = 2
  AppStart = 2
  HeapStart = 3
  StackStart = 4
  CacheMax = 1
  MaxSize = 1
  FreesAll = FALSE
  PreemptInFault = TRUE
  RunsEarly = TRUE
SYMMETRY Symmetry
INVARIANT FramesApart
\* Descriptors, boxes and frames run out, and system_error stops threads.
CHECK_DEADLOCK FALSE
