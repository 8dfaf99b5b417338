\* One program with six pages, that gives up any of them.
SPECIFICATION Spec
CONSTANTS
  Mm = {m1}
  Kmvd = {k1, k2, k3, k4, k5}
  Box = {b1, b2}
  Frame = {f1, f2}
  NULL = null
  End = 7
  TextEnd = 2
  AppStart = 2
  HeapStart = 3
  StackStart = 6
  CacheMax = 1
  MaxSize = 2
  FreesAll = TRUE
  PreemptInFault = FALSE
  RunsEarly = FALSE
SYMMETRY Symmetry
INVARIANTS TypeOK AreasOrdered BoxesCounted FramesKept BlocksCovered FaultsAnswered
PROPERTY ImplementsPrivMem
\* Descriptors, boxes and frames run out, and system_error stops threads.
CHECK_DEADLOCK FALSE
