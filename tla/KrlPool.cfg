SPECIFICATION Spec
CONSTANTS
  NULL = NULL
  PageNr = 5
  RunSizes = {1, 2, 4}
  PAGESIZE = 8
  KMSOB = 4
  KMBEXT = 2
  KOBLST_MAX = 2
  ol_sz <- MCOlSz
  pages_of <- MCPagesOf
  Size <- MCSize
  ALIGNMENT = 2
  OBJSORPAGE = 4
  PHYMSA_MAX = 5
  LiveMax = 4
INVARIANTS
  SlabsConsistent
  NothingKept
PROPERTY
  ImplementsHeap
