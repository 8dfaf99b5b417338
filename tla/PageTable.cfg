\* Two address spaces of four pages, too few pages for all their tables.
SPECIFICATION Spec
CONSTANTS
  m0 = m0
  m1 = m1
  Mmu = {m0, m1}
  Initmm = m0
  Page = {1, 2, 3, 4, 5, 6, 7}
  Msa = {msa}
  NoPage = none
  Obj <- ObjSmall
  up <- UpSmall
INVARIANTS TypeOK Reachable NoEmptyTable PagesPartition CpuHasTables
PROPERTY ImplementsPageMap
