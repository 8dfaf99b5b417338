\* Seven kernel pages with a hole, one process page, two callers.
SPECIFICATION Spec
CONSTANTS
  krnl = krnl
  proc = proc
  c1 = c1
  c2 = c2
  c3 = c3
  Caller = {c1, c2}
  Nobody = nobody
  Area = {krnl, proc}
  KRNL = krnl
  PROC = proc
  PageNr = 8
  LMAX = 3
  MaxAsk = 4
  mf_marty <- MartySmall
  paf_padrs <- PadrsSmall
  af_oderpnr <- Sizes3
  BootBlocks <- BootSmall
SYMMETRY Symm
INVARIANTS TypeOK PagesPartition RunsContinuous NoFreeNeighbours CountsMatch NeverHalts
PROPERTIES HeldUntouched ImplementsPageRuns
