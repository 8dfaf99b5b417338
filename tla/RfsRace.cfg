SPECIFICATION Spec
CONSTANTS
  Client = {c1, c2}
  Name = {f1, f2}
  Block <- MCBlock
  NULL = NULL
  DirMax = 3
  FileMax = 2
  Serial = FALSE
SYMMETRY Symmetry
INVARIANT
  CreatedIsThere
CHECK_DEADLOCK FALSE
