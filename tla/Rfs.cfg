SPECIFICATION Spec
CONSTANTS
  Client = {c1, c2}
  Name = {f1, f2}
  Block <- MCBlock
  NULL = NULL
  DirMax = 3
  FileMax = 2
  Serial = TRUE
SYMMETRY Symmetry
INVARIANTS
  TypeOK
  DirMatchesBitmap
PROPERTY
  ImplementsFiles
CHECK_DEADLOCK FALSE
