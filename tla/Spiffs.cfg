SPECIFICATION Spec
CONSTANTS
  PageSize = 16
  BlockSize = 112
  ObjNameLen = 1
  MetaLen = 0
  AlignedTables = TRUE
  Blocks = 3
  Files <- SomeFiles
  FileSize <- SomeSizes
  NameChars <- Characters
  NameBytes <- Bytes
  Blank = Blank
CHECK_DEADLOCK FALSE
INVARIANTS
  TypeOK
  ReadBack
  Mountable
PROPERTIES
  FullOnlyWhenFull
  EndsInAnImage
