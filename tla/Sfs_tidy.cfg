CONSTANTS
  Names <- TwoNames
  NumInodes = 3
  FileBlocks = 2
  BlockSize = 1
  WordBits = 2
  Words = 2
  Bytes = {0, 1}
  MaxBuffer = 2
  MaxSize = 0
SPECIFICATION TidySpec
INVARIANTS
  FreeInodesClean
PROPERTIES
  ImplementsFileStore
