CONSTANTS
  Names <- OneName
  NumInodes = 2
  FileBlocks = 2
  BlockSize = 2
  WordBits = 2
  Words = 2
  Bytes = {0, 1}
  MaxBuffer = 3
  MaxSize = 2
SPECIFICATION TidySpec
PROPERTIES
  ImplementsFileStore
