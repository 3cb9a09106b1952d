CONSTANTS
  t1 = t1
  t2 = t2
  Threads <- TwoThreads
  Names <- TwoNames
  Locations <- StartAndPast
  NumInodes = 3
  FileBlocks = 1
  BlockSize = 1
  WordBits = 2
  Words = 1
  Bytes = {0, 1}
  MaxBuffer = 1
  MaxSize = 0
SPECIFICATION FuseSpec
INVARIANTS
  DescriptorsOwned
  WritersOnOwnFile
  CursorRests
PROPERTIES
  ListingComplete
  TruncateEmpties
  HandlersReturn
