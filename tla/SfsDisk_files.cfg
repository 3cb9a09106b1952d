CONSTANTS
  one = one
  other = other
  Names <- TwoNames
  NumInodes = 3
  FileBlocks = 2
  BlockSize = 1
  WordBits = 5
  Words = 1
  Bytes = {0, 1}
  MaxBuffer = 2
  MaxSize = 1
  Overrun = 2
SPECIFICATION DiskSpec
INVARIANTS
  SizeOnDisk
  HeldOnOwnFile
  FreeInodesBlank
  SizeIsPosition
PROPERTIES
  FilesSurvive
SYMMETRY Alike
