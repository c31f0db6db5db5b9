CONSTANTS
  PAGE_SIZE = 4
  MaxSize = 11
  FileSize = 20
  Bss = TRUE
  SmallCrossing = FALSE
  ZERO = ZERO
  STORED = STORED
SPECIFICATION ElfSpec
CHECK_DEADLOCK FALSE
INVARIANTS
  FileBytesInPlace
PROPERTIES
  LoadsOnlyFaultingPage
