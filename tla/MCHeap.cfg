CONSTANTS
  AddrSpaces = {as1, as2}
  VAddrs = {va1, va2}
  NULL = NULL
  KSEG0 = KSEG0
  ram_frames = 6
  BootFrames = 2
  SWAP_TEST = FALSE
  NUM_FREEFRAMES_TEST = 0
  UINT_MAX = 9
  TSBound = 6
  KThreads = {k1, k2}
  PAGE_SIZE = 4
  sizes <- TwoSizes
  CM_ENTRY_SIZE = 1
  NUM_PAGEREFPAGES = 1
  NPAGEREFS_PER_PAGE = 2
  MaxPointers = 3
  MaxPages = 3
SPECIFICATION HeapSpec
SYMMETRY Sym
INVARIANTS
  HeapTypeOK
  HeapConsistent
  KernelFramesAccounted
  FramesWellFormed
  EvictFindsVictim
PROPERTIES
  EvictsOldestFirst
  FifoSpec
