CONSTANTS
  AddrSpaces = {p1, p2}
  VAddrs = {text, stack}
  NULL = NULL
  KSEG0 = KSEG0
  ram_frames = 3
  BootFrames = 1
  SWAP_TEST = FALSE
  NUM_FREEFRAMES_TEST = 2
  UINT_MAX = 8
  TSBound = 7
  SWAP_SIZE = 2
  NUM_TLB = 1
  ElfPages = {text}
  Writable = {stack}
  KMaxPages = 0
SPECIFICATION StatsSpec
VIEW Standing
INVARIANTS
  SwapInReadsOwnSlot
