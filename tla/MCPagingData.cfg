CONSTANTS
  AddrSpaces = {p1}
  VAddrs = {text, data, stack}
  NULL = NULL
  KSEG0 = KSEG0
  ram_frames = 3
  BootFrames = 1
  SWAP_TEST = FALSE
  NUM_FREEFRAMES_TEST = 2
  UINT_MAX = 8
  TSBound = 6
  SWAP_SIZE = 3
  NUM_TLB = 2
  ElfPages = {text, data}
  Writable = {data, stack}
  KMaxPages = 2
  Values = {v1}
  ElfErrors = FALSE
SPECIFICATION DataFairSpec
PROPERTIES
  PrivateMemory
  FaultsEnd
