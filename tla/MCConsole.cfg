CONSTANTS
  b = b
  r = r
  Threads = {b, r}
  Readers = {r}
  Boot = b
  IRQ = IRQ
  NULL = NULL
  CONSOLE_INPUT_BUFFER_SIZE = 3
  MaxOut <- Prints
  MaxTyped = 3
CHECK_DEADLOCK FALSE
SPECIFICATION FairSpec
INVARIANTS
  ConTypeOK
  ClearToWrite
  OutputExact
  InputExact
PROPERTIES
  EveryCharShown
  EveryCharRead
